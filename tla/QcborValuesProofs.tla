-------------------------- MODULE QcborValuesProofs --------------------------
(***************************************************************************)
(* For every list of calls, every configuration and every width of the      *)
(* integers that the assumptions allow: a number that is returned is the    *)
(* one that was encoded, or its correct conversion; the content of a tag    *)
(* and a fraction come back as they were put in; a call takes one entry.    *)
(* What a call adds is followed from the encoder to the items the decoder   *)
(* reads.                                                                   *)
(***************************************************************************)
EXTENDS QcborValues, SequenceTheorems, WellFoundedInduction, TLAPS

-----------------------------------------------------------------------------
(* Induction, and sequences joined and cut                                  *)

\* A set of natural numbers that is not empty has a least element.
LEMMA LeastElement ==
  ASSUME NEW T, T \subseteq Nat, T # {}
  PROVE  \E x \in T : \A y \in T : x <= y
<1> DEFINE R == OpToRel(<, Nat)
<1>1. IsWellFoundedOn(R, Nat)
  BY NatLessThanWellFounded, Zenon
<1>2. \A a, b \in Nat : a < b => <<a, b>> \in R
  BY DEF OpToRel
<1> HIDE DEF R
<1>3. PICK x \in T : \A y \in T : ~(<<y, x>> \in R)
  BY <1>1, WFMin
<1>4. \A y \in T : ~(y < x)
  BY <1>2, <1>3
<1> QED BY <1>4

\* Induction, for a set in the place of a predicate.
LEMMA SetInduction ==
  ASSUME NEW S, 0 \in S, \A n \in Nat : n \in S => n + 1 \in S
  PROVE  Nat \subseteq S
<1> DEFINE T == Nat \ S
<1> SUFFICES ASSUME T # {} PROVE FALSE
  OBVIOUS
<1>1. PICK x \in T : \A y \in T : x <= y
  BY LeastElement
<1>2. x # 0 /\ x - 1 \in Nat
  OBVIOUS
<1>3. x - 1 \in S
  BY <1>1, <1>2
<1> QED BY <1>2, <1>3

\* One sequence behind the other, under a name the provers do not look into.
Join(x, y) == x \o y

LEMMA JoinTwo ==
  ASSUME NEW T, NEW a \in Seq(T), NEW b \in Seq(T)
  PROVE  Join(a, b) \in Seq(T) /\ Len(Join(a, b)) = Len(a) + Len(b)
BY ConcatProperties DEF Join

\* Its members.
LEMMA JoinHas ==
  ASSUME NEW T, NEW a \in Seq(T), NEW b \in Seq(T)
  PROVE  \A j \in 1..(Len(a) + Len(b)) :
           Join(a, b)[j] = IF j <= Len(a) THEN a[j] ELSE b[j - Len(a)]
BY ConcatProperties DEF Join

-----------------------------------------------------------------------------
(* Recursive functions                                                      *)

\* There is a function on the natural numbers with a given first value and
\* given steps.
Steps(S)            == [Nat \X S -> S]
Follows(f, S, a, g) ==
  f \in [Nat -> S] /\ f[0] = a /\ \A n \in Nat : f[n + 1] = g[<<n + 1, f[n]>>]

LEMMA Recursion ==
  ASSUME NEW S, NEW a \in S, NEW g \in Steps(S)
  PROVE  \E f : Follows(f, S, a, g)
<1> USE DEF Steps
<1> DEFINE Good(f, n) == /\ f \in [0..n -> S] /\ f[0] = a
                         /\ \A i \in 1..n : f[i] = g[<<i, f[i - 1]>>]
           T == {n \in Nat : \E f : Good(f, n)}
<1>1. 0 \in T
  <2>1. Good([i \in 0..0 |-> a], 0)
    OBVIOUS
  <2> QED BY <2>1
<1>2. ASSUME NEW n \in Nat, n \in T PROVE n + 1 \in T
  <2>1. PICK f : Good(f, n)
    BY <1>2
  <2> DEFINE h == [i \in 0..(n + 1) |-> IF i = n + 1 THEN g[<<n + 1, f[n]>>] ELSE f[i]]
  <2>2. f[n] \in S /\ g[<<n + 1, f[n]>>] \in S
    BY <2>1
  <2>3. h \in [0..(n + 1) -> S] /\ h[0] = a
    BY <2>1, <2>2
  <2>4. ASSUME NEW i \in 1..(n + 1) PROVE h[i] = g[<<i, h[i - 1]>>]
    <3>1. CASE i = n + 1
      <4>1. h[i] = g[<<n + 1, f[n]>>] /\ h[i - 1] = f[n]
        BY <3>1
      <4> QED BY <3>1, <4>1
    <3>2. CASE i # n + 1
      <4>1. i \in 1..n /\ i - 1 \in 0..n
        BY <3>2
      <4>2. h[i] = f[i] /\ h[i - 1] = f[i - 1]
        BY <3>2, <4>1
      <4> HIDE DEF h
      <4> QED BY <2>1, <4>1, <4>2
    <3> QED BY <3>1, <3>2
  <2>5. Good(h, n + 1)
    BY <2>3, <2>4
  <2> HIDE DEF h, Good
  <2> QED BY <2>5
<1>3. Nat \subseteq T
  BY <1>1, <1>2, SetInduction
<1>4. ASSUME NEW f, NEW h, NEW n \in Nat, Good(f, n), Good(h, n + 1)
      PROVE  f[n] = h[n]
  <2> DEFINE U == {i \in Nat : i <= n => f[i] = h[i]}
  <2>1. 0 \in U
    BY <1>4
  <2>2. ASSUME NEW i \in Nat, i \in U PROVE i + 1 \in U
    <3> SUFFICES ASSUME i + 1 <= n PROVE f[i + 1] = h[i + 1]
      OBVIOUS
    <3>1. f[i] = h[i] /\ i + 1 \in 1..n /\ i + 1 \in 1..(n + 1) /\ i + 1 - 1 = i
      BY <2>2
    <3>2. f[i + 1] = g[<<i + 1, f[i + 1 - 1]>>] /\ h[i + 1] = g[<<i + 1, h[i + 1 - 1]>>]
      BY <1>4, <3>1
    <3> QED BY <3>1, <3>2
  <2>3. Nat \subseteq U
    BY <2>1, <2>2, SetInduction
  <2> QED BY <2>3
<1> DEFINE F == [n \in Nat |-> (CHOOSE f : Good(f, n))[n]]
<1>5. ASSUME NEW n \in Nat PROVE Good(CHOOSE f : Good(f, n), n)
  <2>1. \E f : Good(f, n)
    BY <1>3
  <2> HIDE DEF Good
  <2> QED BY <2>1
<1>6. F \in [Nat -> S]
  <2> SUFFICES ASSUME NEW n \in Nat PROVE (CHOOSE f : Good(f, n))[n] \in S
    OBVIOUS
  <2> DEFINE k == CHOOSE f : Good(f, n)
  <2>1. Good(k, n)
    BY <1>5
  <2> HIDE DEF k
  <2>2. k[n] \in S
    BY <2>1
  <2> QED BY <2>2 DEF k
<1>7. F[0] = a
  <2> DEFINE k == CHOOSE f : Good(f, 0)
  <2>1. Good(k, 0)
    BY <1>5
  <2>2. F[0] = k[0]
    OBVIOUS
  <2> HIDE DEF k, F
  <2> QED BY <2>1, <2>2
<1>8. ASSUME NEW n \in Nat PROVE F[n + 1] = g[<<n + 1, F[n]>>]
  <2> DEFINE h == CHOOSE f : Good(f, n + 1)
             k == CHOOSE f : Good(f, n)
  <2>0. n + 1 \in Nat
    OBVIOUS
  <2> HIDE DEF Good
  <2>1. Good(h, n + 1) /\ Good(k, n)
    BY <1>5, <2>0, Zenon
  <2> USE DEF Good
  <2>2. F[n + 1] = h[n + 1] /\ F[n] = k[n]
    <3> HIDE DEF Good
    <3> QED BY <2>0
  <2> HIDE DEF h, k, F
  <2>3. k[n] = h[n]
    BY <1>4, <2>1
  <2>4. n + 1 \in 1..(n + 1) /\ n + 1 - 1 = n
    OBVIOUS
  <2>5. h[n + 1] = g[<<n + 1, h[n]>>]
    BY <2>1, <2>4
  <2> QED BY <2>2, <2>3, <2>5
<1> HIDE DEF F
<1> QED BY <1>6, <1>7, <1>8 DEF Follows
\* The same with the function as a recursive definition has it.
LEMMA Recursive ==
  ASSUME NEW S, NEW a \in S, NEW g \in Steps(S)
  PROVE  \E f : /\ Follows(f, S, a, g)
                /\ f = [i \in Nat |-> IF i = 0 THEN a ELSE g[<<i, f[i - 1]>>]]
<1>1. PICK f : Follows(f, S, a, g)
  BY Recursion
<1>2. ASSUME NEW i \in Nat PROVE f[i] = IF i = 0 THEN a ELSE g[<<i, f[i - 1]>>]
  <2>1. CASE i # 0
    <3>1. i - 1 \in Nat /\ (i - 1) + 1 = i
      BY <2>1
    <3> QED BY <1>1, <2>1, <3>1 DEF Follows
  <2> QED BY <1>1, <2>1 DEF Follows
<1> DEFINE h == [i \in Nat |-> IF i = 0 THEN a ELSE g[<<i, f[i - 1]>>]]
<1>3. f = h
  BY <1>1, <1>2 DEF Follows
<1> QED BY <1>1, <1>3

-----------------------------------------------------------------------------
(* Powers                                                                   *)

\* Powers: the first one, and each from the one before.
LEMMA PowStep ==
  ASSUME NEW b \in Nat
  PROVE  /\ Pow(b, 0) = 1
         /\ \A n \in Nat : Pow(b, n) \in Nat /\ Pow(b, n + 1) = Pow(b, n) * b
<1> DEFINE g == [x \in Nat \X Nat |-> x[2] * b]
           D(f) == [i \in Nat |-> IF i = 0 THEN 1 ELSE f[i - 1] * b]
           p == CHOOSE f : f = D(f)
<1>1. g \in Steps(Nat)
  BY DEF Steps
<1>2. PICK f : /\ Follows(f, Nat, 1, g)
               /\ f = [i \in Nat |-> IF i = 0 THEN 1 ELSE g[<<i, f[i - 1]>>]]
  <2> HIDE DEF g
  <2> QED BY <1>1, Recursive
<1>3. f = D(f)
  <2>1. ASSUME NEW i \in Nat PROVE f[i] = IF i = 0 THEN 1 ELSE f[i - 1] * b
    <3>1. CASE i # 0
      <4>1. i - 1 \in Nat /\ f[i - 1] \in Nat
        BY <1>2, <3>1 DEF Follows
      <4>2. g[<<i, f[i - 1]>>] = f[i - 1] * b
        BY <4>1
      <4> HIDE DEF g
      <4> QED BY <1>2, <3>1, <4>2
    <3> QED BY <1>2, <3>1
  <2> HIDE DEF g
  <2>2. f \in [Nat -> Nat]
    BY <1>2 DEF Follows
  <2> QED BY <2>1, <2>2
<1>4. p = D(p)
  <2> HIDE DEF D
  <2> QED BY <1>3
<1>5. \A n : Pow(b, n) = p[n]
  BY DEF Pow
<1> HIDE DEF p
<1>6. p[0] = 1 /\ \A n \in Nat : p[n + 1] = p[n] * b
  <2>1. ASSUME NEW n \in Nat PROVE p[n + 1] = p[n] * b
    <3>1. n + 1 \in Nat /\ n + 1 # 0 /\ n + 1 - 1 = n
      OBVIOUS
    <3> QED BY <1>4, <3>1
  <2> QED BY <1>4, <2>1
<1> DEFINE S == {n \in Nat : p[n] \in Nat}
<1>7. Nat \subseteq S
  <2>1. 0 \in S
    BY <1>6
  <2>2. \A n \in Nat : n \in S => n + 1 \in S
    BY <1>6
  <2> QED BY <2>1, <2>2, SetInduction
<1> QED BY <1>5, <1>6, <1>7

\* A power of a sum of exponents, and the order of powers.
LEMMA PowSum ==
  ASSUME NEW b \in Nat, NEW m \in Nat, NEW n \in Nat
  PROVE  Pow(b, m + n) = Pow(b, m) * Pow(b, n)
<1> DEFINE S == {k \in Nat : Pow(b, m + k) = Pow(b, m) * Pow(b, k)}
<1>1. 0 \in S
  BY PowStep
<1>2. ASSUME NEW k \in Nat, k \in S PROVE k + 1 \in S
  <2>0. m + k \in Nat /\ m + (k + 1) = (m + k) + 1
    OBVIOUS
  <2>6. Pow(b, (m + k) + 1) = Pow(b, m + k) * b
    BY <2>0, PowStep
  <2>1. /\ Pow(b, k + 1) = Pow(b, k) * b /\ Pow(b, k) \in Nat /\ Pow(b, m) \in Nat
    BY PowStep
  <2>2. Pow(b, m + k) = Pow(b, m) * Pow(b, k)
    BY <1>2
  <2> DEFINE x == Pow(b, m)
             y == Pow(b, k)
  <2>3. Pow(b, m + (k + 1)) = (x * y) * b /\ Pow(b, k + 1) = y * b
    BY <2>0, <2>1, <2>2, <2>6
  <2>4. x \in Nat /\ y \in Nat
    BY <2>1
  <2> HIDE DEF x, y
  <2>5. (x * y) * b = x * (y * b)
    BY <2>4
  <2> QED BY <2>3, <2>5 DEF x
<1>3. Nat \subseteq S
  BY <1>1, <1>2, SetInduction
<1> QED BY <1>3

\* No power is 0.
LEMMA PowPositive ==
  ASSUME NEW b \in Nat, b >= 1, NEW n \in Nat
  PROVE  Pow(b, n) \in Nat /\ Pow(b, n) >= 1
<1> DEFINE S == {k \in Nat : Pow(b, k) >= 1}
<1>1. 0 \in S
  BY PowStep
<1>2. ASSUME NEW k \in Nat, k \in S PROVE k + 1 \in S
  <2> DEFINE y == Pow(b, k)
  <2>1. Pow(b, k + 1) = y * b /\ y \in Nat /\ y >= 1
    BY <1>2, PowStep
  <2> HIDE DEF y
  <2>2. y * b >= 1
    BY <2>1
  <2> QED BY <2>1, <2>2
<1>3. Nat \subseteq S
  BY <1>1, <1>2, SetInduction
<1> QED BY <1>3, PowStep

\* A higher power is not smaller.
LEMMA PowGrows ==
  ASSUME NEW b \in Nat, b >= 1, NEW n \in Nat, NEW m \in 0..n
  PROVE  Pow(b, m) <= Pow(b, n)
<1> DEFINE x == Pow(b, m)
           y == Pow(b, n - m)
<1>1. n - m \in Nat /\ m \in Nat /\ m + (n - m) = n
  OBVIOUS
<1>2. Pow(b, m + (n - m)) = Pow(b, m) * Pow(b, n - m)
  BY <1>1, PowSum
<1>3. Pow(b, n) = x * y
  BY <1>1, <1>2
<1>4. x \in Nat /\ y \in Nat /\ y >= 1
  BY <1>1, PowPositive
<1> HIDE DEF x, y
<1>5. x <= x * y
  BY <1>4
<1> QED BY <1>3, <1>5 DEF x

\* Ten to the n is not less than eight to the n, which is two to the 3n.
LEMMA TenOverEight ==
  ASSUME NEW n \in Nat
  PROVE  Pow(2, 3 * n) <= Pow(10, n)
<1> DEFINE S == {k \in Nat : Pow(2, 3 * k) <= Pow(10, k)}
<1>1. 0 \in S
  BY PowStep
<1>2. ASSUME NEW k \in Nat, k \in S PROVE k + 1 \in S
  <2>1. 3 * k \in Nat /\ 3 * (k + 1) = 3 * k + 3
    OBVIOUS
  <2>2. Pow(2, 3 * k + 3) = Pow(2, 3 * k) * Pow(2, 3)
    BY <2>1, PowSum
  <2>3. Pow(2, 3) = 8
    <3>1. ASSUME NEW x \in Nat, NEW y \in Nat, y = x + 1 PROVE Pow(2, y) = Pow(2, x) * 2
      BY <3>1, PowStep
    <3>2. Pow(2, 1) = Pow(2, 0) * 2 /\ Pow(2, 2) = Pow(2, 1) * 2 /\ Pow(2, 3) = Pow(2, 2) * 2
      BY <3>1
    <3>3. Pow(2, 0) = 1
      BY PowStep
    <3> QED BY <3>2, <3>3
  <2>4. Pow(10, k + 1) = Pow(10, k) * 10 /\ Pow(10, k) \in Nat
    BY PowStep
  <2>5. Pow(2, 3 * k) \in Nat /\ Pow(2, 3 * k) <= Pow(10, k)
    BY <1>2, <2>1, PowStep
  <2>6. Pow(2, 3 * (k + 1)) = Pow(2, 3 * k) * 8
    BY <2>1, <2>2, <2>3
  <2> QED BY <2>4, <2>5, <2>6
<1>3. Nat \subseteq S
  BY <1>1, <1>2, SetInduction
<1> QED BY <1>3

\* The limits of the integers, in terms of the sign bit.
SignBit == Pow(2, W - 1)

\* The limits of the integers, and the number of byte values.
LEMMA Limits ==
  /\ SignBit \in Nat /\ SignBit >= 2
  /\ INT_MAX = SignBit - 1 /\ INT_MIN = -SignBit /\ UINT_MAX = 2 * SignBit - 1
  /\ BYTE \in Nat /\ BYTE >= 2
  /\ \E q \in Nat : SignBit = q * BYTE
<1>1. W \in Nat /\ W - 1 \in Nat /\ W - 2 \in Nat /\ ByteBits \in Nat /\ ByteBits - 1 \in Nat
      /\ W - 1 - ByteBits \in Nat
  BY WidthAssumption
<1>2. Pow(2, (W - 1) + 1) = Pow(2, W - 1) * 2 /\ (W - 1) + 1 = W
  BY <1>1, PowStep
<1>3. Pow(2, (W - 2) + 1) = Pow(2, W - 2) * 2 /\ (W - 2) + 1 = W - 1 /\ Pow(2, W - 2) >= 1
      /\ Pow(2, W - 2) \in Nat
  BY <1>1, PowStep, PowPositive
<1>4. Pow(2, (ByteBits - 1) + 1) = Pow(2, ByteBits - 1) * 2 /\ (ByteBits - 1) + 1 = ByteBits
      /\ Pow(2, ByteBits - 1) >= 1 /\ Pow(2, ByteBits - 1) \in Nat
  BY <1>1, PowStep, PowPositive
<1>5. Pow(2, (W - 1 - ByteBits) + ByteBits) = Pow(2, W - 1 - ByteBits) * Pow(2, ByteBits)
  BY <1>1, PowSum
<1>6. (W - 1 - ByteBits) + ByteBits = W - 1 /\ Pow(2, W - 1 - ByteBits) \in Nat
  BY <1>1, PowStep
<1>7. SignBit = Pow(2, W - 1 - ByteBits) * BYTE
  BY <1>5, <1>6 DEF SignBit, BYTE
<1>8. SignBit \in Nat /\ SignBit >= 2 /\ BYTE \in Nat /\ BYTE >= 2
  BY <1>3, <1>4 DEF SignBit, BYTE
<1>9. Pow(2, W) = SignBit * 2
  BY <1>2 DEF SignBit
<1> QED BY <1>6, <1>7, <1>8, <1>9 DEF SignBit, INT_MAX, INT_MIN, UINT_MAX

-----------------------------------------------------------------------------
(* Division                                                                 *)

\* What integer division is.
LEMMA Div ==
  ASSUME NEW m \in Nat, NEW d \in Nat, d >= 1
  PROVE  m \div d \in Nat /\ (m \div d) * d <= m /\ m < (m \div d) * d + d
OBVIOUS

LEMMA TimesOrder ==
  ASSUME NEW a \in Nat, NEW b \in Nat, NEW d \in Nat, a <= b
  PROVE  a * d <= b * d
OBVIOUS

\* Quotient and remainder are the only ones.
LEMMA DivUnique ==
  ASSUME NEW m \in Nat, NEW d \in Nat, d >= 1, NEW q \in Nat, q * d <= m, m < q * d + d
  PROVE  q = m \div d
<1> DEFINE p == m \div d
<1>1. p \in Nat /\ p * d <= m /\ m < p * d + d
  BY Div
<1> HIDE DEF p
<1>2. CASE p < q
  <2>1. p + 1 \in Nat /\ p + 1 <= q
    BY <1>1, <1>2
  <2>2. (p + 1) * d <= q * d
    BY <2>1, TimesOrder
  <2>3. (p + 1) * d = p * d + d
    BY <1>1
  <2> DEFINE x == p * d
             y == q * d
  <2>4. x \in Nat /\ y \in Nat
    BY <1>1
  <2>5. x + d <= y /\ m < x + d /\ y <= m
    BY <1>1, <2>2, <2>3
  <2> HIDE DEF x, y
  <2> QED BY <2>4, <2>5
<1>3. CASE q < p
  <2>1. q + 1 \in Nat /\ q + 1 <= p
    BY <1>1, <1>3
  <2>2. (q + 1) * d <= p * d
    BY <1>1, <2>1, TimesOrder
  <2>3. (q + 1) * d = q * d + d
    OBVIOUS
  <2> DEFINE x == p * d
             y == q * d
  <2>4. x \in Nat /\ y \in Nat
    BY <1>1
  <2>5. y + d <= x /\ m < y + d /\ x <= m
    BY <1>1, <2>2, <2>3
  <2> HIDE DEF x, y
  <2> QED BY <2>4, <2>5
<1> QED BY <1>1, <1>2, <1>3 DEF p

\* Division twice.
LEMMA DivDiv ==
  ASSUME NEW m \in Nat, NEW d \in Nat, d >= 1, NEW b \in Nat, b >= 1
  PROVE  (m \div d) \div b = m \div (d * b) /\ d * b \in Nat /\ d * b >= 1
<1> DEFINE v == m \div d
           q == v \div b
<1>1. v \in Nat /\ v * d <= m /\ m < v * d + d
  BY Div
<1> HIDE DEF v
<1>2. q \in Nat /\ q * b <= v /\ v < q * b + b
  BY <1>1, Div
<1> HIDE DEF q
<1> DEFINE w == q * b
<1>3. w \in Nat /\ w <= v /\ v + 1 <= w + b /\ w + b \in Nat /\ v + 1 \in Nat
  BY <1>1, <1>2
<1>4. q * (d * b) = w * d /\ d * b = b * d
  BY <1>2
<1> HIDE DEF w
<1>5. w * d <= v * d /\ (v + 1) * d <= (w + b) * d
  BY <1>1, <1>3, TimesOrder
<1>6. (v + 1) * d = v * d + d /\ (w + b) * d = w * d + b * d
  BY <1>1, <1>3
<1>7. d * b \in Nat /\ d * b >= 1
  OBVIOUS
<1> DEFINE D == d * b
           x == w * d
           y == v * d
<1>8. x \in Nat /\ y \in Nat /\ D \in Nat
  BY <1>1, <1>3, <1>7
<1>9. x <= y /\ y + d <= x + D /\ y <= m /\ m < y + d /\ q * D = x
  BY <1>1, <1>4, <1>5, <1>6
<1> HIDE DEF x, y, D
<1>10. q * D <= m /\ m < q * D + D
  BY <1>8, <1>9
<1>11. D >= 1
  BY <1>7 DEF D
<1>12. q = m \div D
  BY <1>2, <1>8, <1>10, <1>11, DivUnique
<1> QED BY <1>7, <1>12 DEF q, v, D

-----------------------------------------------------------------------------
(* The loops of exponentiation                                              *)

Results == [err : {"SUCCESS", UnderOver}, v : Nat]

\* The loop that multiplies: the product, or an overflow if it is beyond the limit.
LEMMA UpIs ==
  ASSUME NEW b \in {2, 10}, NEW m \in Nat, m <= UINT_MAX, NEW n \in Nat
  PROVE  IF m * Pow(b, n) <= UINT_MAX THEN Up(b, m, n) = Gives(m * Pow(b, n))
         ELSE Up(b, m, n) = Fails(UnderOver)
<1> DEFINE g == [x \in Nat \X Results |-> RoundUp(b, x[2])]
           D(f) == [i \in Nat |-> IF i = 0 THEN Gives(m) ELSE RoundUp(b, f[i - 1])]
           p == CHOOSE f : f = D(f)
<1>0. UINT_MAX \in Nat /\ b \in Nat /\ b >= 1 /\ UINT_MAX \div b \in Nat
  BY Limits, Div
<1>1. Gives(m) \in Results /\ g \in Steps(Results)
  <2>1. ASSUME NEW r \in Results PROVE RoundUp(b, r) \in Results
    BY <1>0, <2>1 DEF RoundUp, Round, Results, Gives, Fails, UnderOver
  <2>2. Gives(m) \in Results
    BY DEF Gives, Results
  <2> QED BY <2>1, <2>2 DEF Steps
<1>2. PICK f : /\ Follows(f, Results, Gives(m), g)
               /\ f = [i \in Nat |-> IF i = 0 THEN Gives(m) ELSE g[<<i, f[i - 1]>>]]
  <2> HIDE DEF g
  <2> QED BY <1>1, Recursive
<1>3. f = D(f)
  <2>0. f \in [Nat -> Results]
    <3> HIDE DEF g
    <3> QED BY <1>2 DEF Follows
  <2>1. ASSUME NEW i \in Nat PROVE f[i] = IF i = 0 THEN Gives(m) ELSE RoundUp(b, f[i - 1])
    <3>1. CASE i # 0
      <4>1. i - 1 \in Nat /\ f[i - 1] \in Results
        BY <2>0, <3>1
      <4>2. g[<<i, f[i - 1]>>] = RoundUp(b, f[i - 1])
        BY <4>1
      <4> HIDE DEF g
      <4> QED BY <1>2, <3>1, <4>2
    <3> QED BY <1>2, <3>1
  <2> HIDE DEF g
  <2>2. f \in [Nat -> Results]
    BY <1>2 DEF Follows
  <2> QED BY <2>1, <2>2
<1>4. p = D(p)
  <2> HIDE DEF D
  <2> QED BY <1>3
<1>5. \A k : Up(b, m, k) = p[k]
  BY DEF Up
<1> HIDE DEF p
<1>6. p[0] = Gives(m) /\ \A k \in Nat : p[k + 1] = RoundUp(b, p[k])
  <2>1. ASSUME NEW k \in Nat PROVE p[k + 1] = RoundUp(b, p[k])
    <3>1. k + 1 \in Nat /\ k + 1 # 0 /\ k + 1 - 1 = k
      OBVIOUS
    <3> QED BY <1>4, <3>1
  <2> QED BY <1>4, <2>1
<1> DEFINE Is(k, r) == IF m * Pow(b, k) <= UINT_MAX THEN r = Gives(m * Pow(b, k))
                       ELSE r = Fails(UnderOver)
           S == {k \in Nat : Is(k, p[k])}
<1>7. 0 \in S
  <2>1. Pow(b, 0) = 1 /\ m * 1 = m
    BY <1>0, PowStep
  <2> QED BY <1>6, <2>1
<1>8. ASSUME NEW k \in Nat, k \in S PROVE k + 1 \in S
  <2> DEFINE v == m * Pow(b, k)
  <2>1. Pow(b, k + 1) = Pow(b, k) * b /\ Pow(b, k) \in Nat
    BY <1>0, PowStep
  <2>2. v \in Nat /\ m * Pow(b, k + 1) = v * b
    BY <1>0, <2>1
  <2>3. IF v <= UINT_MAX THEN p[k] = Gives(v) ELSE p[k] = Fails(UnderOver)
    BY <1>8
  <2>4. p[k + 1] = RoundUp(b, p[k])
    BY <1>6
  <2> HIDE DEF v
  <2>5. v <= UINT_MAX \div b <=> v * b <= UINT_MAX
    BY <1>0, <2>2
  <2>6. v * b >= v /\ v * b \in Nat
    BY <1>0, <2>2
  <2>7. IF v * b <= UINT_MAX THEN p[k + 1] = Gives(v * b) ELSE p[k + 1] = Fails(UnderOver)
    <3>1. CASE v <= UINT_MAX
      <4>1. p[k].err = "SUCCESS" /\ p[k].v = v
        BY <2>3, <3>1 DEF Gives
      <4> QED BY <2>4, <2>5, <4>1 DEF RoundUp, Round
    <3>2. CASE ~(v <= UINT_MAX)
      <4>1. p[k].err # "SUCCESS" /\ p[k] = Fails(UnderOver) /\ ~(v * b <= UINT_MAX)
        BY <1>0, <2>2, <2>3, <2>6, <3>2 DEF Fails, UnderOver
      <4> QED BY <2>4, <4>1 DEF RoundUp, Round
    <3> QED BY <3>1, <3>2
  <2> QED BY <2>2, <2>7
<1>9. Nat \subseteq S
  <2> HIDE DEF Is
  <2> QED BY <1>7, <1>8, SetInduction
<1> QED BY <1>5, <1>9

\* The loop that divides: the quotient, or an underflow where it is 0.
LEMMA DownIs ==
  ASSUME NEW b \in {2, 10}, NEW m \in Nat, b = 10 => m >= 1, NEW n \in Nat
  PROVE  \/ /\ Down(b, m, n) = Gives(m \div Pow(b, n))
            /\ b = 10 => m >= Pow(10, n)
            /\ b = 2 /\ n > 0 => m >= Pow(2, n - 1)
         \/ Down(b, m, n) = Fails(UnderOver) /\ m \div Pow(b, n) = 0
<1> DEFINE g == [x \in Nat \X Results |-> RoundDown(b, x[2])]
           D(f) == [i \in Nat |-> IF i = 0 THEN Gives(m) ELSE RoundDown(b, f[i - 1])]
           p == CHOOSE f : f = D(f)
<1>0. b \in Nat /\ b >= 1
  OBVIOUS
<1>1. Gives(m) \in Results /\ g \in Steps(Results)
  <2>1. ASSUME NEW r \in Results PROVE RoundDown(b, r) \in Results
    <3>1. r.v \in Nat /\ r.v \div b \in Nat
      BY <1>0, Div DEF Results
    <3> QED BY <3>1 DEF RoundDown, Round, Results, Gives, Fails, UnderOver
  <2>2. Gives(m) \in Results
    BY DEF Gives, Results
  <2> QED BY <2>1, <2>2 DEF Steps
<1>2. PICK f : /\ Follows(f, Results, Gives(m), g)
               /\ f = [i \in Nat |-> IF i = 0 THEN Gives(m) ELSE g[<<i, f[i - 1]>>]]
  <2> HIDE DEF g
  <2> QED BY <1>1, Recursive
<1>3. f = D(f)
  <2>0. f \in [Nat -> Results]
    <3> HIDE DEF g
    <3> QED BY <1>2 DEF Follows
  <2>1. ASSUME NEW i \in Nat PROVE f[i] = IF i = 0 THEN Gives(m) ELSE RoundDown(b, f[i - 1])
    <3>1. CASE i # 0
      <4>1. i - 1 \in Nat /\ f[i - 1] \in Results
        BY <2>0, <3>1
      <4>2. g[<<i, f[i - 1]>>] = RoundDown(b, f[i - 1])
        BY <4>1
      <4> HIDE DEF g
      <4> QED BY <1>2, <3>1, <4>2
    <3> QED BY <1>2, <3>1
  <2> HIDE DEF g
  <2>2. f \in [Nat -> Results]
    BY <1>2 DEF Follows
  <2> QED BY <2>1, <2>2
<1>4. p = D(p)
  <2> HIDE DEF D
  <2> QED BY <1>3
<1>5. \A k : Down(b, m, k) = p[k]
  BY DEF Down
<1> HIDE DEF p
<1>6. p[0] = Gives(m) /\ \A k \in Nat : p[k + 1] = RoundDown(b, p[k])
  <2>1. ASSUME NEW k \in Nat PROVE p[k + 1] = RoundDown(b, p[k])
    <3>1. k + 1 \in Nat /\ k + 1 # 0 /\ k + 1 - 1 = k
      OBVIOUS
    <3> QED BY <1>4, <3>1
  <2> QED BY <1>4, <2>1
<1> DEFINE Is(k, r) == \/ /\ r = Gives(m \div Pow(b, k))
                          /\ b = 10 => m >= Pow(10, k)
                          /\ b = 2 /\ k > 0 => m >= Pow(2, k - 1)
                       \/ r = Fails(UnderOver) /\ m \div Pow(b, k) = 0
           S == {k \in Nat : Is(k, p[k])}
<1>7. 0 \in S
  <2>1. Pow(b, 0) = 1 /\ m \div 1 = m
    BY <1>0, PowStep
  <2> QED BY <1>6, <2>1
<1>8. ASSUME NEW k \in Nat, k \in S PROVE k + 1 \in S
  <2> DEFINE d == Pow(b, k)
             e == Pow(b, k + 1)
             v == m \div d
             w == m \div e
  <2>1. d \in Nat /\ d >= 1 /\ e = d * b
    BY <1>0, PowStep, PowPositive
  <2>2. Is(k, p[k])
    BY <1>8
  <2>3. p[k + 1] = RoundDown(b, p[k])
    BY <1>6
  <2>4. (k + 1) - 1 = k /\ k + 1 \in Nat /\ k + 1 > 0
    OBVIOUS
  <2>5. \/ p[k] = Gives(v)
        \/ p[k] = Fails(UnderOver) /\ v = 0
    BY <2>2
  <2>6. /\ (b = 10 => d = Pow(10, k) /\ e = Pow(10, k + 1))
        /\ (b = 2 => d = Pow(2, k))
    OBVIOUS
  <2> SUFFICES \/ p[k + 1] = Gives(w) /\ (b = 10 => m >= e) /\ (b = 2 => m >= d)
               \/ p[k + 1] = Fails(UnderOver) /\ w = 0
    BY <2>4, <2>6
  <2> HIDE DEF d, e, Is, S
  <2>7. e \in Nat /\ e >= 1 /\ v \div b = w
    BY <1>0, <2>1, DivDiv
  <2>8. v \in Nat /\ v * d <= m /\ m < v * d + d
    BY <2>1, Div
  <2>9. w \in Nat /\ w * e <= m /\ m < w * e + e
    BY <2>7, Div
  <2>10. v \div b \in Nat
    BY <1>0, <2>8, Div
  <2>11. v = 0 => w = 0
    BY <1>0, <2>7, <2>8
  <2> HIDE DEF v, w
  <2>12. CASE p[k] = Fails(UnderOver) /\ v = 0
    <3>1. p[k + 1] = Fails(UnderOver)
      BY <2>3, <2>12 DEF RoundDown, Round, Fails, UnderOver
    <3> QED BY <2>11, <2>12, <3>1
  <2>13. CASE p[k] = Gives(v)
    <3>0. p[k].err = "SUCCESS" /\ p[k].v = v
      BY <2>13 DEF Gives
    <3>1. CASE b = 10 /\ v >= 10
      <4>1. 10 * d <= v * d
        BY <2>1, <2>8, <3>1, TimesOrder
      <4>2. m >= e
        BY <2>1, <2>8, <3>1, <4>1
      <4>3. p[k + 1] = Gives(w)
        BY <2>3, <2>7, <3>0, <3>1 DEF RoundDown, Round
      <4> QED BY <3>1, <4>2, <4>3
    <3>2. CASE b = 10 /\ ~(v >= 10)
      <4>1. p[k + 1] = Fails(UnderOver)
        BY <2>3, <3>0, <3>2 DEF RoundDown, Round
      <4>2. w = 0
        BY <2>7, <2>8, <3>2
      <4> QED BY <4>1, <4>2
    <3>3. CASE b = 2 /\ v # 0
      <4>1. 1 * d <= v * d
        BY <2>1, <2>8, <3>3, TimesOrder
      <4>2. m >= d
        BY <2>1, <2>8, <4>1
      <4>3. p[k + 1] = Gives(w)
        BY <2>3, <2>7, <3>0, <3>3 DEF RoundDown, Round
      <4> QED BY <3>3, <4>2, <4>3
    <3>4. CASE b = 2 /\ v = 0
      <4>1. p[k + 1] = Fails(UnderOver)
        BY <2>3, <3>0, <3>4 DEF RoundDown, Round
      <4> QED BY <2>11, <3>4, <4>1
    <3> QED BY <3>1, <3>2, <3>3, <3>4
  <2> QED BY <2>5, <2>12, <2>13
<1>9. Nat \subseteq S
  <2> HIDE DEF Is
  <2> QED BY <1>7, <1>8, SetInduction
<1> QED BY <1>5, <1>9

-----------------------------------------------------------------------------
(* Exponentiation                                                           *)

\* Beyond this exponent no number but 0 fits.
LEMMA Enough ==
  ASSUME NEW b \in {2, 10}
  PROVE  /\ EnoughExp(b) \in Nat /\ EnoughExp(b) >= 1
         /\ \A n \in Nat : n >= EnoughExp(b) => Pow(b, n) \in Nat /\ Pow(b, n) > UINT_MAX
<1>0. W \in Nat /\ W \div 3 \in Nat /\ 3 * (W \div 3) + 3 >= W
  BY WidthAssumption
<1>1. UINT_MAX \in Nat /\ Pow(2, W) = UINT_MAX + 1 /\ Pow(2, W) \in Nat
  <2>1. Pow(2, W) \in Nat
    BY <1>0, PowStep
  <2>2. UINT_MAX \in Nat
    BY Limits
  <2> QED BY <2>1, <2>2 DEF UINT_MAX
<1>2. \A n \in Nat : n >= W => Pow(2, n) \in Nat /\ Pow(2, n) > UINT_MAX
  <2> SUFFICES ASSUME NEW n \in Nat, n >= W PROVE Pow(2, n) \in Nat /\ Pow(2, n) > UINT_MAX
    OBVIOUS
  <2>1. W \in 0..n
    BY <1>0
  <2>2. Pow(2, W) <= Pow(2, n) /\ Pow(2, n) \in Nat
    BY <2>1, PowGrows, PowStep
  <2> QED BY <1>1, <2>2
<1>3. \A n \in Nat : n >= (W \div 3) + 1 => Pow(10, n) \in Nat /\ Pow(10, n) > UINT_MAX
  <2> SUFFICES ASSUME NEW n \in Nat, n >= (W \div 3) + 1
               PROVE  Pow(10, n) \in Nat /\ Pow(10, n) > UINT_MAX
    OBVIOUS
  <2>1. 3 * n \in Nat /\ 3 * n >= W
    BY <1>0
  <2>2. Pow(2, 3 * n) \in Nat /\ Pow(2, 3 * n) > UINT_MAX
    BY <1>2, <2>1
  <2>3. Pow(2, 3 * n) <= Pow(10, n) /\ Pow(10, n) \in Nat
    BY TenOverEight, PowStep
  <2> QED BY <1>1, <2>2, <2>3
<1>4. CASE b = 10
  BY <1>0, <1>3, <1>4 DEF EnoughExp
<1>5. CASE b = 2
  BY <1>0, <1>2, <1>5 DEF EnoughExp
<1> QED BY <1>4, <1>5

\* Exponentitate10() and Exponentitate2() give the scaled number or an error, as
\* the exponents the reference is capped at do.
LEMMA ExpIs ==
  ASSUME NEW b \in {2, 10}, NEW m \in Nat, m <= UINT_MAX, NEW e \in Int,
         NEW u, u = Scaled(m, b, Capped(b, e)), NEW r, r = Exponentitate(b, m, e)
  PROVE  /\ u \in Nat
         /\ \/ r = Gives(u) /\ u <= UINT_MAX
            \/ r = Fails(UnderOver) /\ (u > UINT_MAX \/ u = 0)
<1> DEFINE E == EnoughExp(b)
<1>0. /\ UINT_MAX \in Nat /\ b \in Nat /\ b >= 1 /\ E \in Nat /\ E >= 1
      /\ \A n \in Nat : n >= E => Pow(b, n) \in Nat /\ Pow(b, n) > UINT_MAX
  BY Limits, Enough
<1>1. /\ b = 10 /\ m = 0 => r = Gives(0)
      /\ ~(b = 10 /\ m = 0) /\ e >= 0 => r = Up(b, m, e)
      /\ ~(b = 10 /\ m = 0) /\ ~(e >= 0) => r = Down(b, m, -e)
  BY DEF Exponentitate, Exponentitate10, Exponentitate2
<1>2. CASE e >= 0 /\ e <= E
  <2> DEFINE d == Pow(b, e)
  <2>1. u = m * d
    BY <1>0, <1>2 DEF Scaled, Capped
  <2>2. e \in Nat
    BY <1>2
  <2>3. d \in Nat
    BY <1>0, <2>2, PowStep
  <2>4. IF m * d <= UINT_MAX THEN Up(b, m, e) = Gives(m * d) ELSE Up(b, m, e) = Fails(UnderOver)
    BY <2>2, UpIs
  <2> HIDE DEF d
  <2>5. m * d \in Nat /\ (m = 0 => m * d = 0)
    BY <2>3
  <2> QED BY <1>0, <1>1, <1>2, <2>1, <2>4, <2>5
<1>3. CASE e > E
  <2>1. e \in Nat /\ E >= E /\ e >= E /\ e >= 0
    BY <1>0, <1>3
  <2>2. Capped(b, e) = E
    BY <1>3 DEF Capped
  <2> DEFINE d == Pow(b, e)
             c == Pow(b, E)
  <2>3. d \in Nat /\ d > UINT_MAX /\ c \in Nat /\ c > UINT_MAX
    BY <1>0, <2>1
  <2>4. u = m * c
    BY <1>0, <2>2 DEF Scaled
  <2>5. IF m * d <= UINT_MAX THEN Up(b, m, e) = Gives(m * d) ELSE Up(b, m, e) = Fails(UnderOver)
    BY <2>1, UpIs
  <2> HIDE DEF d, c, E
  <2>6. m * d \in Nat /\ m * c \in Nat /\ (m = 0 => m * d = 0 /\ m * c = 0)
        /\ (m >= 1 => m * d >= d /\ m * c >= c)
    BY <2>3
  <2>7. CASE m = 0
    BY <1>0, <1>1, <2>1, <2>4, <2>5, <2>6, <2>7
  <2>8. CASE m >= 1
    <3>1. ~(m * d <= UINT_MAX) /\ m * c > UINT_MAX
      BY <1>0, <2>3, <2>6, <2>8
    <3>2. r = Fails(UnderOver)
      BY <1>1, <2>1, <2>5, <2>8, <3>1
    <3> QED BY <2>4, <2>6, <3>1, <3>2
  <2> QED BY <2>7, <2>8
<1>4. CASE e < 0 /\ e >= -E
  <2> DEFINE k == -e
             d == Pow(b, k)
  <2>1. k \in Nat /\ ~(e >= 0)
    BY <1>4
  <2>2. d \in Nat /\ d >= 1
    BY <1>0, <2>1, PowPositive
  <2>3. m \div d \in Nat /\ m \div d <= m /\ (m = 0 => m \div d = 0)
    BY <2>2, Div
  <2>4. Scaled(m, b, e) = Signed(m, m \div d)
    BY <1>4 DEF Scaled, Magnitude
  <2>5. Capped(b, e) = e
    BY <1>0, <1>4 DEF Capped
  <2>6. u = m \div d
    BY <2>3, <2>4, <2>5 DEF Signed
  <2>7. CASE b = 10 /\ m = 0
    BY <1>0, <1>1, <2>3, <2>6, <2>7
  <2>8. CASE ~(b = 10 /\ m = 0)
    <3>1. b = 10 => m >= 1
      BY <2>8
    <3>2. \/ Down(b, m, k) = Gives(m \div d)
          \/ Down(b, m, k) = Fails(UnderOver) /\ m \div d = 0
      BY <2>1, <3>1, DownIs
    <3>3. r = Down(b, m, k)
      BY <1>1, <2>1, <2>8
    <3> HIDE DEF d, k
    <3> QED BY <1>0, <2>3, <2>6, <3>2, <3>3
  <2> QED BY <2>7, <2>8
<1>5. CASE e < -E
  <2> DEFINE k == -e
             c == Pow(b, E)
  <2>1. k \in Nat /\ ~(e >= 0) /\ k >= E /\ k - 1 >= E /\ k - 1 \in Nat /\ k > 0 /\ E >= E
    BY <1>0, <1>5
  <2>2. c \in Nat /\ c > UINT_MAX /\ c >= 1
    BY <1>0, <2>1
  <2>3. Capped(b, e) = -E /\ ~(-E >= 0) /\ -(-E) = E
    BY <1>0, <1>5 DEF Capped
  <2>4. m \div c = 0
    <3>1. 0 * c <= m /\ m < 0 * c + c
      BY <1>0, <2>2
    <3> HIDE DEF c
    <3> QED BY <2>2, <3>1, DivUnique
  <2>5. u = 0
    BY <2>3, <2>4 DEF Scaled, Signed, Magnitude
  <2>6. CASE b = 10 /\ m = 0
    BY <1>0, <1>1, <2>5, <2>6
  <2>7. CASE ~(b = 10 /\ m = 0)
    <3>1. b = 10 => m >= 1
      BY <2>7
    <3>2. \/ (b = 10 => m >= Pow(10, k)) /\ (b = 2 => m >= Pow(2, k - 1))
          \/ Down(b, m, k) = Fails(UnderOver)
      BY <2>1, <3>1, DownIs
    <3>3. Pow(b, k) > UINT_MAX /\ Pow(b, k - 1) > UINT_MAX /\ Pow(b, k) \in Nat
          /\ Pow(b, k - 1) \in Nat
      BY <1>0, <2>1
    <3>4. Down(b, m, k) = Fails(UnderOver)
      BY <1>0, <3>2, <3>3
    <3> QED BY <1>1, <2>1, <2>5, <2>7, <3>4
  <2> QED BY <2>6, <2>7
<1> QED BY <1>0, <1>2, <1>3, <1>4, <1>5

\* A negative number is scaled as its magnitude is.
LEMMA ScaledNegative ==
  ASSUME NEW b \in {2, 10}, NEW n \in Int, n <= 0, NEW e \in Int
  PROVE  Scaled(n, b, e) = -Scaled(-n, b, e) /\ Scaled(-n, b, e) \in Int
<1>1. -n \in Nat
  OBVIOUS
<1>2. CASE e >= 0
  <2>1. Pow(b, e) \in Nat
    BY <1>2, PowStep
  <2>2. n * Pow(b, e) = -((-n) * Pow(b, e)) /\ (-n) * Pow(b, e) \in Int
    BY <1>1, <2>1
  <2> QED BY <1>2, <2>2 DEF Scaled
<1>3. CASE ~(e >= 0)
  <2> DEFINE d == Pow(b, -e)
  <2>1. -e \in Nat
    BY <1>3
  <2>2. d \in Nat /\ d >= 1
    BY <2>1, PowPositive
  <2>3. (-n) \div d \in Nat /\ (n = 0 => (-n) \div d = 0)
    BY <1>1, <2>2, Div
  <2>4. Magnitude(n) = -n /\ Magnitude(-n) = -n
    BY DEF Magnitude
  <2>5. Scaled(n, b, e) = Signed(n, (-n) \div d) /\ Scaled(-n, b, e) = Signed(-n, (-n) \div d)
    BY <1>3, <2>4 DEF Scaled
  <2> HIDE DEF d
  <2> QED BY <2>3, <2>5 DEF Signed
<1> QED BY <1>2, <1>3

\* ExponentiateNN() gives the scaled signed number, if int64_t has it.
LEMMA NNIs ==
  ASSUME NEW b \in {2, 10}, NEW n \in INT_MIN..INT_MAX, NEW e \in Int,
         NEW u, u = Scaled(n, b, Capped(b, e)), NEW r, r = ExponentiateNN(b, n, e)
  PROVE  /\ u \in Int
         /\ \/ r = Gives(u) /\ u \in INT_MIN..INT_MAX
            \/ r = Fails(UnderOver) /\ (u \notin INT_MIN..INT_MAX \/ u = 0)
<1> DEFINE m == Magnitude(n)
           w == Scaled(m, b, Capped(b, e))
           x == Exponentitate(b, m, e)
<1>0. /\ SignBit \in Nat /\ SignBit >= 2
      /\ INT_MAX = SignBit - 1 /\ INT_MIN = -SignBit /\ UINT_MAX = 2 * SignBit - 1
  BY Limits
<1>1. m \in Nat /\ m <= UINT_MAX /\ n \in Int
  BY <1>0 DEF Magnitude
<1>2. /\ w \in Nat
      /\ \/ x = Gives(w) /\ w <= UINT_MAX
         \/ x = Fails(UnderOver) /\ (w > UINT_MAX \/ w = 0)
  <2> HIDE DEF m
  <2> QED BY <1>1, ExpIs
<1>3. r = FitsSigned(n, x)
  BY DEF ExponentiateNN
<1>4. Capped(b, e) \in Int
  BY Enough DEF Capped
<1>5. u = IF n > 0 THEN w ELSE -w
  <2>1. CASE n > 0
    BY <2>1 DEF Magnitude
  <2>2. CASE ~(n > 0)
    <3>1. n <= 0 /\ m = -n
      BY <1>1, <2>2 DEF Magnitude
    <3> HIDE DEF m
    <3>2. u = -Scaled(-n, b, Capped(b, e))
      BY <1>1, <1>4, <3>1, ScaledNegative
    <3> QED BY <2>2, <3>1, <3>2
  <2> QED BY <2>1, <2>2
<1> HIDE DEF m, w, x
<1>6. CASE x = Gives(w) /\ w <= UINT_MAX
  <2>1. x.err = "SUCCESS" /\ x.v = w /\ [x EXCEPT !.v = Signed(n, @)] = Gives(Signed(n, w))
    BY <1>6 DEF Gives
  <2>2. Signed(n, w) = u
    BY <1>5 DEF Signed
  <2>3. CASE n > 0
    BY <1>0, <1>1, <1>2, <1>3, <1>5, <2>1, <2>2, <2>3 DEF FitsSigned
  <2>4. CASE ~(n > 0)
    BY <1>0, <1>1, <1>2, <1>3, <1>5, <2>1, <2>2, <2>4 DEF FitsSigned
  <2> QED BY <2>3, <2>4
<1>7. CASE x = Fails(UnderOver) /\ (w > UINT_MAX \/ w = 0)
  <2>1. x.err # "SUCCESS"
    BY <1>7 DEF Fails, UnderOver
  <2>2. [x EXCEPT !.v = Signed(n, @)] = Fails(UnderOver)
    BY <1>7 DEF Fails, Signed
  <2>3. r = Fails(UnderOver)
    BY <1>3, <2>1, <2>2 DEF FitsSigned
  <2>4. u \in Int /\ (u \notin INT_MIN..INT_MAX \/ u = 0)
    BY <1>0, <1>2, <1>5, <1>7
  <2> QED BY <2>3, <2>4
<1> QED BY <1>2, <1>6, <1>7

-----------------------------------------------------------------------------
(* Big numbers                                                              *)

Bytes == Seq(0..(BYTE - 1))

\* The function of a recursion over the bytes of a big number.
FollowsTo(n, f, S, a, g) ==
  f \in [0..n -> S] /\ f = [i \in 0..n |-> IF i = 0 THEN a ELSE g[<<i, f[i - 1]>>]]

\* The same for a function on the places of a sequence.
LEMMA BytesRecursion ==
  ASSUME NEW S, NEW a \in S, NEW n \in Nat, NEW g \in Steps(S)
  PROVE  \E f : FollowsTo(n, f, S, a, g)
<1>1. PICK h : /\ Follows(h, S, a, g)
               /\ h = [i \in Nat |-> IF i = 0 THEN a ELSE g[<<i, h[i - 1]>>]]
  BY Recursive
<1>2. h \in [Nat -> S]
  BY <1>1 DEF Follows
<1> DEFINE f == [i \in 0..n |-> h[i]]
<1>3. f \in [0..n -> S]
  BY <1>2
<1>4. ASSUME NEW i \in 0..n PROVE f[i] = IF i = 0 THEN a ELSE g[<<i, f[i - 1]>>]
  <2>1. i \in Nat /\ f[i] = h[i] /\ (i # 0 => i - 1 \in 0..n /\ f[i - 1] = h[i - 1])
    OBVIOUS
  <2>2. h[i] = IF i = 0 THEN a ELSE g[<<i, h[i - 1]>>]
    BY <1>1, <2>1
  <2> HIDE DEF f
  <2> QED BY <2>1, <2>2
<1> DEFINE k == [i \in 0..n |-> IF i = 0 THEN a ELSE g[<<i, f[i - 1]>>]]
<1> HIDE DEF f
<1>5. f = k
  BY <1>3, <1>4
<1> QED BY <1>3, <1>5 DEF FollowsTo

\* Partial values, which Digits and ConvertBigNumToDouble() have in common.
Partial(s) == CHOOSE f : f = [i \in 0..Len(s) |-> IF i = 0 THEN 0 ELSE f[i - 1] * BYTE + s[i]]

\* The number that the first bytes of a big number make.
LEMMA PartialIs ==
  ASSUME NEW s \in Bytes
  PROVE  /\ Partial(s) \in [0..Len(s) -> Nat] /\ Partial(s)[0] = 0
         /\ \A i \in 1..Len(s) : Partial(s)[i] = Partial(s)[i - 1] * BYTE + s[i]
         /\ Digits(s) = Partial(s)[Len(s)] /\ ConvertBigNumToDouble(s) = Digits(s)
         /\ Digits(s) \in Nat
<1> DEFINE n == Len(s)
           D(f) == [i \in 0..n |-> IF i = 0 THEN 0 ELSE f[i - 1] * BYTE + s[i]]
           g == [x \in Nat \X Nat |-> IF x[1] \in 1..n THEN x[2] * BYTE + s[x[1]] ELSE 0]
           p == Partial(s)
<1>0. n \in Nat /\ BYTE \in Nat /\ \A i \in 1..n : s[i] \in Nat
  BY Limits DEF Bytes
<1>1. g \in Steps(Nat)
  <2>1. ASSUME NEW x \in Nat, NEW y \in Nat
        PROVE  (IF x \in 1..n THEN y * BYTE + s[x] ELSE 0) \in Nat
    <3> DEFINE z == y * BYTE
    <3>1. z \in Nat
      BY <1>0
    <3> HIDE DEF z
    <3>2. CASE x \in 1..n
      <4>1. s[x] \in Nat
        BY <1>0, <3>2
      <4>2. z + s[x] \in Nat
        BY <3>1, <4>1
      <4> QED BY <3>2, <4>2 DEF z
    <3> QED BY <3>2
  <2> QED BY <2>1 DEF Steps
<1>2. PICK f : f \in [0..n -> Nat] /\ f = [i \in 0..n |-> IF i = 0 THEN 0 ELSE g[<<i, f[i - 1]>>]]
  <2> HIDE DEF g, n
  <2>1. PICK f : FollowsTo(n, f, Nat, 0, g)
    BY <1>0, <1>1, BytesRecursion
  <2> QED BY <2>1 DEF FollowsTo
<1>3. f = D(f)
  <2>0. f \in [0..n -> Nat]
    BY <1>2
  <2>1. ASSUME NEW i \in 0..n PROVE f[i] = IF i = 0 THEN 0 ELSE f[i - 1] * BYTE + s[i]
    <3>1. CASE i # 0
      <4>1. i \in 1..n /\ i \in Nat /\ i - 1 \in 0..n
        BY <1>0, <3>1
      <4>2. f[i - 1] \in Nat
        BY <2>0, <4>1
      <4>3. g[<<i, f[i - 1]>>] = f[i - 1] * BYTE + s[i]
        BY <4>1, <4>2
      <4> HIDE DEF g
      <4> QED BY <1>2, <3>1, <4>3
    <3> HIDE DEF g
    <3> QED BY <1>2, <3>1
  <2> HIDE DEF n
  <2> QED BY <2>0, <2>1
<1>4. p = D(p)
  <2>1. p = CHOOSE h : h = D(h)
    BY DEF Partial
  <2> HIDE DEF D, p
  <2> QED BY <1>3, <2>1
<1>5. Digits(s) = p[n] /\ ConvertBigNumToDouble(s) = p[n]
  BY DEF Digits, ConvertBigNumToDouble, Partial
<1> HIDE DEF p
<1>6. p[0] = 0 /\ \A i \in 1..n : p[i] = p[i - 1] * BYTE + s[i]
  <2>1. 0 \in 0..n
    BY <1>0
  <2>2. \A i \in 1..n : i \in 0..n /\ i # 0
    BY <1>0
  <2> QED BY <1>4, <2>1, <2>2
<1> DEFINE T == {i \in Nat : i <= n => p[i] \in Nat}
<1>7. Nat \subseteq T
  <2>1. 0 \in T
    BY <1>6
  <2>2. ASSUME NEW i \in Nat, i \in T PROVE i + 1 \in T
    <3> SUFFICES ASSUME i + 1 <= n PROVE p[i + 1] \in Nat
      OBVIOUS
    <3>1. i + 1 \in 1..n /\ (i + 1) - 1 = i /\ i <= n
      BY <1>0
    <3>2. p[i + 1] = p[i] * BYTE + s[i + 1] /\ s[i + 1] \in Nat /\ p[i] \in Nat
      BY <1>0, <1>6, <2>2, <3>1
    <3> DEFINE z == p[i] * BYTE
    <3>3. z \in Nat
      BY <1>0, <3>2
    <3> HIDE DEF z
    <3>4. z + s[i + 1] \in Nat
      BY <3>2, <3>3
    <3> QED BY <3>2, <3>4 DEF z
  <2> HIDE DEF T
  <2> QED BY <2>1, <2>2, SetInduction
<1>8. p \in [0..n -> Nat]
  <2>1. p = [i \in 0..n |-> p[i]]
    BY <1>4
  <2>2. \A i \in 0..n : p[i] \in Nat
    BY <1>7
  <2> HIDE DEF n
  <2> QED BY <2>1, <2>2
<1>9. n \in 0..n
  BY <1>0
<1> QED BY <1>5, <1>6, <1>8, <1>9 DEF p

\* Multiples of a byte's range are where the limits end.
LEMMA Multiple ==
  ASSUME NEW max \in {INT_MAX, UINT_MAX}
  PROVE  /\ max \in Nat /\ max \div BYTE \in Nat
         /\ \A v \in Nat, x \in 0..(BYTE - 1) :
              v * BYTE + x \in Nat /\ (v > max \div BYTE <=> v * BYTE + x > max)
<1>0. /\ SignBit \in Nat /\ SignBit >= 2 /\ BYTE \in Nat /\ BYTE >= 2
      /\ INT_MAX = SignBit - 1 /\ UINT_MAX = 2 * SignBit - 1
  BY Limits
<1>1. PICK q \in Nat : SignBit = q * BYTE
  BY Limits
<1>2. \E p \in Nat : max = p * BYTE - 1 /\ p >= 1
  <2>1. q >= 1
    BY <1>0, <1>1
  <2>2. CASE max = INT_MAX
    BY <1>0, <1>1, <2>1, <2>2
  <2>3. CASE max = UINT_MAX
    <3>1. 2 * SignBit = (2 * q) * BYTE /\ 2 * q \in Nat /\ 2 * q >= 1
      BY <1>0, <1>1, <2>1
    <3> QED BY <1>0, <2>3, <3>1
  <2> QED BY <2>2, <2>3
<1>3. PICK p \in Nat : max = p * BYTE - 1 /\ p >= 1
  BY <1>2
<1> DEFINE B == BYTE
<1>4. B \in Nat /\ B >= 2
  BY <1>0
<1> HIDE DEF B
<1>5. (p - 1) * B = p * B - B /\ p * B \in Nat
  BY <1>3, <1>4
<1>6. max = p * B - 1
  BY <1>3 DEF B
<1>7. p - 1 \in Nat /\ p - 1 + 1 = p
  BY <1>3
<1>8. p * B >= 1
  <2>1. 1 * B <= p * B
    BY <1>3, <1>4, TimesOrder
  <2> QED BY <1>4, <1>5, <2>1
<1>9. max \in Nat
  BY <1>5, <1>6, <1>8
<1>10. max \div B = p - 1
  <2> DEFINE y == (p - 1) * B
  <2>1. y \in Nat /\ y + B = p * B
    BY <1>4, <1>5, <1>7
  <2> HIDE DEF y
  <2>2. y <= max /\ max < y + B
    BY <1>4, <1>5, <1>6, <2>1
  <2>3. (p - 1) * B <= max /\ max < (p - 1) * B + B
    BY <2>2 DEF y
  <2> QED BY <1>4, <1>7, <1>9, <2>3, DivUnique
<1>11. ASSUME NEW v \in Nat, NEW x \in 0..(B - 1)
       PROVE  v * B + x \in Nat /\ (v > max \div B <=> v * B + x > max)
  <2> DEFINE y == v * B
             z == p * B
  <2>1. y \in Nat /\ z \in Nat /\ x \in Nat /\ x <= B - 1
    BY <1>4, <1>5
  <2>2. CASE v > p - 1
    <3>1. p <= v
      BY <1>3, <2>2
    <3>2. z <= y
      BY <1>4, <3>1, TimesOrder
    <3>3. max = z - 1
      BY <1>6
    <3> HIDE DEF y, z
    <3>4. y + x \in Nat /\ y + x > max
      BY <2>1, <3>2, <3>3
    <3> QED BY <1>10, <2>2, <3>4 DEF y
  <2>3. CASE ~(v > p - 1)
    <3>1. v + 1 <= p /\ v + 1 \in Nat
      BY <1>3, <2>3
    <3>2. (v + 1) * B <= z
      BY <1>4, <3>1, TimesOrder
    <3>3. (v + 1) * B = y + B
      BY <1>4
    <3>4. max = z - 1
      BY <1>6
    <3> HIDE DEF y, z
    <3>5. y + x \in Nat /\ ~(y + x > max)
      BY <1>4, <2>1, <3>2, <3>3, <3>4
    <3> QED BY <1>10, <2>3, <3>5 DEF y
  <2> QED BY <2>2, <2>3
<1>12. max \div B \in Nat
  BY <1>7, <1>10
<1> QED BY <1>9, <1>11, <1>12 DEF B

\* ConvertBigNumToUnsigned() gives the number of the bytes, or an error if it is
\* beyond the limit, however many bytes and leading zeroes there are.
LEMMA UnsignedIs ==
  ASSUME NEW s \in Bytes, NEW max \in {INT_MAX, UINT_MAX}
  PROVE  ConvertBigNumToUnsigned(s, max)
           = IF Digits(s) <= max THEN Gives(Digits(s)) ELSE Fails(UnderOver)
<1> DEFINE n == Len(s)
           D(f) == [i \in 0..n |-> IF i = 0 THEN Gives(0) ELSE Shifted(f[i - 1], s[i], max)]
           g == [x \in Nat \X Results |->
                   IF x[1] \in 1..n THEN Shifted(x[2], s[x[1]], max) ELSE Gives(0)]
           h == CHOOSE f : f = D(f)
<1>0. n \in Nat /\ \A i \in 1..n : s[i] \in 0..(BYTE - 1)
  <2>1. s \in Seq(0..(BYTE - 1))
    BY DEF Bytes
  <2> DEFINE X == 0..(BYTE - 1)
  <2> HIDE DEF X
  <2>2. s \in Seq(X)
    BY <2>1 DEF X
  <2>3. n \in Nat /\ \A i \in 1..n : s[i] \in X
    BY <2>2, ElementOfSeq
  <2> QED BY <2>3 DEF X
<1>a. /\ max \in Nat
      /\ \A v \in Nat, x \in 0..(BYTE - 1) :
              v * BYTE + x \in Nat /\ (v > max \div BYTE <=> v * BYTE + x > max)
  BY Multiple
<1>b. Gives(0) \in Results
  BY DEF Gives, Results
<1>1. g \in Steps(Results)
  <2>1. ASSUME NEW r \in Results, NEW b \in 0..(BYTE - 1)
        PROVE  Shifted(r, b, max) \in Results
    <3>1. r.v \in Nat
      BY DEF Results
    <3>2. r.v * BYTE + b \in Nat
      BY <1>a, <3>1
    <3> QED BY <3>2 DEF Shifted, Results, Gives, Fails, UnderOver
  <2>2. \A x \in Nat, r \in Results :
          (IF x \in 1..n THEN Shifted(r, s[x], max) ELSE Gives(0)) \in Results
    BY <1>0, <1>b, <2>1
  <2> HIDE DEF n
  <2> QED BY <2>2 DEF Steps
<1>2. PICK f : f \in [0..n -> Results]
               /\ f = [i \in 0..n |-> IF i = 0 THEN Gives(0) ELSE g[<<i, f[i - 1]>>]]
  <2> HIDE DEF g, n
  <2>1. PICK f : FollowsTo(n, f, Results, Gives(0), g)
    BY <1>0, <1>1, <1>b, BytesRecursion
  <2> QED BY <2>1 DEF FollowsTo
<1>3. f = D(f)
  <2>0. f \in [0..n -> Results]
    BY <1>2
  <2>1. ASSUME NEW i \in 0..n
        PROVE  f[i] = IF i = 0 THEN Gives(0) ELSE Shifted(f[i - 1], s[i], max)
    <3>1. CASE i # 0
      <4>1. i \in 1..n /\ i \in Nat /\ i - 1 \in 0..n
        BY <1>0, <3>1
      <4>2. f[i - 1] \in Results
        BY <2>0, <4>1
      <4>3. g[<<i, f[i - 1]>>] = Shifted(f[i - 1], s[i], max)
        BY <4>1, <4>2
      <4> HIDE DEF g
      <4> QED BY <1>2, <3>1, <4>3
    <3> HIDE DEF g
    <3> QED BY <1>2, <3>1
  <2> HIDE DEF n
  <2> QED BY <2>0, <2>1
<1>4. h = D(h)
  <2> HIDE DEF D
  <2> QED BY <1>3
<1>5. ConvertBigNumToUnsigned(s, max) = h[n]
  BY DEF ConvertBigNumToUnsigned
<1> HIDE DEF h
<1>6. h[0] = Gives(0) /\ \A i \in 1..n : h[i] = Shifted(h[i - 1], s[i], max)
  <2>1. 0 \in 0..n
    BY <1>0
  <2>2. \A i \in 1..n : i \in 0..n /\ i # 0
    BY <1>0
  <2> QED BY <1>4, <2>1, <2>2
<1> DEFINE p == Partial(s)
<1>7. /\ p \in [0..n -> Nat] /\ p[0] = 0
      /\ \A i \in 1..n : p[i] = p[i - 1] * BYTE + s[i]
      /\ Digits(s) = p[n]
  BY PartialIs
<1> HIDE DEF p
<1> DEFINE Is(i) == IF p[i] <= max THEN h[i] = Gives(p[i]) ELSE h[i] = Fails(UnderOver)
           T == {i \in Nat : i <= n => Is(i)}
<1>8. Nat \subseteq T
  <2>1. 0 \in T
    BY <1>6, <1>7, <1>a
  <2>2. ASSUME NEW i \in Nat, i \in T PROVE i + 1 \in T
    <3> SUFFICES ASSUME i + 1 <= n PROVE Is(i + 1)
      OBVIOUS
    <3>1. i + 1 \in 1..n /\ (i + 1) - 1 = i /\ i <= n /\ i \in 0..n
      BY <1>0
    <3>2. Is(i)
      BY <2>2, <3>1
    <3>3. p[i + 1] = p[i] * BYTE + s[i + 1] /\ h[i + 1] = Shifted(h[i], s[i + 1], max)
      BY <1>6, <1>7, <3>1
    <3> DEFINE v == p[i]
               x == s[i + 1]
               w == v * BYTE + x
    <3>4. v \in Nat /\ x \in 0..(BYTE - 1)
      BY <1>0, <1>7, <3>1
    <3>5. w \in Nat /\ (v > max \div BYTE <=> w > max)
      BY <1>a, <3>4
    <3>6. w >= v
      <4>1. BYTE \in Nat /\ BYTE >= 2
        BY Limits
      <4> DEFINE y == v * BYTE
      <4>2. y \in Nat /\ y >= v
        BY <3>4, <4>1
      <4>3. w = y + x /\ x \in Nat
        BY <3>4
      <4> HIDE DEF y, w, x, v
      <4> QED BY <3>4, <4>2, <4>3
    <3>7. IF v <= max THEN h[i] = Gives(v) ELSE h[i] = Fails(UnderOver)
      BY <3>2
    <3>8. p[i + 1] = w /\ h[i + 1] = Shifted(h[i], x, max)
         /\ (h[i] = Gives(v) => Shifted(h[i], x, max) = IF v > max \div BYTE THEN Fails(UnderOver)
                                                        ELSE Gives(w))
      BY <3>3 DEF Shifted, Gives
    <3>9. h[i] = Fails(UnderOver) => Shifted(h[i], x, max) = Fails(UnderOver)
      BY DEF Shifted, Fails, UnderOver
    <3> HIDE DEF v, w, x
    <3>10. IF w <= max THEN h[i + 1] = Gives(w) ELSE h[i + 1] = Fails(UnderOver)
      <4>1. max \in Nat /\ v \in Nat
        BY <1>a, <3>4
      <4>2. CASE v <= max
        BY <3>5, <3>7, <3>8, <4>1, <4>2
      <4>3. CASE ~(v <= max)
        <5>1. ~(w <= max)
          BY ONLY <3>5, <3>6, <4>1, <4>3
        <5> QED BY ONLY <3>7, <3>8, <3>9, <4>3, <5>1
      <4> QED BY <4>2, <4>3
    <3> QED BY <3>8, <3>10
  <2> HIDE DEF T
  <2> QED BY <2>1, <2>2, SetInduction
<1>9. Is(n)
  BY <1>0, <1>8
<1> QED BY <1>5, <1>7, <1>9

-----------------------------------------------------------------------------
(* What is written                                                          *)

TagNumber(fn) ==
  CASE fn = "AddTDateEpoch" -> 1
    [] fn = "AddTDaysEpoch" -> 100
    [] fn = "AddTBinaryUUID" -> 37
    [] fn = "AddTPositiveBignum" -> 2
    [] fn = "AddTNegativeBignum" -> 3
    [] fn = "AddTURI" -> 32
    [] fn = "AddTB64Text" -> 34
    [] fn = "AddTB64URLText" -> 33
    [] fn = "AddTRegex" -> 35
    [] fn = "AddTMIMEData" -> 257
    [] fn = "AddTDateString" -> 0
    [] fn = "AddTDaysString" -> 1004
    [] fn \in {"AddTDecimalFraction", "AddTDecimalFractionBigNum"} -> 4
    [] fn \in {"AddTBigFloat", "AddTBigFloatBigNum"} -> 5

IntAdders  == {"AddInt64", "AddTDateEpoch", "AddTDaysEpoch"}
ByteAdders == {"AddBytes", "AddTBinaryUUID", "AddTPositiveBignum", "AddTNegativeBignum", "AddTMIMEData"}
TextAdders == {"AddText", "AddTURI", "AddTB64Text", "AddTB64URLText", "AddTRegex", "AddTDateString",
               "AddTDaysString"}
OneToken   == IntAdders \cup ByteAdders \cup TextAdders \cup {"AddDouble", "AddNaN", "AddSimple"}
FractionAdders == Fractions \cup BigFractions

KindOf(a) ==
  CASE a.fn \in IntAdders -> "int"
    [] a.fn \in ByteAdders -> "bytes"
    [] a.fn \in TextAdders -> "text"
    [] a.fn = "AddDouble" -> "float"
    [] a.fn = "AddNaN" -> "nan"
    [] a.fn = "AddSimple" -> a.arg
    [] a.fn \in FractionAdders -> "array"

ValueOf(a) == IF a.fn \in FractionAdders THEN 2 ELSE IF a.fn \in {"AddNaN", "AddSimple"} THEN 0 ELSE a.arg

ExtraTags(a) == IF a.extra THEN <<UnknownTag>> ELSE <<>>
TagsOf(a)    == IF a.tag THEN <<TagNumber(a.fn)>> \o ExtraTags(a) ELSE ExtraTags(a)

FirstToken(a, l) == [tags |-> TagsOf(a), kind |-> KindOf(a), val |-> ValueOf(a), lev |-> 1, label |-> l]

InnerToken(tags, kind, val) == [tags |-> tags, kind |-> kind, val |-> val, lev |-> 2, label |-> "none"]

MantissaToken(a) ==
  IF a.fn \in Fractions THEN InnerToken(<<>>, "int", a.arg.mant)
  ELSE InnerToken(IF a.arg.neg THEN <<3>> ELSE <<2>>, "bytes", a.arg.mant)

IsAdd(a) ==
  /\ a.fn \in StringAdders \cup {"AddNaN"} \/ (a.fn \in NumberAdders /\ a.arg \in ArgumentsOf(a.fn))
  /\ a.tag \in BOOLEAN /\ a.extra \in BOOLEAN /\ (a.fn \in Untagged => ~a.tag)

\* A sequence that begins with a token, as a function.
Begins(s, n, tags, tok) ==
  /\ s = [i \in 1..n |-> s[i]]
  /\ s[1] = [tags |-> tags, kind |-> tok.kind, val |-> tok.val, lev |-> 1, label |-> "none"]

\* Behind its first element it is another sequence.
SameRest(u, s, n) == \A i \in 2..n : u[i] = s[i]

\* A tag goes to the first token only.
LEMMA AddTagIs ==
  ASSUME NEW s, NEW n \in Nat, n >= 1, NEW tags, NEW tok, Begins(s, n, tags, tok), NEW t
  PROVE  /\ Begins(AddTag(t, s), n, Append(tags, t), tok)
         /\ SameRest(AddTag(t, s), s, n)
<1> DEFINE x == AddTag(t, s)
           u == [s[1] EXCEPT !.tags = Append(@, t)]
<1>1. x = [s EXCEPT ![1] = u]
  BY DEF AddTag
<1>2. DOMAIN s = 1..n /\ 1 \in 1..n
  <2>1. DOMAIN s = DOMAIN [i \in 1..n |-> s[i]]
    BY DEF Begins
  <2> QED BY <2>1
<1>3. u = [tags |-> Append(tags, t), kind |-> tok.kind, val |-> tok.val, lev |-> 1, label |-> "none"]
  <2> DEFINE r == [tags |-> tags, kind |-> tok.kind, val |-> tok.val, lev |-> 1, label |-> "none"]
  <2>1. s[1] = r
    BY DEF Begins
  <2>2. [r EXCEPT !.tags = Append(@, t)]
          = [tags |-> Append(tags, t), kind |-> tok.kind, val |-> tok.val, lev |-> 1, label |-> "none"]
    OBVIOUS
  <2> HIDE DEF r
  <2> QED BY <2>1, <2>2
<1> HIDE DEF x, u
<1>4. x = [i \in 1..n |-> IF i = 1 THEN u ELSE s[i]]
  BY <1>1, <1>2
<1>5. x[1] = u /\ \A i \in 2..n : x[i] = s[i]
  BY <1>2, <1>4
<1>6. x = [i \in 1..n |-> x[i]]
  BY <1>4
<1> QED BY <1>3, <1>5, <1>6 DEF Begins, SameRest, x

\* The same with a label.
Labelled(w, s, n, tags, tok, l) ==
  /\ w = [i \in 1..n |-> w[i]]
  /\ w[1] = [tags |-> tags, kind |-> tok.kind, val |-> tok.val, lev |-> 1, label |-> l]
  /\ \A i \in 2..n : w[i] = s[i]

\* A label changes nothing else.
LEMMA LabelledIs ==
  ASSUME NEW s, NEW n \in Nat, n >= 1, NEW tags, NEW tok, Begins(s, n, tags, tok), NEW l
  PROVE  Labelled([s EXCEPT ![1].label = l], s, n, tags, tok, l)
<1> DEFINE w == [s EXCEPT ![1].label = l]
           u == [s[1] EXCEPT !.label = l]
<1>1. w = [s EXCEPT ![1] = u]
  OBVIOUS
<1>2. DOMAIN s = 1..n /\ 1 \in 1..n
  <2>1. DOMAIN s = DOMAIN [i \in 1..n |-> s[i]]
    BY DEF Begins
  <2> QED BY <2>1
<1>3. u = [tags |-> tags, kind |-> tok.kind, val |-> tok.val, lev |-> 1, label |-> l]
  BY DEF Begins
<1> HIDE DEF w, u
<1>4. w = [i \in 1..n |-> IF i = 1 THEN u ELSE s[i]]
  BY <1>1, <1>2
<1>5. w[1] = u /\ \A i \in 2..n : w[i] = s[i]
  BY <1>2, <1>4
<1>6. w = [i \in 1..n |-> w[i]]
  BY <1>4
<1> QED BY <1>3, <1>5, <1>6 DEF w, Labelled

LEMMA TaggedIs ==
  ASSUME NEW s, NEW n \in Nat, n >= 1, NEW tok, Begins(s, n, <<>>, tok), NEW t, NEW asTag \in BOOLEAN
  PROVE  /\ Begins(Tagged(asTag, t, s), n, IF asTag THEN <<t>> ELSE <<>>, tok)
         /\ SameRest(Tagged(asTag, t, s), s, n)
<1> DEFINE e == <<>>
<1>1. Begins(s, n, e, tok)
  OBVIOUS
<1>2. Append(e, t) = <<t>>
  OBVIOUS
<1> HIDE DEF e
<1>3. Begins(AddTag(t, s), n, Append(e, t), tok) /\ SameRest(AddTag(t, s), s, n)
  BY <1>1, AddTagIs
<1>4. SameRest(s, s, n)
  BY DEF SameRest
<1>5. CASE asTag
  BY <1>2, <1>3, <1>5 DEF Tagged
<1>6. CASE ~asTag
  BY <1>1, <1>4, <1>6 DEF Tagged, e
<1> QED BY <1>5, <1>6

LEMMA OneIs ==
  ASSUME NEW kind, NEW val, NEW asTag \in BOOLEAN, NEW t
  PROVE  Begins(Tagged(asTag, t, <<Token(kind, val)>>), 1, IF asTag THEN <<t>> ELSE <<>>, Token(kind, val))
<1> DEFINE tok == Token(kind, val)
           s   == <<tok>>
<1>1. Begins(s, 1, <<>>, tok)
  <2>1. s = [i \in 1..1 |-> s[i]]
    OBVIOUS
  <2>2. s[1] = tok
    OBVIOUS
  <2>3. tok = [tags |-> <<>>, kind |-> tok.kind, val |-> tok.val, lev |-> 1, label |-> "none"]
    BY DEF Token
  <2> QED BY <2>1, <2>2, <2>3 DEF Begins
<1> HIDE DEF s, tok
<1>2. Begins(Tagged(asTag, t, s), 1, IF asTag THEN <<t>> ELSE <<>>, tok)
  BY <1>1, TaggedIs
<1> QED BY <1>2 DEF s, tok

TagIs(a) == IF a.tag THEN <<TagNumber(a.fn)>> ELSE <<>>

\* What the adders of a single token write.
LEMMA OneTokenIs ==
  ASSUME NEW a, IsAdd(a), a.fn \in OneToken
  PROVE  Begins(TokensOf(a), 1, TagIs(a), Token(KindOf(a), ValueOf(a)))
<1> DEFINE t == TagNumber(a.fn)
           k == KindOf(a)
           v == ValueOf(a)
<1>1. TokensOf(a) = Tagged(a.tag, t, <<Token(k, v)>>)
  <2>1. CASE a.fn \in IntAdders
    <3>1. k = "int" /\ v = a.arg
      BY <2>1 DEF KindOf, ValueOf, FractionAdders, Fractions, BigFractions, IntAdders, ByteAdders,
        TextAdders
    <3>2. CASE a.fn = "AddInt64"
      BY <3>1, <3>2 DEF TokensOf, IsAdd, Untagged, Tagged, AddInt64
    <3>3. CASE a.fn \in {"AddTDateEpoch", "AddTDaysEpoch"}
      BY <3>1, <3>3 DEF TokensOf, TagNumber, AddInt64, AddTDateEpoch, AddTDaysEpoch
    <3> QED BY <2>1, <3>2, <3>3 DEF IntAdders
  <2>2. CASE a.fn \in ByteAdders
    <3>1. k = "bytes" /\ v = a.arg
      BY <2>2 DEF KindOf, ValueOf, FractionAdders, Fractions, BigFractions, IntAdders, ByteAdders,
        TextAdders
    <3>2. CASE a.fn = "AddBytes"
      BY <3>1, <3>2 DEF TokensOf, IsAdd, Untagged, Tagged, AddBytes
    <3>3. CASE a.fn \in {"AddTBinaryUUID", "AddTPositiveBignum", "AddTNegativeBignum", "AddTMIMEData"}
      BY <3>1, <3>3 DEF TokensOf, TagNumber, AddBytes, AddTBinaryUUID, AddTPositiveBignum,
        AddTNegativeBignum, AddTMIMEData
    <3> QED BY <2>2, <3>2, <3>3 DEF ByteAdders
  <2>3. CASE a.fn \in TextAdders
    BY <2>3 DEF TokensOf, IsAdd, Untagged, Tagged, TagNumber, KindOf, ValueOf, FractionAdders,
      Fractions, BigFractions, TextAdders, ByteAdders, IntAdders, AddText, AddTURI, AddTB64Text,
      AddTB64URLText, AddTRegex, AddTDateString, AddTDaysString
  <2>4. CASE a.fn \in {"AddDouble", "AddNaN", "AddSimple"}
    BY <2>4 DEF TokensOf, IsAdd, Untagged, Tagged, TagNumber, KindOf, ValueOf, FractionAdders,
      Fractions, BigFractions, TextAdders, ByteAdders, IntAdders, AddSimple
  <2> QED BY <2>1, <2>2, <2>3, <2>4 DEF OneToken
<1>2. a.tag \in BOOLEAN
  BY DEF IsAdd
<1> HIDE DEF t, k, v
<1>3. Begins(Tagged(a.tag, t, <<Token(k, v)>>), 1, IF a.tag THEN <<t>> ELSE <<>>, Token(k, v))
  BY <1>2, OneIs
<1> QED BY <1>1, <1>3 DEF TagIs, t, k, v

\* The two items of a fraction.
Inner(a, s) == s[2] = InnerToken(<<>>, "int", a.arg.exp) /\ s[3] = MantissaToken(a)

\* The two elements of a fraction.
LEMMA ElementsAre ==
  /\ \A n : Element(AddInt64(n)) = InnerToken(<<>>, "int", n)
  /\ \A b : Element(AddTPositiveBignum(TRUE, b)) = InnerToken(<<2>>, "bytes", b)
  /\ \A b : Element(AddTNegativeBignum(TRUE, b)) = InnerToken(<<3>>, "bytes", b)
<1>1. ASSUME NEW n PROVE Element(AddInt64(n)) = InnerToken(<<>>, "int", n)
  BY DEF Element, AddInt64, InnerToken, Token
<1>2. ASSUME NEW b, NEW t
      PROVE  Element(Tagged(TRUE, t, AddBytes(b))) = InnerToken(<<t>>, "bytes", b)
  <2> DEFINE tok == Token("bytes", b)
             u   == Tagged(TRUE, t, <<tok>>)
             r   == [tags |-> <<t>>, kind |-> "bytes", val |-> b, lev |-> 1, label |-> "none"]
  <2>1. Begins(u, 1, <<t>>, tok)
    <3> HIDE DEF tok
    <3>1. Begins(Tagged(TRUE, t, <<Token("bytes", b)>>), 1, <<t>>, Token("bytes", b))
      BY OneIs
    <3> QED BY <3>1 DEF tok
  <2>2. tok.kind = "bytes" /\ tok.val = b
    BY DEF Token
  <2>3. u[1] = r
    <3> HIDE DEF u, tok
    <3> QED BY <2>1, <2>2 DEF Begins
  <2>4. [r EXCEPT !.lev = 2] = InnerToken(<<t>>, "bytes", b)
    BY DEF InnerToken
  <2>5. Element(u) = InnerToken(<<t>>, "bytes", b)
    <3> HIDE DEF u, r
    <3> QED BY <2>3, <2>4 DEF Element
  <2> QED BY <2>5 DEF AddBytes
<1> QED BY <1>1, <1>2 DEF AddTPositiveBignum, AddTNegativeBignum

\* Two more behind it.
Longer(z, tags, tok, x, y) == Begins(z, 3, tags, tok) /\ z[2] = x /\ z[3] = y

LEMMA LongerIs ==
  ASSUME NEW s, NEW tags, NEW tok, Begins(s, 1, tags, tok), NEW x, NEW y
  PROVE  Longer(s \o <<x, y>>, tags, tok, x, y)
<1> DEFINE u == s[1]
           z == <<u, x, y>>
<1>1. s = <<u>>
  <2>1. s = [i \in 1..1 |-> s[i]]
    BY DEF Begins
  <2>2. [i \in 1..1 |-> s[i]] = <<s[1]>>
    OBVIOUS
  <2> QED BY <2>1, <2>2
<1>2. u = [tags |-> tags, kind |-> tok.kind, val |-> tok.val, lev |-> 1, label |-> "none"]
  BY DEF Begins
<1> HIDE DEF u
<1>3. s \o <<x, y>> = z
  <2>1. <<u>> \o <<x, y>> = <<u, x, y>>
    <3> DEFINE T == {u, x, y}
               a == <<u>>
               b == <<x, y>>
    <3>1. a \in Seq(T) /\ Len(a) = 1 /\ a[1] = u
      OBVIOUS
    <3>2. b \in Seq(T) /\ Len(b) = 2 /\ b[1] = x /\ b[2] = y
      OBVIOUS
    <3>3. y \in T
      OBVIOUS
    <3> HIDE DEF T, a, b
    <3>4. a \o b \in Seq(T) /\ Len(a \o b) = 3 /\ (a \o b)[1] = u /\ (a \o b)[2] = x /\ (a \o b)[3] = y
      <4>1. /\ a \o b \in Seq(T) /\ Len(a \o b) = 1 + 2
            /\ \A i \in 1..(1 + 2) : (a \o b)[i] = IF i <= 1 THEN a[i] ELSE b[i - 1]
        <5>1. Join(a, b) \in Seq(T) /\ Len(Join(a, b)) = Len(a) + Len(b)
          BY <3>1, <3>2, JoinTwo
        <5>2. \A i \in 1..(Len(a) + Len(b)) : Join(a, b)[i] = IF i <= Len(a) THEN a[i] ELSE b[i - Len(a)]
          BY <3>1, <3>2, JoinHas
        <5> QED BY <3>1, <3>2, <5>1, <5>2 DEF Join
      <4> QED BY <3>1, <3>2, <4>1
    <3>5. a \o b = <<u, x, y>>
      <4> DEFINE c == a \o b
      <4> HIDE DEF c
      <4>1. c = [i \in 1..3 |-> c[i]]
        <5>1. c \in Seq(T) /\ Len(c) = 3
          BY <3>4 DEF c
        <5> QED BY <5>1
      <4>2. c = <<c[1], c[2], c[3]>>
        BY <4>1
      <4> QED BY <3>4, <4>2 DEF c
    <3> QED BY <3>5 DEF a, b
  <2> QED BY <1>1, <2>1
<1>4. z = [i \in 1..3 |-> z[i]] /\ z[1] = u /\ z[2] = x /\ z[3] = y
  <2>1. z[1] = u /\ z[2] = x /\ z[3] = y
    OBVIOUS
  <2>2. z \in Seq({u, x, y}) /\ Len(z) = 3
    <3>1. <<u, x>> \in Seq({u, x, y}) /\ Len(<<u, x>>) = 2
      OBVIOUS
    <3>2. z = Append(<<u, x>>, y)
      OBVIOUS
    <3> QED BY <3>1, <3>2
  <2> HIDE DEF z
  <2>3. z = [i \in 1..3 |-> z[i]]
    BY <2>2
  <2> QED BY <2>1, <2>3
<1> HIDE DEF z
<1>5. Begins(z, 3, tags, tok)
  BY <1>2, <1>4 DEF Begins
<1> QED BY <1>3, <1>4, <1>5 DEF Longer

\* What the adders of fractions write.
LEMMA FractionTokensAre ==
  ASSUME NEW a, IsAdd(a), a.fn \in FractionAdders
  PROVE  Begins(TokensOf(a), 3, TagIs(a), Token("array", 2)) /\ Inner(a, TokensOf(a))
<1> DEFINE t == TagNumber(a.fn)
           e == InnerToken(<<>>, "int", a.arg.exp)
           m == MantissaToken(a)
           s == Tagged(a.tag, t, <<Token("array", 2)>>)
<1>1. ASSUME a.fn \in Fractions PROVE TokensOf(a) = s \o <<e, m>>
  <2>1. Element(AddInt64(a.arg.mant)) = m /\ Element(AddInt64(a.arg.exp)) = e
    BY <1>1, ElementsAre DEF MantissaToken
  <2> HIDE DEF e, m
  <2>2. TokensOf(a) = s \o <<e, m>>
    <3>1. CASE a.fn = "AddTDecimalFraction"
      BY <2>1, <3>1 DEF TokensOf, TagNumber, AddTDecimalFraction, AddExponentAndMantissa
    <3>2. CASE a.fn = "AddTBigFloat"
      BY <2>1, <3>2 DEF TokensOf, TagNumber, AddTBigFloat, AddExponentAndMantissa
    <3> QED BY <1>1, <3>1, <3>2 DEF Fractions
  <2> QED BY <2>2
<1>2. ASSUME a.fn \in BigFractions PROVE TokensOf(a) = s \o <<e, m>>
  <2>1. a.arg.neg \in BOOLEAN
    BY <1>2 DEF IsAdd, StringAdders, ArgumentsOf, BigFractions
  <2>2. Element(BigMantissa(a.arg.neg, a.arg.mant)) = m /\ Element(AddInt64(a.arg.exp)) = e
    <3>1. a.fn \notin Fractions
      BY <1>2 DEF Fractions, BigFractions
    <3>2. CASE a.arg.neg
      BY <3>1, <3>2, ElementsAre DEF MantissaToken, BigMantissa
    <3>3. CASE ~a.arg.neg
      BY <3>1, <3>3, ElementsAre DEF MantissaToken, BigMantissa
    <3> QED BY <2>1, <3>2, <3>3
  <2> HIDE DEF e, m
  <2>3. TokensOf(a) = s \o <<e, m>>
    <3>1. CASE a.fn = "AddTDecimalFractionBigNum"
      BY <2>2, <3>1 DEF TokensOf, TagNumber, AddTDecimalFractionBigNum, AddExponentAndMantissa
    <3>2. CASE a.fn = "AddTBigFloatBigNum"
      BY <2>2, <3>2 DEF TokensOf, TagNumber, AddTBigFloatBigNum, AddExponentAndMantissa
    <3> QED BY <1>2, <3>1, <3>2 DEF BigFractions
  <2> QED BY <2>3
<1>3. TokensOf(a) = s \o <<e, m>>
  BY <1>1, <1>2 DEF FractionAdders
<1>4. a.tag \in BOOLEAN
  BY DEF IsAdd
<1>5. Begins(s, 1, TagIs(a), Token("array", 2))
  <2> HIDE DEF t
  <2>1. Begins(Tagged(a.tag, t, <<Token("array", 2)>>), 1, IF a.tag THEN <<t>> ELSE <<>>,
               Token("array", 2))
    BY <1>4, OneIs
  <2> QED BY <2>1 DEF TagIs, t
<1> HIDE DEF s, e, m
<1> DEFINE T == TagIs(a)
           K == Token("array", 2)
<1>6. Begins(s, 1, T, K)
  BY <1>5
<1> HIDE DEF T, K
<1>7. Longer(s \o <<e, m>>, T, K, e, m)
  BY <1>6, LongerIs
<1>8. Begins(TokensOf(a), 3, T, K) /\ TokensOf(a)[2] = e /\ TokensOf(a)[3] = m
  BY <1>3, <1>7 DEF Longer
<1> QED BY <1>8 DEF Inner, T, K, e, m

Size(a) == IF a.fn \in FractionAdders THEN 3 ELSE 1

\* What an addition writes with a label.
IsWritten(w, a, l) ==
  /\ w = [i \in 1..Size(a) |-> w[i]]
  /\ w[1] = FirstToken(a, l)
  /\ a.fn \in FractionAdders => Inner(a, w)

\* What every adder writes.
LEMMA AddersAre ==
  ASSUME NEW a, IsAdd(a)
  PROVE  a.fn \in OneToken \cup FractionAdders /\ ~(a.fn \in OneToken /\ a.fn \in FractionAdders)
BY DEF IsAdd, StringAdders, NumberAdders, OneToken, FractionAdders, Fractions, BigFractions,
  IntAdders, ByteAdders, TextAdders

\* With a label, and with another tag around it.
LEMMA WrittenIs ==
  ASSUME NEW a, IsAdd(a), NEW l
  PROVE  IsWritten(Written(a, l), a, l)
<1> DEFINE n == Size(a)
           s == TokensOf(a)
           T == TagIs(a)
           k == KindOf(a)
           v == ValueOf(a)
           K == Token(k, v)
           u == IF a.extra THEN AddTag(UnknownTag, s) ELSE s
<1>1. n \in Nat /\ n >= 1
  BY DEF Size
<1>2. Begins(s, n, T, K) /\ (a.fn \in FractionAdders => n = 3 /\ Inner(a, s))
  <2>1. CASE a.fn \in OneToken
    BY <2>1, OneTokenIs, AddersAre DEF Size
  <2>2. CASE a.fn \in FractionAdders
    <3>1. k = "array" /\ v = 2
      BY <2>2 DEF KindOf, ValueOf, FractionAdders, Fractions, BigFractions, IntAdders, ByteAdders,
        TextAdders
    <3>2. K = Token("array", 2)
      <4> HIDE DEF k, v
      <4> QED BY <3>1
    <3> QED BY <2>2, <3>2, FractionTokensAre DEF Size
  <2> QED BY <2>1, <2>2, AddersAre
<1>3. a.extra \in BOOLEAN
  BY DEF IsAdd
<1>4. K.kind = k /\ K.val = v
  BY DEF Token
<1>5. T \in {<<TagNumber(a.fn)>>, <<>>}
  BY DEF TagIs
<1>6. TagsOf(a) = IF a.extra THEN Append(T, UnknownTag) ELSE T
  <2>1. Append(<<TagNumber(a.fn)>>, UnknownTag) = <<TagNumber(a.fn)>> \o <<UnknownTag>>
    OBVIOUS
  <2>2. Append(<<>>, UnknownTag) = <<UnknownTag>>
    OBVIOUS
  <2>3. <<TagNumber(a.fn)>> \o <<>> = <<TagNumber(a.fn)>>
    OBVIOUS
  <2>4. a.tag \in BOOLEAN
    BY DEF IsAdd
  <2>5. CASE a.extra
    BY <2>1, <2>2, <2>4, <2>5 DEF TagsOf, ExtraTags, TagIs
  <2>6. CASE ~a.extra
    BY <2>3, <2>4, <2>6 DEF TagsOf, ExtraTags, TagIs
  <2> QED BY <1>3, <2>5, <2>6
<1> HIDE DEF s, T, k, v, K, n
<1>7. Begins(u, n, TagsOf(a), K) /\ SameRest(u, s, n)
  <2>1. Begins(AddTag(UnknownTag, s), n, Append(T, UnknownTag), K) /\ SameRest(AddTag(UnknownTag, s), s, n)
    BY <1>1, <1>2, AddTagIs
  <2>2. SameRest(s, s, n)
    BY DEF SameRest
  <2> QED BY <1>2, <1>3, <1>6, <2>1, <2>2
<1> HIDE DEF u
<1> DEFINE G == TagsOf(a)
           w == [u EXCEPT ![1].label = l]
<1>8. w = Written(a, l)
  BY DEF Written, u, s
<1> HIDE DEF G
<1>9. /\ w = [i \in 1..n |-> w[i]]
      /\ w[1] = [tags |-> G, kind |-> K.kind, val |-> K.val, lev |-> 1, label |-> l]
      /\ \A i \in 2..n : w[i] = u[i]
  <2>1. Begins(u, n, G, K)
    BY <1>7 DEF G
  <2>2. Labelled([u EXCEPT ![1].label = l], u, n, G, K, l)
    BY <1>1, <2>1, LabelledIs
  <2> QED BY <2>2 DEF Labelled
<1> HIDE DEF w
<1>10. w[1] = FirstToken(a, l)
  BY <1>4, <1>9 DEF FirstToken, G, k, v
<1>11. a.fn \in FractionAdders => Inner(a, w)
  <2>1. n = 3 => u[2] = s[2] /\ u[3] = s[3] /\ w[2] = u[2] /\ w[3] = u[3]
    BY <1>7, <1>9 DEF SameRest
  <2> QED BY <1>2, <2>1 DEF Inner
<1> QED BY <1>8, <1>9, <1>10, <1>11 DEF IsWritten, n

-----------------------------------------------------------------------------
(* Items                                                                    *)

Record(e, t, v, g, l, p) == [err |-> e, type |-> t, val |-> v, tags |-> g, lev |-> l, at |-> p]

IsItem(it) ==
  /\ it = Record(it.err, it.type, it.val, it.tags, it.lev, it.at)
  /\ it.at \in Nat /\ it.at >= 1

LEMMA RecordFields ==
  ASSUME NEW e, NEW t, NEW v, NEW g, NEW l, NEW p
  PROVE  LET r == Record(e, t, v, g, l, p)
         IN  /\ r.err = e /\ r.type = t /\ r.val = v /\ r.tags = g /\ r.lev = l /\ r.at = p
             /\ (p \in Nat /\ p >= 1) => IsItem(r)
BY DEF Record, IsItem

LEMMA Changed ==
  ASSUME NEW it, IsItem(it), NEW x
  PROVE  /\ AsType(it, x) = Record(it.err, x, it.val, it.tags, it.lev, it.at)
         /\ AsError(it, x) = Record(x, it.type, it.val, it.tags, it.lev, it.at)
<1> DEFINE e == it.err  t == it.type  v == it.val  g == it.tags  l == it.lev  p == it.at
           r == Record(e, t, v, g, l, p)
<1>1. it = r
  BY DEF IsItem
<1> HIDE DEF e, t, v, g, l, p
<1>2. [r EXCEPT !.type = x] = Record(e, x, v, g, l, p)
  BY DEF Record
<1>3. [r EXCEPT !.err = x] = Record(x, t, v, g, l, p)
  BY DEF Record
<1> HIDE DEF r
<1>4. AsType(it, x) = Record(e, x, v, g, l, p) /\ AsError(it, x) = Record(x, t, v, g, l, p)
  BY <1>1, <1>2, <1>3 DEF AsType, AsError
<1> QED BY <1>4 DEF e, t, v, g, l, p

LEMMA ChangedIsItem ==
  ASSUME NEW it, IsItem(it), NEW x
  PROVE  /\ IsItem(AsType(it, x)) /\ AsType(it, x).tags = it.tags
         /\ IsItem(AsError(it, x)) /\ AsError(it, x).tags = it.tags
BY Changed, RecordFields DEF IsItem

LEMMA OtherChanges ==
  ASSUME NEW it, IsItem(it), NEW x
  PROVE  /\ [it EXCEPT !.val = x] = Record(it.err, it.type, x, it.tags, it.lev, it.at)
         /\ [it EXCEPT !.at = x] = Record(it.err, it.type, it.val, it.tags, it.lev, x)
         /\ ShiftTags(it)
              = IF it.err = "SUCCESS"
                THEN Record(it.err, it.type, it.val, Tail(it.tags), it.lev, it.at) ELSE it
<1> DEFINE e == it.err  t == it.type  v == it.val  g == it.tags  l == it.lev  p == it.at
           r == Record(e, t, v, g, l, p)
<1>1. it = r
  BY DEF IsItem
<1> HIDE DEF e, t, v, g, l, p
<1>2. [r EXCEPT !.val = x] = Record(e, t, x, g, l, p)
  BY DEF Record
<1>3. [r EXCEPT !.at = x] = Record(e, t, v, g, l, x)
  BY DEF Record
<1>5. [r EXCEPT !.tags = Tail(@)] = Record(e, t, v, Tail(g), l, p)
  <2> DEFINE h == Tail(g)
  <2>1. r.tags = g
    BY DEF Record
  <2>2. [r EXCEPT !.tags = h] = Record(e, t, v, h, l, p)
    <3> HIDE DEF h
    <3> QED BY DEF Record
  <2> HIDE DEF r
  <2> QED BY <2>1, <2>2
<1> HIDE DEF r
<1>6. ShiftTags(it) = IF it.err = "SUCCESS" THEN Record(e, t, v, Tail(g), l, p) ELSE it
  BY <1>1, <1>5 DEF ShiftTags
<1>7. /\ [it EXCEPT !.val = x] = Record(e, t, x, g, l, p)
      /\ [it EXCEPT !.at = x] = Record(e, t, v, g, l, x)
  BY <1>1, <1>2, <1>3
<1> QED BY <1>6, <1>7 DEF e, t, v, g, l, p

FailsAt(it, e, p) == [it EXCEPT !.err = e, !.at = p]

LEMMA FailedIs ==
  ASSUME NEW it, IsItem(it), NEW x, NEW y
  PROVE  FailsAt(it, y, x) = Record(y, it.type, it.val, it.tags, it.lev, x)
<1> DEFINE e == it.err  t == it.type  v == it.val  g == it.tags  l == it.lev  p == it.at
           r == Record(e, t, v, g, l, p)
<1>1. it = r
  BY DEF IsItem
<1> HIDE DEF e, t, v, g, l, p
<1>2. [r EXCEPT !.err = y] = Record(y, t, v, g, l, p)
  BY DEF Record
<1>3. [Record(y, t, v, g, l, p) EXCEPT !.at = x] = Record(y, t, v, g, l, x)
  BY DEF Record
<1>4. [r EXCEPT !.err = y, !.at = x] = [[r EXCEPT !.err = y] EXCEPT !.at = x]
  OBVIOUS
<1> HIDE DEF r
<1>5. FailsAt(it, y, x) = Record(y, t, v, g, l, x)
  BY <1>1, <1>2, <1>3, <1>4 DEF FailsAt
<1> QED BY <1>5 DEF t, v, g, l

LEMMA ShiftedIsItem ==
  ASSUME NEW it, IsItem(it)
  PROVE  IsItem(ShiftTags(it))
<1>1. IsItem(Record(it.err, it.type, it.val, Tail(it.tags), it.lev, it.at))
  BY RecordFields DEF IsItem
<1> QED BY <1>1, OtherChanges

LEMMA ProcessTagIsItem ==
  ASSUME NEW it, IsItem(it), NEW t
  PROVE  IsItem(ProcessTag(it, t))
<1>1. \A x : IsItem(AsType(it, x)) /\ IsItem(AsError(it, x))
  BY ChangedIsItem
<1>2. IsItem(DecodeDateEpoch(it))
  <2> DEFINE u == AsType(it, "DATE_EPOCH")
             v == Signed(u.val, Magnitude(u.val) \div 2)
  <2>1. IsItem(u)
    BY <1>1
  <2>2. IsItem([u EXCEPT !.val = v])
    <3> HIDE DEF u, v
    <3>1. [u EXCEPT !.val = v] = Record(u.err, u.type, v, u.tags, u.lev, u.at)
      BY <2>1, OtherChanges
    <3> QED BY <2>1, <3>1, RecordFields DEF IsItem
  <2>3. DecodeDateEpoch(it) \in {AsType(it, "DATE_EPOCH"), AsError(it, "DATE_OVERFLOW"),
                                 AsError(it, "BAD_TAG_CONTENT"), [u EXCEPT !.val = v]}
    BY Zenon DEF DecodeDateEpoch
  <2> QED BY <1>1, <2>2, <2>3
<1>3. IsItem(DecodeDaysEpoch(it))
  BY <1>1 DEF DecodeDaysEpoch
<1>4. IsItem(DecodeMIME(it))
  BY <1>1 DEF DecodeMIME
<1>5. IsItem(ProcessTaggedString(it, t))
  BY <1>1 DEF ProcessTaggedString
<1> QED BY <1>2, <1>3, <1>4, <1>5 DEF ProcessTag

\* The tags of the input are few.
FewTags(s) == Len(s) \in Nat /\ \A j \in 1..Len(s) : Len(s[j].tags) \in 0..2

\* The next item has what its token has.
LEMMA NextIsItem ==
  ASSUME NEW s, FewTags(s), NEW p \in Nat, p >= 1
  PROVE  IsItem(GetNextMapOrArray(s, p)) /\ Len(GetNextMapOrArray(s, p).tags) \in 0..2
<1>1. p + 1 \in Nat /\ p + 1 >= 1 /\ Len(s) \in Nat
  BY DEF FewTags
<1>2. \A e, q : Bad(e, q) = Record(e, "NONE", 0, <<>>, 0, q)
  BY DEF Bad, Record
<1>3. \A e : \A q \in {p, p + 1} : IsItem(Bad(e, q)) /\ Bad(e, q).tags = <<>>
  BY <1>1, <1>2, RecordFields
<1>4. ASSUME p <= Len(s)
      PROVE  LET r == Record("SUCCESS", BasicType(s[p]), s[p].val, s[p].tags, s[p].lev, p + 1)
             IN  IsItem(r) /\ Len(r.tags) \in 0..2
  <2>1. Len(s[p].tags) \in 0..2
    BY <1>4 DEF FewTags
  <2> QED BY <1>1, <2>1, RecordFields
<1>5. Len(<<>>) \in 0..2
  OBVIOUS
<1>6. CASE p > Len(s)
  BY <1>3, <1>5, <1>6 DEF GetNextMapOrArray
<1>7. CASE ~(p > Len(s))
  <2>1. p <= Len(s)
    BY <1>1, <1>7
  <2> QED BY <1>3, <1>4, <1>5, <1>7, <2>1 DEF GetNextMapOrArray, Record
<1> QED BY <1>6, <1>7

\* What the first n tags make of an item.
ContentOf(s, it, n) ==
  IF n = 0 THEN it
  ELSE IF n = 1 THEN ContentTag(s, it, it.tags[1])
  ELSE ContentTag(s, ContentTag(s, it, it.tags[1]), it.tags[2])

\* The loop over the tags of an item, unrolled for the two there can be.
LEMMA ContentFold ==
  ASSUME NEW s, NEW p, Len(GetNextMapOrArray(s, p).tags) \in 0..2
  PROVE  GetNextTagContent(s, p)
           = UpToUnknown(ContentOf(s, GetNextMapOrArray(s, p), Len(GetNextMapOrArray(s, p).tags)))
<1> DEFINE it == GetNextMapOrArray(s, p)
           n  == Len(it.tags)
           D(f) == [k \in 0..n |-> IF k = 0 THEN it ELSE ContentTag(s, f[k - 1], it.tags[k])]
           h  == [k \in 0..n |-> ContentOf(s, it, k)]
           c  == CHOOSE f : f = D(f)
<1>0. n \in 0..2
  OBVIOUS
<1>1. GetNextTagContent(s, p) = UpToUnknown(c[n])
  BY DEF GetNextTagContent
<1> HIDE DEF it, n
<1>2. h = D(h)
  <2>1. ASSUME NEW k \in 0..n PROVE h[k] = IF k = 0 THEN it ELSE ContentTag(s, h[k - 1], it.tags[k])
    <3>1. CASE k = 0
      BY <3>1 DEF ContentOf
    <3>2. CASE k = 1
      <4>1. h[0] = it
        BY <1>0 DEF ContentOf
      <4>2. h[1] = ContentTag(s, it, it.tags[1])
        BY <1>0, <3>2 DEF ContentOf
      <4> HIDE DEF h
      <4> QED BY <3>2, <4>1, <4>2
    <3>3. CASE k = 2
      <4>1. h[1] = ContentTag(s, it, it.tags[1])
        BY <1>0, <3>3 DEF ContentOf
      <4>2. h[2] = ContentTag(s, ContentTag(s, it, it.tags[1]), it.tags[2])
        BY <1>0, <3>3 DEF ContentOf
      <4> HIDE DEF h
      <4> QED BY <3>3, <4>1, <4>2
    <3> QED BY <1>0, <3>1, <3>2, <3>3
  <2>2. h = [k \in 0..n |-> h[k]]
    OBVIOUS
  <2> HIDE DEF h
  <2> QED BY <2>1, <2>2
<1> HIDE DEF D
<1>3. c = D(c)
  BY <1>2
<1> HIDE DEF c
<1>4. c = [k \in 0..n |-> IF k = 0 THEN it ELSE ContentTag(s, c[k - 1], it.tags[k])]
  BY <1>3 DEF D
<1>5. c[n] = ContentOf(s, it, n)
  <2>1. \A k \in 0..n : c[k] = IF k = 0 THEN it ELSE ContentTag(s, c[k - 1], it.tags[k])
    BY <1>4
  <2>2. c[0] = it
    BY <1>0, <2>1
  <2>3. CASE n = 0
    BY <2>2, <2>3 DEF ContentOf
  <2>4. ASSUME n >= 1 PROVE c[1] = ContentTag(s, it, it.tags[1])
    <3>1. 1 \in 0..n
      BY <1>0, <2>4
    <3> QED BY <2>1, <2>2, <3>1
  <2>5. CASE n = 1
    BY <2>4, <2>5 DEF ContentOf
  <2>6. CASE n = 2
    <3>1. c[2] = ContentTag(s, c[1], it.tags[2])
      BY <2>1, <2>6
    <3> QED BY <2>4, <2>6, <3>1 DEF ContentOf
  <2> QED BY <1>0, <2>3, <2>5, <2>6
<1> QED BY <1>1, <1>5 DEF it, n

MantissaOf(it, n) ==
  IF n = 0 THEN it
  ELSE IF n = 1 THEN MantissaTag(it, it.tags[1])
  ELSE MantissaTag(MantissaTag(it, it.tags[1]), it.tags[2])

\* The loop over the tags of a mantissa.
LEMMA MantissaFold ==
  ASSUME NEW s, NEW p, Len(GetNextMapOrArray(s, p).tags) \in 0..2
  PROVE  MantissaContent(s, p)
           = UpToUnknown(MantissaOf(GetNextMapOrArray(s, p), Len(GetNextMapOrArray(s, p).tags)))
<1> DEFINE it == GetNextMapOrArray(s, p)
           n  == Len(it.tags)
           D(f) == [k \in 0..n |-> IF k = 0 THEN it ELSE MantissaTag(f[k - 1], it.tags[k])]
           h  == [k \in 0..n |-> MantissaOf(it, k)]
           c  == CHOOSE f : f = D(f)
<1>0. n \in 0..2
  OBVIOUS
<1>1. MantissaContent(s, p) = UpToUnknown(c[n])
  BY DEF MantissaContent
<1> HIDE DEF it, n
<1>2. h = D(h)
  <2>1. ASSUME NEW k \in 0..n PROVE h[k] = IF k = 0 THEN it ELSE MantissaTag(h[k - 1], it.tags[k])
    <3>1. CASE k = 0
      BY <3>1 DEF MantissaOf
    <3>2. CASE k = 1
      <4>1. h[0] = it
        BY <1>0 DEF MantissaOf
      <4>2. h[1] = MantissaTag(it, it.tags[1])
        BY <1>0, <3>2 DEF MantissaOf
      <4> HIDE DEF h
      <4> QED BY <3>2, <4>1, <4>2
    <3>3. CASE k = 2
      <4>1. h[1] = MantissaTag(it, it.tags[1])
        BY <1>0, <3>3 DEF MantissaOf
      <4>2. h[2] = MantissaTag(MantissaTag(it, it.tags[1]), it.tags[2])
        BY <1>0, <3>3 DEF MantissaOf
      <4> HIDE DEF h
      <4> QED BY <3>3, <4>1, <4>2
    <3> QED BY <1>0, <3>1, <3>2, <3>3
  <2>2. h = [k \in 0..n |-> h[k]]
    OBVIOUS
  <2> HIDE DEF h
  <2> QED BY <2>1, <2>2
<1> HIDE DEF D
<1>3. c = D(c)
  BY <1>2
<1> HIDE DEF c
<1>4. c = [k \in 0..n |-> IF k = 0 THEN it ELSE MantissaTag(c[k - 1], it.tags[k])]
  BY <1>3 DEF D
<1>5. c[n] = MantissaOf(it, n)
  <2>1. \A k \in 0..n : c[k] = IF k = 0 THEN it ELSE MantissaTag(c[k - 1], it.tags[k])
    BY <1>4
  <2>2. c[0] = it
    BY <1>0, <2>1
  <2>3. CASE n = 0
    BY <2>2, <2>3 DEF MantissaOf
  <2>4. ASSUME n >= 1 PROVE c[1] = MantissaTag(it, it.tags[1])
    <3>1. 1 \in 0..n
      BY <1>0, <2>4
    <3> QED BY <2>1, <2>2, <3>1
  <2>5. CASE n = 1
    BY <2>4, <2>5 DEF MantissaOf
  <2>6. CASE n = 2
    <3>1. c[2] = MantissaTag(c[1], it.tags[2])
      BY <2>1, <2>6
    <3> QED BY <2>4, <2>6, <3>1 DEF MantissaOf
  <2> QED BY <1>0, <2>3, <2>5, <2>6
<1> QED BY <1>1, <1>5 DEF it, n

LEMMA UpToUnknownIsItem ==
  ASSUME NEW it, IsItem(it)
  PROVE  IsItem(UpToUnknown(it)) /\ UpToUnknown(it).at = it.at
<1>1. IsItem(AsError(it, "SUCCESS")) /\ AsError(it, "SUCCESS").at = it.at
  BY ChangedIsItem, Changed, RecordFields DEF IsItem
<1> QED BY <1>1 DEF UpToUnknown

\* The mantissa is an item, whatever it was.
LEMMA MantissaIsItem ==
  ASSUME NEW s, FewTags(s), NEW p \in Nat, p >= 1
  PROVE  IsItem(MantissaContent(s, p))
<1> DEFINE it == GetNextMapOrArray(s, p)
           n  == Len(it.tags)
<1>1. IsItem(it) /\ n \in 0..2
  BY NextIsItem
<1>2. MantissaContent(s, p) = UpToUnknown(MantissaOf(it, n))
  BY <1>1, MantissaFold
<1>3. ASSUME NEW i, IsItem(i), NEW t PROVE IsItem(MantissaTag(i, t))
  <2>1. IsItem(AsError(i, "BAD_EXP_AND_MANTISSA"))
    BY <1>3, ChangedIsItem
  <2>2. IsItem(ShiftTags(ProcessTag(i, t)))
    BY <1>3, ProcessTagIsItem, ShiftedIsItem
  <2> QED BY <1>3, <2>1, <2>2 DEF MantissaTag
<1> HIDE DEF it, n
<1>4. IsItem(MantissaOf(it, n))
  BY <1>1, <1>3 DEF MantissaOf
<1> QED BY <1>2, <1>4, UpToUnknownIsItem

LEMMA WithMantissaIsItem ==
  ASSUME NEW s, NEW it, IsItem(it), NEW base, NEW e, NEW m, IsItem(m)
  PROVE  /\ IsItem(WithMantissa(s, it, base, e, m))
         /\ WithMantissa(s, it, base, e, m).tags = it.tags
         /\ WithMantissa(s, it, base, e, m).at = m.at
<1> DEFINE t == FractionType(base, m.type)
           v == [mant |-> m.val, exp |-> e]
           a == Record(m.err, it.type, it.val, it.tags, it.lev, m.at)
           b == Record("BAD_EXP_AND_MANTISSA", it.type, it.val, it.tags, it.lev, m.at)
           c == Record(it.err, t, v, it.tags, it.lev, m.at)
           w == WithMantissa(s, it, base, e, m)
<1>1. m.at \in Nat /\ m.at >= 1
  BY DEF IsItem
<1>2. [it EXCEPT !.err = m.err, !.at = m.at] = a
  BY FailedIs DEF FailsAt
<1>3. [it EXCEPT !.err = "BAD_EXP_AND_MANTISSA", !.at = m.at] = b
  BY FailedIs DEF FailsAt
<1>4. [it EXCEPT !.type = t, !.val = v, !.at = m.at] = c
  <2> DEFINE u == Record(it.err, it.type, it.val, it.tags, it.lev, it.at)
  <2>1. it = u
    BY DEF IsItem
  <2> HIDE DEF t, v
  <2>2. [u EXCEPT !.type = t, !.val = v, !.at = m.at] = [[[u EXCEPT !.type = t] EXCEPT !.val = v] EXCEPT !.at = m.at]
    OBVIOUS
  <2>3. [u EXCEPT !.type = t] = Record(it.err, t, it.val, it.tags, it.lev, it.at)
    BY DEF Record
  <2>4. [Record(it.err, t, it.val, it.tags, it.lev, it.at) EXCEPT !.val = v]
          = Record(it.err, t, v, it.tags, it.lev, it.at)
    BY DEF Record
  <2>5. [Record(it.err, t, v, it.tags, it.lev, it.at) EXCEPT !.at = m.at] = c
    BY DEF Record
  <2> HIDE DEF u, c
  <2>6. [u EXCEPT !.type = t, !.val = v, !.at = m.at] = c
    BY <2>2, <2>3, <2>4, <2>5
  <2> QED BY <2>1, <2>6
<1>5. w \in {a, b, c}
  <2> HIDE DEF t, v
  <2>1. w \in {[it EXCEPT !.err = m.err, !.at = m.at],
               [it EXCEPT !.err = "BAD_EXP_AND_MANTISSA", !.at = m.at],
               [it EXCEPT !.type = t, !.val = v, !.at = m.at]}
    BY Zenon DEF WithMantissa, t, v
  <2> HIDE DEF a, b, c, w
  <2> QED BY <1>2, <1>3, <1>4, <2>1
<1>6. \A x \in {a, b, c} : IsItem(x) /\ x.tags = it.tags /\ x.at = m.at
  <2> HIDE DEF t, v
  <2> QED BY <1>1, RecordFields
<1> QED BY <1>5, <1>6

\* So is a fraction.
LEMMA FractionIsItem ==
  ASSUME NEW s, FewTags(s), NEW it, IsItem(it), NEW p \in Nat, p >= 1
  PROVE  IsItem(MantissaAndExponent(s, it, p)) /\ MantissaAndExponent(s, it, p).tags = it.tags
<1> DEFINE e == GetNextMapOrArray(s, p)
           m == MantissaContent(s, e.at)
           base == IF 4 \in ToSet(it.tags) THEN "DECIMAL_FRACTION" ELSE "BIGFLOAT"
           w == MantissaAndExponentOf(s, it, base, e)
<1>1. IsItem(e) /\ e.at \in Nat /\ e.at >= 1
  BY NextIsItem DEF IsItem
<1>2. IsItem(m)
  <2> HIDE DEF e
  <2> QED BY <1>1, MantissaIsItem
<1>3. IsItem(w) /\ w.tags = it.tags
  <2> HIDE DEF e, base
  <2>1. IsItem(WithMantissa(s, it, base, e.val, m)) /\ WithMantissa(s, it, base, e.val, m).tags = it.tags
    BY <1>2, WithMantissaIsItem
  <2>2. ASSUME NEW x
        PROVE  IsItem(FailsAt(it, x, e.at)) /\ FailsAt(it, x, e.at).tags = it.tags
    <3>1. FailsAt(it, x, e.at) = Record(x, it.type, it.val, it.tags, it.lev, e.at)
      BY FailedIs
    <3>2. LET r == Record(x, it.type, it.val, it.tags, it.lev, e.at) IN IsItem(r) /\ r.tags = it.tags
      BY <1>1, RecordFields
    <3> QED BY <3>1, <3>2
  <2>3. w \in {FailsAt(it, e.err, e.at), FailsAt(it, "BAD_EXP_AND_MANTISSA", e.at),
               WithMantissa(s, it, base, e.val, m)}
    BY Zenon DEF MantissaAndExponentOf, FailsAt
  <2> HIDE DEF w
  <2> QED BY <2>1, <2>2, <2>3
<1>4. MantissaAndExponent(s, it, p) \in {AsError(it, "BAD_EXP_AND_MANTISSA"), w}
  BY Zenon DEF MantissaAndExponent
<1>5. IsItem(AsError(it, "BAD_EXP_AND_MANTISSA")) /\ AsError(it, "BAD_EXP_AND_MANTISSA").tags = it.tags
  BY ChangedIsItem
<1> HIDE DEF w
<1> QED BY <1>3, <1>4, <1>5

\* And what tags are made of.
LEMMA ContentIsItem ==
  ASSUME NEW s, FewTags(s), NEW p \in Nat, p >= 1
  PROVE  IsItem(GetNextTagContent(s, p))
<1> DEFINE it == GetNextMapOrArray(s, p)
           n  == Len(it.tags)
<1>1. IsItem(it) /\ n \in 0..2
  BY NextIsItem
<1>2. GetNextTagContent(s, p) = UpToUnknown(ContentOf(s, it, n))
  BY <1>1, ContentFold
<1>3. ASSUME NEW i, IsItem(i), NEW t PROVE IsItem(ContentTag(s, i, t))
  <2>1. IsItem(ShiftTags(ProcessTag(i, t)))
    BY <1>3, ProcessTagIsItem, ShiftedIsItem
  <2>2. i.at \in Nat /\ i.at >= 1
    BY <1>3 DEF IsItem
  <2>3. IsItem(ShiftTags(MantissaAndExponent(s, i, i.at)))
    BY <1>3, <2>2, FractionIsItem, ShiftedIsItem
  <2> QED BY <1>3, <2>1, <2>3 DEF ContentTag
<1> HIDE DEF it, n
<1>4. IsItem(ContentOf(s, it, n))
  BY <1>1, <1>3 DEF ContentOf
<1> QED BY <1>2, <1>4, UpToUnknownIsItem

-----------------------------------------------------------------------------
(* The item of what was added                                               *)

PlainType(a) ==
  CASE a.fn = "AddInt64" -> IF a.arg > INT_MAX THEN "UINT64" ELSE "INT64"
    [] a.fn \in {"AddTDateEpoch", "AddTDaysEpoch"} -> "INT64"
    [] a.fn \in ByteAdders -> "BYTE_STRING"
    [] a.fn \in TextAdders -> "TEXT_STRING"
    [] a.fn = "AddDouble" -> "DOUBLE"
    [] a.fn = "AddNaN" -> "NAN"
    [] a.fn = "AddSimple" -> a.arg
    [] a.fn \in FractionAdders -> "ARRAY"

TaggedType(a) ==
  CASE a.fn = "AddTDateEpoch" -> "DATE_EPOCH"
    [] a.fn = "AddTDaysEpoch" -> "DAYS_EPOCH"
    [] a.fn = "AddTBinaryUUID" -> "UUID"
    [] a.fn = "AddTPositiveBignum" -> "POSBIGNUM"
    [] a.fn = "AddTNegativeBignum" -> "NEGBIGNUM"
    [] a.fn = "AddTURI" -> "URI"
    [] a.fn = "AddTB64Text" -> "BASE64"
    [] a.fn = "AddTB64URLText" -> "BASE64URL"
    [] a.fn = "AddTRegex" -> "REGEX"
    [] a.fn = "AddTMIMEData" -> "BINARY_MIME"
    [] a.fn = "AddTDateString" -> "DATE_STRING"
    [] a.fn = "AddTDaysString" -> "DAYS_STRING"
    [] a.fn = "AddTDecimalFraction" -> "DECIMAL_FRACTION"
    [] a.fn = "AddTBigFloat" -> "BIGFLOAT"
    [] a.fn = "AddTDecimalFractionBigNum" ->
         IF a.arg.neg THEN "DECIMAL_FRACTION_NEG_BIGNUM" ELSE "DECIMAL_FRACTION_POS_BIGNUM"
    [] a.fn = "AddTBigFloatBigNum" ->
         IF a.arg.neg THEN "BIGFLOAT_NEG_BIGNUM" ELSE "BIGFLOAT_POS_BIGNUM"

TypeOf(a) == IF a.tag THEN TaggedType(a) ELSE PlainType(a)

ItemValue(a) ==
  IF a.tag /\ a.fn \in FractionAdders THEN [mant |-> a.arg.mant, exp |-> a.arg.exp] ELSE ValueOf(a)

\* Another encoder's integer that int64_t does not hold.
TooNegative(a) == a.fn = "AddInt64" /\ a.arg < INT_MIN

\* The tokens of an addition are in the input at p.
Block(s, p, a, l) ==
  /\ p \in 1..Len(s) /\ s[p] = FirstToken(a, l)
  /\ a.fn \in FractionAdders =>
       /\ p + 2 <= Len(s) /\ s[p + 1] = InnerToken(<<>>, "int", a.arg.exp)
       /\ s[p + 2] = MantissaToken(a)
       /\ p + 3 <= Len(s) => s[p + 3].lev = 1

\* The tags of an entry, from the inside out.
LEMMA TagsAre ==
  ASSUME NEW a, IsAdd(a)
  PROVE  /\ TagsOf(a) = IF a.tag THEN IF a.extra THEN <<TagNumber(a.fn), UnknownTag>> ELSE <<TagNumber(a.fn)>>
                        ELSE ExtraTags(a)
         /\ a.tag => Tail(TagsOf(a)) = ExtraTags(a) /\ TagsOf(a)[1] = TagNumber(a.fn)
<1> DEFINE t == TagNumber(a.fn)
           u == UnknownTag
<1>1. a.tag \in BOOLEAN /\ a.extra \in BOOLEAN
  BY DEF IsAdd
<1> HIDE DEF t
<1>2. <<t>> \o <<u>> = <<t, u>> /\ <<t>> \o <<>> = <<t>>
  <2>1. <<t>> \o <<u>> = Append(<<t>>, u)
    OBVIOUS
  <2>2. Append(<<t>>, u) = <<t, u>>
    <3> DEFINE e == Append(<<t>>, u)
    <3>1. e \in Seq({t, u}) /\ Len(e) = 2 /\ e[1] = t /\ e[2] = u
      OBVIOUS
    <3> HIDE DEF e
    <3>2. e = [i \in 1..2 |-> e[i]]
      BY <3>1
    <3>3. e = <<e[1], e[2]>>
      BY <3>2
    <3> QED BY <3>1, <3>3 DEF e
  <2>3. <<t>> \o <<>> = <<t>>
    OBVIOUS
  <2> QED BY <2>1, <2>2, <2>3
<1>3. Tail(<<t, u>>) = <<u>> /\ Tail(<<t>>) = <<>> /\ <<t, u>>[1] = t /\ <<t>>[1] = t
  OBVIOUS
<1>4. CASE a.tag /\ a.extra
  BY <1>2, <1>3, <1>4 DEF TagsOf, ExtraTags, t
<1>5. CASE a.tag /\ ~a.extra
  BY <1>2, <1>3, <1>5 DEF TagsOf, ExtraTags, t
<1>6. CASE ~a.tag
  BY <1>6 DEF TagsOf
<1> QED BY <1>1, <1>4, <1>5, <1>6

\* The type of an item before its tags are looked at.
LEMMA BasicTypeIs ==
  ASSUME NEW a, IsAdd(a), NEW l
  PROVE  BasicType(FirstToken(a, l)) = PlainType(a)
<1> DEFINE tok == FirstToken(a, l)
<1>1. tok.kind = KindOf(a) /\ tok.val = ValueOf(a)
  BY DEF FirstToken
<1> SUFFICES BasicType(tok) = PlainType(a)
  OBVIOUS
<1> HIDE DEF tok
<1>2. CASE a.fn \in IntAdders
  <2>1. KindOf(a) = "int" /\ ValueOf(a) = a.arg
    BY <1>2 DEF KindOf, ValueOf, FractionAdders, Fractions, BigFractions, IntAdders, ByteAdders,
      TextAdders
  <2>2. CASE a.fn = "AddInt64"
    BY <1>1, <2>1, <2>2 DEF BasicType, PlainType, ByteAdders, TextAdders, FractionAdders, Fractions,
      BigFractions
  <2>3. CASE a.fn \in {"AddTDateEpoch", "AddTDaysEpoch"}
    <3>1. a.arg \in INT_MIN..INT_MAX
      BY <2>3 DEF IsAdd, StringAdders, ArgumentsOf
    <3>2. ~(a.arg > INT_MAX)
      BY <3>1, Limits
    <3> QED
      BY <1>1, <2>1, <2>3, <3>2 DEF BasicType, PlainType, ByteAdders, TextAdders, FractionAdders,
        Fractions, BigFractions
  <2> QED BY <1>2, <2>2, <2>3 DEF IntAdders
<1>3. CASE a.fn \in ByteAdders
  <2>1. KindOf(a) = "bytes"
    BY <1>3 DEF KindOf, FractionAdders, Fractions, BigFractions, IntAdders, ByteAdders, TextAdders
  <2> QED BY <1>1, <1>3, <2>1 DEF BasicType, PlainType, ByteAdders, TextAdders, FractionAdders,
        Fractions, BigFractions
<1>4. CASE a.fn \in TextAdders
  <2>1. KindOf(a) = "text"
    BY <1>4 DEF KindOf, FractionAdders, Fractions, BigFractions, IntAdders, ByteAdders, TextAdders
  <2> QED BY <1>1, <1>4, <2>1 DEF BasicType, PlainType, ByteAdders, TextAdders, FractionAdders,
        Fractions, BigFractions
<1>5. CASE a.fn \in FractionAdders
  <2>1. KindOf(a) = "array"
    BY <1>5 DEF KindOf, FractionAdders, Fractions, BigFractions, IntAdders, ByteAdders, TextAdders
  <2> QED BY <1>1, <1>5, <2>1 DEF BasicType, PlainType, ByteAdders, TextAdders, FractionAdders,
        Fractions, BigFractions
<1>6. CASE a.fn \in {"AddDouble", "AddNaN"}
  <2>1. KindOf(a) = IF a.fn = "AddDouble" THEN "float" ELSE "nan"
    BY <1>6 DEF KindOf, FractionAdders, Fractions, BigFractions, IntAdders, ByteAdders, TextAdders
  <2> QED BY <1>1, <1>6, <2>1 DEF BasicType, PlainType, ByteAdders, TextAdders, FractionAdders,
        Fractions, BigFractions
<1>7. CASE a.fn = "AddSimple"
  <2>1. KindOf(a) = a.arg
    BY <1>7 DEF KindOf, FractionAdders, Fractions, BigFractions, IntAdders, ByteAdders, TextAdders
  <2>2. a.arg \in {"TRUE", "FALSE", "NULL", "UNDEF"}
    BY <1>7 DEF IsAdd, StringAdders, ArgumentsOf
  <2> QED BY <1>1, <1>7, <2>1, <2>2 DEF BasicType, PlainType, ByteAdders, TextAdders, FractionAdders,
        Fractions, BigFractions
<1> QED BY <1>2, <1>3, <1>4, <1>5, <1>6, <1>7, AddersAre DEF OneToken

\* The item before its tags are looked at.
LEMMA FirstIs ==
  ASSUME NEW a, IsAdd(a), NEW s, FewTags(s), NEW p, NEW l, Block(s, p, a, l)
  PROVE  /\ TooNegative(a) => GetNextMapOrArray(s, p) = Bad("INT_OVERFLOW", p + 1)
         /\ ~TooNegative(a) =>
              GetNextMapOrArray(s, p) = Record("SUCCESS", PlainType(a), ValueOf(a), TagsOf(a), 1, p + 1)
<1> DEFINE tok == s[p]
<1>1. p \in 1..Len(s) /\ Len(s) \in Nat /\ tok = FirstToken(a, l)
  BY DEF Block, FewTags
<1>2. ~(p > Len(s))
  BY <1>1
<1>3. tok.kind = KindOf(a) /\ tok.val = ValueOf(a) /\ tok.tags = TagsOf(a) /\ tok.lev = 1
  BY <1>1 DEF FirstToken
<1>4. BasicType(tok) = PlainType(a)
  BY <1>1, BasicTypeIs
<1> HIDE DEF tok
<1>5. TooNegative(a) <=> tok.kind = "int" /\ tok.val < INT_MIN
  <2>1. CASE a.fn \in IntAdders
    <3>1. KindOf(a) = "int" /\ ValueOf(a) = a.arg
      BY <2>1 DEF KindOf, ValueOf, FractionAdders, Fractions, BigFractions, IntAdders, ByteAdders,
        TextAdders
    <3>2. a.fn # "AddInt64" => ~(a.arg < INT_MIN)
      <4>1. a.fn # "AddInt64" => a.arg \in INT_MIN..INT_MAX
        BY <2>1 DEF IsAdd, StringAdders, ArgumentsOf, IntAdders
      <4> QED BY <4>1, Limits
    <3> QED BY <1>3, <3>1, <3>2 DEF TooNegative
  <2>2. CASE a.fn \notin IntAdders
    <3>1. KindOf(a) # "int"
      <4>1. a.fn = "AddSimple" => a.arg \in {"TRUE", "FALSE", "NULL", "UNDEF"}
        BY DEF IsAdd, StringAdders, ArgumentsOf
      <4> QED BY <2>2, <4>1, AddersAre DEF KindOf, OneToken, FractionAdders, Fractions, BigFractions,
            IntAdders, ByteAdders, TextAdders
    <3>2. a.fn # "AddInt64"
      BY <2>2 DEF IntAdders
    <3> QED BY <1>3, <3>1, <3>2 DEF TooNegative
  <2> QED BY <2>1, <2>2
<1> QED BY <1>2, <1>3, <1>4, <1>5 DEF GetNextMapOrArray, Record, tok

\* A string takes the type that its tag has in StringTagMap.
LEMMA TaggedStringIs ==
  ASSUME NEW m \in StringTagMap, NEW it, it.type = m.of
  PROVE  ProcessTaggedString(it, m.tag) = AsType(it, m.type)
<1> DEFINE k == CHOOSE k \in StringTagMap : k.tag = m.tag
<1>1. k \in StringTagMap /\ k.tag = m.tag
  OBVIOUS
<1> HIDE DEF k
<1>2. k = m
  BY <1>1 DEF StringTagMap
<1> QED BY <1>2 DEF ProcessTaggedString, k

\* One tag of a string, from the list the decoder has.
LEMMA StringTagIs ==
  ASSUME NEW it, NEW m \in StringTagMap, it.type = m.of
  PROVE  ProcessTag(it, m.tag) = AsType(it, m.type)
<1>1. m.tag \notin {1, 100, 36, 257}
  BY DEF StringTagMap
<1> QED BY <1>1, TaggedStringIs DEF ProcessTag

\* The tag of an addition that is not a fraction.
LEMMA OneTagIs ==
  ASSUME NEW a, IsAdd(a), a.tag, a.fn \in OneToken, NEW it, IsItem(it), it.type = PlainType(a)
  PROVE  /\ TagNumber(a.fn) \notin {4, 5}
         /\ ProcessTag(it, TagNumber(a.fn)) = AsType(it, TaggedType(a))
<1> DEFINE t == TagNumber(a.fn)
           T == TaggedType(a)
<1>1. a.fn \notin Untagged
  BY DEF IsAdd
<1>2. CASE a.fn = "AddTDateEpoch"
  <2>1. t = 1 /\ T = "DATE_EPOCH"
    BY <1>2 DEF TagNumber, TaggedType
  <2>2. it.type = "INT64"
    BY <1>2 DEF PlainType, ByteAdders, TextAdders, FractionAdders, Fractions, BigFractions
  <2> HIDE DEF t, T
  <2>3. ProcessTag(it, t) = AsType(it, T)
    BY <2>1, <2>2 DEF ProcessTag, DecodeDateEpoch
  <2> QED BY <2>1, <2>3 DEF t, T
<1>3. CASE a.fn = "AddTDaysEpoch"
  <2>1. t = 100 /\ T = "DAYS_EPOCH"
    BY <1>3 DEF TagNumber, TaggedType
  <2>2. it.type = "INT64"
    BY <1>3 DEF PlainType, ByteAdders, TextAdders, FractionAdders, Fractions, BigFractions
  <2> HIDE DEF t, T
  <2>3. ProcessTag(it, t) = AsType(it, T)
    BY <2>1, <2>2 DEF ProcessTag, DecodeDaysEpoch
  <2> QED BY <2>1, <2>3 DEF t, T
<1>4. CASE a.fn = "AddTMIMEData"
  <2>1. t = 257 /\ T = "BINARY_MIME"
    BY <1>4 DEF TagNumber, TaggedType
  <2>2. it.type = "BYTE_STRING"
    BY <1>4 DEF PlainType, ByteAdders, TextAdders, FractionAdders, Fractions, BigFractions
  <2> HIDE DEF t, T
  <2>3. ProcessTag(it, t) = AsType(it, T)
    BY <2>1, <2>2 DEF ProcessTag, DecodeMIME
  <2> QED BY <2>1, <2>3 DEF t, T
<1>5. CASE a.fn \in {"AddTBinaryUUID", "AddTPositiveBignum", "AddTNegativeBignum"}
  <2>1. it.type = "BYTE_STRING"
    BY <1>5 DEF PlainType, ByteAdders, TextAdders, FractionAdders, Fractions, BigFractions
  <2>2. t \notin {4, 5} /\ \E m \in StringTagMap : m.tag = t /\ m.type = T /\ m.of = "BYTE_STRING"
    BY <1>5 DEF TagNumber, TaggedType, StringTagMap
  <2> HIDE DEF t, T
  <2>3. ProcessTag(it, t) = AsType(it, T)
    BY <2>1, <2>2, StringTagIs
  <2> QED BY <2>2, <2>3 DEF t, T
<1>6. CASE a.fn \in TextAdders /\ a.fn # "AddText"
  <2>1. it.type = "TEXT_STRING"
    BY <1>6 DEF PlainType, ByteAdders, TextAdders, FractionAdders, Fractions, BigFractions
  <2>2. t \notin {4, 5} /\ \E m \in StringTagMap : m.tag = t /\ m.type = T /\ m.of = "TEXT_STRING"
    BY <1>6 DEF TagNumber, TaggedType, StringTagMap, TextAdders
  <2> HIDE DEF t, T
  <2>3. ProcessTag(it, t) = AsType(it, T)
    BY <2>1, <2>2, StringTagIs
  <2> QED BY <2>2, <2>3 DEF t, T
<1> QED BY <1>1, <1>2, <1>3, <1>4, <1>5, <1>6 DEF OneToken, IntAdders, ByteAdders, TextAdders, Untagged

\* An item inside a fraction.
LEMMA InnerIs ==
  ASSUME NEW s, FewTags(s), NEW q \in Nat, q <= Len(s), NEW g, NEW kind, NEW v,
         s[q] = InnerToken(g, kind, v), NEW t,
         \/ kind = "int" /\ v \in INT_MIN..INT_MAX /\ t = "INT64"
         \/ kind = "bytes" /\ t = "BYTE_STRING"
  PROVE  GetNextMapOrArray(s, q) = Record("SUCCESS", t, v, g, 2, q + 1)
<1> DEFINE tok == s[q]
<1>1. tok.tags = g /\ tok.kind = kind /\ tok.val = v /\ tok.lev = 2
  BY DEF InnerToken
<1>2. ~(q > Len(s))
  BY DEF FewTags
<1> HIDE DEF tok
<1>3. BasicType(tok) = t /\ ~(tok.kind = "int" /\ tok.val < INT_MIN)
  <2>1. CASE kind = "int"
    <3>1. v \in INT_MIN..INT_MAX /\ t = "INT64"
      BY <2>1
    <3>2. ~(v > INT_MAX) /\ ~(v < INT_MIN)
      BY <3>1, Limits
    <3> QED BY <1>1, <2>1, <3>1, <3>2 DEF BasicType
  <2>2. CASE kind # "int"
    BY <1>1, <2>2 DEF BasicType
  <2> QED BY <2>1, <2>2
<1> QED BY <1>1, <1>2, <1>3 DEF GetNextMapOrArray, Record, tok

MantissaType(a) ==
  IF a.fn \in Fractions THEN "INT64" ELSE IF a.arg.neg THEN "NEGBIGNUM" ELSE "POSBIGNUM"

\* The types of a mantissa and an exponent.
LEMMA FractionArgs ==
  ASSUME NEW a, IsAdd(a), a.fn \in FractionAdders
  PROVE  /\ a.arg.exp \in INT_MIN..INT_MAX
         /\ a.fn \in Fractions => a.arg.mant \in INT_MIN..INT_MAX
         /\ a.fn \in BigFractions => a.arg.neg \in BOOLEAN /\ a.arg.mant \in Bytes
         /\ a.fn \in Fractions <=> a.fn \notin BigFractions
<1> DEFINE R == [mant : INT_MIN..INT_MAX, exp : INT_MIN..INT_MAX]
           B == [mant : Seq(0..(BYTE - 1)), neg : BOOLEAN, exp : INT_MIN..INT_MAX]
<1>1. a.fn \in Fractions => a.arg \in R
  BY DEF IsAdd, StringAdders, ArgumentsOf, Fractions
<1>2. a.fn \in BigFractions => a.arg \in B
  BY DEF IsAdd, StringAdders, ArgumentsOf, BigFractions
<1>3. a.fn \in Fractions <=> a.fn \notin BigFractions
  BY DEF FractionAdders, Fractions, BigFractions
<1> QED BY <1>1, <1>2, <1>3 DEF Bytes

\* The mantissa that is read is the one that was written.
LEMMA MantissaIs ==
  ASSUME NEW a, IsAdd(a), a.fn \in FractionAdders, NEW s, FewTags(s), NEW p, NEW l, Block(s, p, a, l)
  PROVE  MantissaContent(s, p + 2) = Record("SUCCESS", MantissaType(a), a.arg.mant, <<>>, 2, p + 3)
<1> DEFINE q == p + 2
           m == a.arg.mant
           it == GetNextMapOrArray(s, q)
<1>0. q \in Nat /\ q >= 1 /\ q <= Len(s) /\ s[q] = MantissaToken(a) /\ q + 1 = p + 3
  BY DEF Block, FewTags
<1>1. MantissaContent(s, q) = UpToUnknown(MantissaOf(it, Len(it.tags)))
  <2>1. Len(it.tags) \in 0..2
    <3> HIDE DEF q
    <3> QED BY <1>0, NextIsItem
  <2> HIDE DEF q
  <2> QED BY <2>1, MantissaFold
<1> HIDE DEF q, it, m
<1> DEFINE R(t, g) == Record("SUCCESS", t, m, g, 2, q + 1)
<1>2. \A t, g : LET r == R(t, g) IN IsItem(r) /\ r.err = "SUCCESS" /\ r.type = t /\ r.val = m /\ r.tags = g
                                   /\ r.lev = 2 /\ r.at = q + 1
  BY <1>0, RecordFields
<1>3. \A t, g : UpToUnknown(R(t, g)) = R(t, g)
  <2> HIDE DEF R
  <2> QED BY <1>2 DEF UpToUnknown
<1>4. CASE a.fn \in Fractions
  <2>1. m \in INT_MIN..INT_MAX /\ MantissaToken(a) = InnerToken(<<>>, "int", m) /\ MantissaType(a) = "INT64"
    BY <1>4, FractionArgs DEF MantissaToken, MantissaType, m
  <2>2. it = R("INT64", <<>>)
    BY <1>0, <2>1, InnerIs DEF it
  <2>3. Len(<<>>) = 0
    OBVIOUS
  <2> HIDE DEF R
  <2>4. MantissaOf(it, Len(it.tags)) = R("INT64", <<>>)
    BY <1>2, <2>2, <2>3 DEF MantissaOf
  <2>5. MantissaContent(s, q) = R(MantissaType(a), <<>>)
    BY <1>1, <1>3, <2>1, <2>4
  <2> QED BY <1>0, <2>5 DEF R, m, q
<1>5. CASE a.fn \in BigFractions
  <2> DEFINE k == IF a.arg.neg THEN 3 ELSE 2
             g == <<k>>
             T == MantissaType(a)
             i == R("BYTE_STRING", g)
  <2>1. a.fn \notin Fractions /\ a.arg.neg \in BOOLEAN
    BY <1>5, FractionArgs
  <2>2. MantissaToken(a) = InnerToken(g, "bytes", m)
    BY <2>1 DEF MantissaToken, m
  <2>3. Len(g) = 1 /\ g[1] = k /\ Tail(g) = <<>>
    OBVIOUS
  <2>4. k \notin {4, 5} /\ \E x \in StringTagMap : x.tag = k /\ x.type = T /\ x.of = "BYTE_STRING"
    BY <2>1 DEF MantissaType, StringTagMap
  <2> HIDE DEF k, g, T
  <2>5. it = R("BYTE_STRING", g)
    BY <1>0, <2>2, InnerIs DEF it
  <2>6. IsItem(i) /\ i.err = "SUCCESS" /\ i.type = "BYTE_STRING" /\ i.val = m /\ i.tags = g /\ i.lev = 2
        /\ i.at = q + 1
    BY <1>2
  <2> DEFINE u == R(T, g)
  <2>7. IsItem(u) /\ u.err = "SUCCESS" /\ u.type = T /\ u.val = m /\ u.tags = g /\ u.lev = 2
        /\ u.at = q + 1
    BY <1>2
  <2>8. AsType(i, T) = u
    <3> HIDE DEF i
    <3> QED BY <2>6, Changed
  <2>9. ShiftTags(u) = R(T, <<>>)
    <3> HIDE DEF u
    <3> QED BY <2>3, <2>7, OtherChanges
  <2> HIDE DEF u, i, R
  <2>10. ProcessTag(i, k) = u
    BY <2>4, <2>6, <2>8, StringTagIs
  <2>11. MantissaTag(i, k) = R(T, <<>>)
    BY <2>4, <2>6, <2>9, <2>10 DEF MantissaTag
  <2>12. it = i
    BY <2>5 DEF i
  <2>13. MantissaOf(it, Len(it.tags)) = R(T, <<>>)
    BY <2>3, <2>6, <2>11, <2>12 DEF MantissaOf
  <2>14. MantissaContent(s, q) = R(T, <<>>)
    BY <1>1, <1>3, <2>13
  <2> QED BY <1>0, <2>14 DEF R, T, m, q
<1> QED BY <1>4, <1>5 DEF FractionAdders

\* The array of a fraction that was added, with whatever tags.
LEMMA FractionItemIs ==
  ASSUME NEW a, IsAdd(a), a.fn \in FractionAdders, NEW s, FewTags(s), NEW p, NEW l,
         Block(s, p, a, l), NEW g, NEW it, it = Record("SUCCESS", "ARRAY", 2, g, 1, p + 1),
         NEW b, b = IF 4 \in ToSet(g) THEN "DECIMAL_FRACTION" ELSE "BIGFLOAT"
  PROVE  MantissaAndExponent(s, it, it.at)
           = Record("SUCCESS", FractionType(b, MantissaType(a)), [mant |-> a.arg.mant, exp |-> a.arg.exp],
                    g, 1, p + 3)
<1> DEFINE base == IF 4 \in ToSet(it.tags) THEN "DECIMAL_FRACTION" ELSE "BIGFLOAT"
           q == p + 1
           x == a.arg.exp
           M == MantissaType(a)
           e == Record("SUCCESS", "INT64", x, <<>>, 2, q + 1)
           m == Record("SUCCESS", M, a.arg.mant, <<>>, 2, q + 2)
           v == [mant |-> a.arg.mant, exp |-> x]
           T == FractionType(b, M)
<1>0. q \in Nat /\ q >= 1 /\ q <= Len(s) /\ s[q] = InnerToken(<<>>, "int", x) /\ q + 1 = p + 2 /\ q + 2 = p + 3
  BY DEF Block, FewTags
<1>1. IsItem(it) /\ it.err = "SUCCESS" /\ it.type = "ARRAY" /\ it.tags = g /\ it.lev = 1 /\ it.at = q
  BY <1>0, RecordFields
<1>2. base = b
  BY <1>1
<1>3. x \in INT_MIN..INT_MAX
  BY FractionArgs
<1>4. GetNextMapOrArray(s, q) = e
  <2> HIDE DEF q, x
  <2> QED BY <1>0, <1>3, InnerIs
<1>5. MantissaContent(s, q + 1) = m
  <2>1. MantissaContent(s, p + 2) = Record("SUCCESS", MantissaType(a), a.arg.mant, <<>>, 2, p + 3)
    BY MantissaIs
  <2> QED BY <1>0, <2>1
<1>6. e.err = "SUCCESS" /\ e.type = "INT64" /\ e.val = x /\ e.lev = 2 /\ e.at = q + 1
  BY RecordFields
<1>7. m.err = "SUCCESS" /\ m.type = M /\ m.val = a.arg.mant /\ m.lev = 2 /\ m.at = q + 2
  BY RecordFields
<1>8. M \in {"INT64", "POSBIGNUM", "NEGBIGNUM"} /\ FractionType(b, M) = T
  BY DEF MantissaType
<1>9. NextNestLevel(s, q + 2) = 1
  <2>1. q + 2 > Len(s) \/ s[q + 2].lev = 1
    BY <1>0 DEF Block, FewTags
  <2> HIDE DEF q
  <2> QED BY <2>1 DEF NextNestLevel
<1>10. MantissaAndExponent(s, it, it.at) = MantissaAndExponentOf(s, it, b, e)
  <2> HIDE DEF e, base, q
  <2> QED BY <1>1, <1>2, <1>4 DEF MantissaAndExponent, base
<1>11. MantissaAndExponentOf(s, it, b, e) = WithMantissa(s, it, b, x, m)
  <2> HIDE DEF e, q, m, x
  <2>1. it.lev + 1 = 2
    BY <1>1
  <2> QED BY <1>5, <1>6, <2>1 DEF MantissaAndExponentOf
<1>12. WithMantissa(s, it, b, x, m) = [it EXCEPT !.type = T, !.val = v, !.at = q + 2]
  <2> HIDE DEF q, m, x, M, T
  <2>1. it.lev + 1 = 2
    BY <1>1
  <2>2. m.err = "SUCCESS" /\ m.lev = it.lev + 1 /\ m.type \in {"INT64", "POSBIGNUM", "NEGBIGNUM"}
        /\ NextNestLevel(s, m.at) # it.lev + 1
    BY <1>7, <1>8, <1>9, <2>1
  <2>3. WithMantissa(s, it, b, x, m)
          = [it EXCEPT !.type = FractionType(b, m.type), !.val = [mant |-> m.val, exp |-> x], !.at = m.at]
    BY ONLY <2>2 DEF WithMantissa
  <2>4. FractionType(b, m.type) = T /\ [mant |-> m.val, exp |-> x] = v /\ m.at = q + 2
    BY <1>7, <1>8
  <2> HIDE DEF v
  <2> QED BY <2>3, <2>4
<1>13. [it EXCEPT !.type = T, !.val = v, !.at = q + 2] = Record("SUCCESS", T, v, g, 1, q + 2)
  <2> DEFINE u == Record("SUCCESS", "ARRAY", 2, g, 1, q)
  <2>1. it = u
    OBVIOUS
  <2> HIDE DEF T, v, q
  <2>2. [u EXCEPT !.type = T, !.val = v, !.at = q + 2] = [[[u EXCEPT !.type = T] EXCEPT !.val = v] EXCEPT !.at = q + 2]
    OBVIOUS
  <2>3. [u EXCEPT !.type = T] = Record("SUCCESS", T, 2, g, 1, q)
    BY DEF Record
  <2>4. [Record("SUCCESS", T, 2, g, 1, q) EXCEPT !.val = v] = Record("SUCCESS", T, v, g, 1, q)
    BY DEF Record
  <2>5. [Record("SUCCESS", T, v, g, 1, q) EXCEPT !.at = q + 2] = Record("SUCCESS", T, v, g, 1, q + 2)
    BY DEF Record
  <2> HIDE DEF u
  <2>6. [u EXCEPT !.type = T, !.val = v, !.at = q + 2] = Record("SUCCESS", T, v, g, 1, q + 2)
    BY <2>2, <2>3, <2>4, <2>5
  <2> QED BY <2>1, <2>6
<1> HIDE DEF e, m, T, v, x, M, base
<1>15. MantissaAndExponent(s, it, it.at) = Record("SUCCESS", T, v, g, 1, q + 2)
  BY <1>10, <1>11, <1>12, <1>13
<1> QED BY <1>0, <1>15 DEF T, M, v, x, q

\* The tag of a fraction.
LEMMA FractionTagIs ==
  ASSUME NEW a, IsAdd(a), a.fn \in FractionAdders, a.tag, NEW s, FewTags(s), NEW p, NEW l,
         Block(s, p, a, l), NEW it, it = Record("SUCCESS", "ARRAY", 2, TagsOf(a), 1, p + 1)
  PROVE  MantissaAndExponent(s, it, it.at)
           = Record("SUCCESS", TaggedType(a), ItemValue(a), TagsOf(a), 1, p + 3)
<1> DEFINE b == IF BaseOf(a) = 10 THEN "DECIMAL_FRACTION" ELSE "BIGFLOAT"
           t == TagNumber(a.fn)
           u == UnknownTag
           g == TagsOf(a)
<1>1. b = IF 4 \in ToSet(g) THEN "DECIMAL_FRACTION" ELSE "BIGFLOAT"
  <2>1. t = IF BaseOf(a) = 10 THEN 4 ELSE 5
    BY DEF TagNumber, BaseOf, FractionAdders, Fractions, BigFractions
  <2>2. u # 4
    BY TagAssumption
  <2>3. g = IF a.extra THEN <<t, u>> ELSE <<t>>
    BY TagsAre
  <2>4. ToSet(<<t, u>>) = {t, u} /\ ToSet(<<t>>) = {t}
    <3> HIDE DEF t, u
    <3> QED BY DEF ToSet
  <2> HIDE DEF g
  <2> QED BY <2>1, <2>2, <2>3, <2>4
<1>2. FractionType(b, MantissaType(a)) = TaggedType(a)
  <2>1. a.fn \in BigFractions => a.arg.neg \in BOOLEAN
    BY FractionArgs
  <2> QED BY <2>1 DEF MantissaType, FractionType, TaggedType, BaseOf, FractionAdders, Fractions, BigFractions
<1>3. ItemValue(a) = [mant |-> a.arg.mant, exp |-> a.arg.exp]
  BY DEF ItemValue
<1> HIDE DEF b, g
<1>4. MantissaAndExponent(s, it, it.at)
        = Record("SUCCESS", FractionType(b, MantissaType(a)), [mant |-> a.arg.mant, exp |-> a.arg.exp],
                 g, 1, p + 3)
  BY <1>1, FractionItemIs DEF g
<1> QED BY <1>2, <1>3, <1>4 DEF g

\* The tags of an addition, but the one around it.
LEMMA TagIsContent ==
  ASSUME NEW a, IsAdd(a), ~TooNegative(a), NEW s, FewTags(s), NEW p, NEW l, Block(s, p, a, l),
         NEW it, it = Record("SUCCESS", PlainType(a), ValueOf(a), TagsOf(a), 1, p + 1), a.tag
  PROVE  ContentTag(s, it, TagNumber(a.fn))
           = Record("SUCCESS", TypeOf(a), ItemValue(a), ExtraTags(a), 1, p + Size(a))
<1> DEFINE T == TypeOf(a)
           v == ItemValue(a)
           g == TagsOf(a)
           t == TagNumber(a.fn)
<1>0. p + 1 \in Nat /\ p + 1 >= 1 /\ p + 3 \in Nat /\ p + 3 >= 1
  BY DEF Block, FewTags
<1>1. IsItem(it) /\ it.err = "SUCCESS" /\ it.type = PlainType(a) /\ it.val = ValueOf(a) /\ it.tags = g
      /\ it.lev = 1 /\ it.at = p + 1
  BY <1>0, RecordFields
<1>2. Tail(g) = ExtraTags(a)
  BY TagsAre
<1>3. T = TaggedType(a)
  BY DEF TypeOf
<1>4. ASSUME NEW q \in Nat, q >= 1
      PROVE  ShiftTags(Record("SUCCESS", T, v, g, 1, q)) = Record("SUCCESS", T, v, ExtraTags(a), 1, q)
  <2> DEFINE r == Record("SUCCESS", T, v, g, 1, q)
  <2> HIDE DEF T, v, g
  <2>1. IsItem(r) /\ r.err = "SUCCESS" /\ r.type = T /\ r.val = v /\ r.tags = g /\ r.lev = 1 /\ r.at = q
    BY <1>4, RecordFields
  <2> HIDE DEF r
  <2>2. ShiftTags(r) = Record("SUCCESS", T, v, Tail(g), 1, q)
    <3>1. ShiftTags(r) = IF r.err = "SUCCESS" THEN Record(r.err, r.type, r.val, Tail(r.tags), r.lev, r.at)
                        ELSE r
      BY <2>1, OtherChanges
    <3> QED BY <2>1, <3>1
  <2> QED BY <1>2, <2>2 DEF r
<1>5. CASE a.fn \in OneToken
  <2>1. t \notin {4, 5} /\ ProcessTag(it, t) = AsType(it, T)
    BY <1>1, <1>3, <1>5, OneTagIs
  <2>2. v = ValueOf(a)
    BY <1>5, AddersAre DEF ItemValue
  <2> HIDE DEF T, v, g, t
  <2>3. AsType(it, T) = Record("SUCCESS", T, v, g, 1, p + 1)
    BY <1>1, <2>2, Changed
  <2>4. ContentTag(s, it, t) = ShiftTags(Record("SUCCESS", T, v, g, 1, p + 1))
    BY <1>1, <2>1, <2>3 DEF ContentTag
  <2>5. ContentTag(s, it, t) = Record("SUCCESS", T, v, ExtraTags(a), 1, p + 1)
    BY <1>0, <1>4, <2>4
  <2>6. Size(a) = 1
    BY <1>5, AddersAre DEF Size
  <2> QED BY <2>5, <2>6 DEF T, v, t
<1>6. CASE a.fn \in FractionAdders
  <2>1. t \in {4, 5}
    BY <1>6 DEF TagNumber, FractionAdders, Fractions, BigFractions
  <2>2. PlainType(a) = "ARRAY" /\ ValueOf(a) = 2
    BY <1>6 DEF PlainType, ValueOf, FractionAdders, Fractions, BigFractions, ByteAdders, TextAdders
  <2>3. MantissaAndExponent(s, it, it.at) = Record("SUCCESS", T, v, g, 1, p + 3)
    <3>1. it = Record("SUCCESS", "ARRAY", 2, TagsOf(a), 1, p + 1)
      BY <2>2
    <3> QED BY <1>3, <1>6, <3>1, FractionTagIs
  <2> HIDE DEF T, v, g, t
  <2>4. ContentTag(s, it, t) = ShiftTags(Record("SUCCESS", T, v, g, 1, p + 3))
    BY <1>1, <2>1, <2>3 DEF ContentTag
  <2>5. ContentTag(s, it, t) = Record("SUCCESS", T, v, ExtraTags(a), 1, p + 3)
    BY <1>0, <1>4, <2>4
  <2>6. Size(a) = 3
    BY <1>6 DEF Size
  <2> QED BY <2>5, <2>6 DEF T, v, t
<1> QED BY <1>5, <1>6, AddersAre

\* What is read where an entry was written, with the cursor behind what was
\* taken for it: a fraction without its tag is only the head of an array.
EntryItem(a, p) ==
  IF TooNegative(a) THEN Record("INT_OVERFLOW", "NONE", 0, <<>>, 0, p + 1)
  ELSE Record("SUCCESS", TypeOf(a), ItemValue(a), ExtraTags(a), 1, p + (IF a.tag THEN Size(a) ELSE 1))

\* Reading the tokens of an addition gives that item.
LEMMA EntryItemIs ==
  ASSUME NEW a, IsAdd(a), NEW s, FewTags(s), NEW p, NEW l, Block(s, p, a, l)
  PROVE  GetNextTagContent(s, p) = EntryItem(a, p)
<1> DEFINE it == GetNextMapOrArray(s, p)
           c  == GetNextTagContent(s, p)
           n  == Len(it.tags)
           u  == UnknownTag
           g  == TagsOf(a)
           x  == ExtraTags(a)
<1>0. p \in Nat /\ p >= 1 /\ p + 1 \in Nat /\ p + 1 >= 1
  BY DEF Block, FewTags
<1>2. c = UpToUnknown(ContentOf(s, it, n))
  <2>1. n \in 0..2
    BY <1>0, NextIsItem
  <2> QED BY <2>1, ContentFold
<1>3. CASE TooNegative(a)
  <2> DEFINE b == Record("INT_OVERFLOW", "NONE", 0, <<>>, 0, p + 1)
  <2>1. it = Bad("INT_OVERFLOW", p + 1)
    BY <1>3, FirstIs
  <2>2. Bad("INT_OVERFLOW", p + 1) = b
    BY DEF Bad, Record
  <2>3. b.tags = <<>> /\ b.err = "INT_OVERFLOW" /\ Len(<<>>) = 0
    BY RecordFields
  <2> HIDE DEF b, it
  <2>4. c = b
    BY <1>2, <2>1, <2>2, <2>3 DEF ContentOf, UpToUnknown
  <2> HIDE DEF c
  <2> QED BY <1>3, <2>4 DEF EntryItem, c, b
<1>4. CASE ~TooNegative(a)
  <2> DEFINE P == PlainType(a)
             w == ValueOf(a)
             T == TypeOf(a)
             v == ItemValue(a)
             t == TagNumber(a.fn)
             q == p + (IF a.tag THEN Size(a) ELSE 1)
             R(e) == Record(e, T, v, x, 1, q)
  <2>0. q \in Nat /\ q >= 1
    BY <1>0 DEF Size
  <2>1. it = Record("SUCCESS", P, w, g, 1, p + 1)
    BY <1>4, FirstIs
  <2>2. a.tag \in BOOLEAN /\ a.extra \in BOOLEAN
    BY DEF IsAdd
  <2>3. u \notin {1, 4, 5, 36, 100, 257} /\ \A m \in StringTagMap : m.tag # u
    BY TagAssumption
  <2>4. a.tag => ContentTag(s, it, t) = R("SUCCESS")
    BY <1>4, <2>1, TagIsContent
  <2>5. ~a.tag => it = R("SUCCESS")
    BY <2>1, TagsAre DEF TypeOf, ItemValue
  <2>6. x = IF a.extra THEN <<u>> ELSE <<>>
    BY DEF ExtraTags
  <2>7. g = IF a.tag THEN IF a.extra THEN <<t, u>> ELSE <<t>> ELSE x
    BY TagsAre
  <2>8. Len(<<t, u>>) = 2 /\ Len(<<t>>) = 1 /\ Len(<<u>>) = 1 /\ Len(<<>>) = 0
        /\ <<t, u>>[1] = t /\ <<t, u>>[2] = u /\ <<t>>[1] = t /\ <<u>>[1] = u
    <3> HIDE DEF t, u
    <3> QED OBVIOUS
  <2>9. it.tags = g
    BY <2>1, RecordFields
  <2> HIDE DEF P, w, T, v, t, u, g, x, it, R, q
  <2>10. ASSUME NEW e
         PROVE  LET r == R(e) IN IsItem(r) /\ r.err = e /\ r.type = T /\ r.val = v /\ r.tags = x
                                 /\ r.lev = 1 /\ r.at = q
    BY <2>0, RecordFields DEF R
  <2>11. ContentTag(s, R("SUCCESS"), u) = R("UNSUPPORTED")
    <3> DEFINE r == R("SUCCESS")
               y == R("UNSUPPORTED")
    <3>1. IsItem(r) /\ r.err = "SUCCESS" /\ r.type = T /\ r.val = v /\ r.tags = x /\ r.lev = 1 /\ r.at = q
      BY <2>10
    <3>2. IsItem(y) /\ y.err = "UNSUPPORTED"
      BY <2>10
    <3>3. AsError(r, "UNSUPPORTED") = y
      <4> HIDE DEF r
      <4>1. AsError(r, "UNSUPPORTED") = Record("UNSUPPORTED", r.type, r.val, r.tags, r.lev, r.at)
        BY <3>1, Changed
      <4> QED BY <3>1, <4>1 DEF R
    <3> HIDE DEF r, y
    <3>4. ProcessTag(r, u) = y
      BY <2>3, <3>3 DEF ProcessTag, ProcessTaggedString
    <3>5. ShiftTags(y) = y
      BY <3>2 DEF ShiftTags
    <3>6. ContentTag(s, r, u) = y
      BY <2>3, <3>1, <3>4, <3>5 DEF ContentTag
    <3> QED BY <3>6 DEF r, y
  <2>12. ContentOf(s, it, n) = R(IF a.extra THEN "UNSUPPORTED" ELSE "SUCCESS")
    <3>1. CASE a.tag
      <4>1. ContentTag(s, it, t) = R("SUCCESS")
        BY <2>4, <3>1
      <4>2. CASE a.extra
        <5>1. g = <<t, u>> /\ n = 2 /\ it.tags[1] = t /\ it.tags[2] = u
          BY <2>7, <2>8, <2>9, <3>1, <4>2
        <5>2. ContentOf(s, it, n) = ContentTag(s, ContentTag(s, it, t), u)
          BY <5>1 DEF ContentOf
        <5> QED BY <2>11, <4>1, <4>2, <5>2
      <4>3. CASE ~a.extra
        <5>1. g = <<t>> /\ n = 1 /\ it.tags[1] = t
          BY <2>7, <2>8, <2>9, <3>1, <4>3
        <5>2. ContentOf(s, it, n) = ContentTag(s, it, t)
          BY <5>1 DEF ContentOf
        <5> QED BY <4>1, <4>3, <5>2
      <4> QED BY <2>2, <4>2, <4>3
    <3>2. CASE ~a.tag
      <4>1. it = R("SUCCESS")
        BY <2>5, <3>2
      <4>2. CASE a.extra
        <5>1. g = <<u>> /\ n = 1 /\ it.tags[1] = u
          BY <2>6, <2>7, <2>8, <2>9, <3>2, <4>2
        <5>2. ContentOf(s, it, n) = ContentTag(s, it, u)
          BY <5>1 DEF ContentOf
        <5> QED BY <2>11, <4>1, <4>2, <5>2
      <4>3. CASE ~a.extra
        <5>1. g = <<>> /\ n = 0
          BY <2>6, <2>7, <2>8, <2>9, <3>2, <4>3
        <5>2. ContentOf(s, it, n) = it
          BY <5>1 DEF ContentOf
        <5> QED BY <4>1, <4>3, <5>2
      <4> QED BY <2>2, <4>2, <4>3
    <3> QED BY <2>2, <3>1, <3>2
  <2>13. c = R("SUCCESS")
    <3>1. CASE a.extra
      <4> DEFINE r == R("UNSUPPORTED")
      <4>1. IsItem(r) /\ r.err = "UNSUPPORTED" /\ r.type = T /\ r.val = v /\ r.tags = x /\ r.lev = 1 /\ r.at = q
        BY <2>10
      <4> HIDE DEF r
      <4>2. AsError(r, "SUCCESS") = Record("SUCCESS", r.type, r.val, r.tags, r.lev, r.at)
        BY <4>1, Changed
      <4>3. UpToUnknown(r) = R("SUCCESS")
        BY <4>1, <4>2 DEF UpToUnknown, R
      <4> QED BY <1>2, <2>12, <3>1, <4>3 DEF r
    <3>2. CASE ~a.extra
      <4> DEFINE r == R("SUCCESS")
      <4>1. r.err = "SUCCESS"
        BY <2>10
      <4> HIDE DEF r
      <4>2. UpToUnknown(r) = r
        BY <4>1 DEF UpToUnknown
      <4> QED BY <1>2, <2>12, <3>2, <4>2 DEF r
    <3> QED BY <2>2, <3>1, <3>2
  <2> HIDE DEF c
  <2> QED BY <1>4, <2>13 DEF EntryItem, R, T, v, x, q, c
<1> QED BY <1>3, <1>4

\* What is read of an addition.
IsRead(it, a) ==
  /\ IsItem(it)
  /\ TooNegative(a) => it.err = "INT_OVERFLOW"
  /\ ~TooNegative(a) => /\ it.err = "SUCCESS" /\ it.type = TypeOf(a) /\ it.val = ItemValue(a)
                        /\ it.tags = ExtraTags(a)

\* What is read where an entry was written is that entry.
LEMMA EntryIsRead ==
  ASSUME NEW a, IsAdd(a), NEW s, FewTags(s), NEW p, NEW l, Block(s, p, a, l)
  PROVE  IsRead(GetNextTagContent(s, p), a)
<1> DEFINE c == GetNextTagContent(s, p)
           q == p + (IF a.tag THEN Size(a) ELSE 1)
<1>1. c = EntryItem(a, p)
  BY EntryItemIs
<1>2. p \in Nat /\ p + 1 \in Nat /\ p + 1 >= 1 /\ q \in Nat /\ q >= 1
  BY DEF Block, FewTags, Size
<1> HIDE DEF c, q
<1>3. CASE TooNegative(a)
  <2> DEFINE e == <<>>
  <2>1. e \in [1..0 -> {}] /\ c = Record("INT_OVERFLOW", "NONE", 0, e, 0, p + 1)
    BY <1>1, <1>3 DEF EntryItem
  <2> HIDE DEF e
  <2>2. IsItem(c) /\ c.err = "INT_OVERFLOW"
    BY <1>2, <2>1, RecordFields
  <2> QED BY <1>3, <2>2 DEF IsRead, c
<1>4. CASE ~TooNegative(a)
  <2> DEFINE T == TypeOf(a)
             v == ItemValue(a)
             x == ExtraTags(a)
  <2>1. c = Record("SUCCESS", T, v, x, 1, q)
    BY <1>1, <1>4 DEF EntryItem, q
  <2> HIDE DEF T, v, x
  <2>2. IsItem(c) /\ c.err = "SUCCESS" /\ c.type = T /\ c.val = v /\ c.tags = x
    BY <1>2, <2>1, RecordFields
  <2> QED BY <1>4, <2>2 DEF IsRead, T, v, x, c
<1> QED BY <1>3, <1>4

-----------------------------------------------------------------------------
(* The invariant                                                            *)

\* What is added and the tokens are sequences.
Sequences ==
  /\ Len(in) \in Nat /\ in = [j \in 1..Len(in) |-> in[j]]
  /\ Len(added) \in 0..Len(Labels) /\ added = [i \in 1..Len(added) |-> added[i]]

\* The tokens of everything added are in the input, where the history has them.
Entries ==
  \A i \in 1..Len(added) : IsAdd(added[i]) /\ Block(in, added[i].at, added[i], Labels[i])

\* A token with a label is the first one of something added.
Marks == \A j \in 1..Len(in) : in[j].label # "none" => \E i \in 1..Len(added) : j = added[i].at

\* They follow on each other, up to the end.
InRow == \A i \in 1..Len(added) : added[i].at + Size(added[i]) = Behind(i)

\* Nothing is read before everything is written.
Begun == pos \in Nat /\ (pos = 0 => last = NoCall)

Writing == Sequences /\ FewTags(in) /\ Entries /\ Marks /\ InRow

\* One function behind another.
Joined(z, s, m, w, n) ==
  /\ Len(z) = m + n /\ z = [j \in 1..(m + n) |-> z[j]]
  /\ \A j \in 1..m : z[j] = s[j]
  /\ \A j \in 1..n : z[m + j] = w[j]

\* What a joined sequence has at each place.
LEMMA JoinedIs ==
  ASSUME NEW s, NEW w, NEW m \in Nat, NEW n \in Nat, s = [j \in 1..m |-> s[j]], w = [j \in 1..n |-> w[j]]
  PROVE  Joined(s \o w, s, m, w, n)
<1> DEFINE T == {s[j] : j \in 1..m} \cup {w[j] : j \in 1..n}
           z == Join(s, w)
<1>1. s \in Seq(T) /\ Len(s) = m
  <2>1. s \in [1..m -> T]
    OBVIOUS
  <2> HIDE DEF T
  <2> QED BY <2>1
<1>2. w \in Seq(T) /\ Len(w) = n
  <2>1. w \in [1..n -> T]
    OBVIOUS
  <2> HIDE DEF T
  <2> QED BY <2>1
<1> HIDE DEF T, z
<1>3. z \in Seq(T) /\ Len(z) = m + n
  <2>1. Join(s, w) \in Seq(T) /\ Len(Join(s, w)) = Len(s) + Len(w)
    BY <1>1, <1>2, JoinTwo
  <2> QED BY <1>1, <1>2, <2>1 DEF z
<1>4. \A j \in 1..(m + n) : z[j] = IF j <= m THEN s[j] ELSE w[j - m]
  <2>1. \A j \in 1..(Len(s) + Len(w)) : Join(s, w)[j] = IF j <= Len(s) THEN s[j] ELSE w[j - Len(s)]
    BY <1>1, <1>2, JoinHas
  <2> QED BY <1>1, <1>2, <2>1 DEF z
<1>5. z = [j \in 1..(m + n) |-> z[j]]
  BY <1>3
<1>6. ASSUME NEW j \in 1..m PROVE z[j] = s[j]
  <2>1. j \in 1..(m + n) /\ j <= m
    OBVIOUS
  <2> QED BY <1>4, <2>1
<1>7. ASSUME NEW j \in 1..n PROVE z[m + j] = w[j]
  <2>1. m + j \in 1..(m + n) /\ ~(m + j <= m) /\ (m + j) - m = j
    OBVIOUS
  <2> QED BY <1>4, <2>1
<1>8. Joined(z, s, m, w, n)
  BY <1>3, <1>5, <1>6, <1>7 DEF Joined
<1> QED BY <1>8 DEF z, Join

LEMMA WritingInit ==
  ASSUME Init
  PROVE  Writing /\ Begun
<1>1. in = <<>> /\ added = <<>> /\ Len(<<>>) = 0 /\ <<>> = [j \in 1..0 |-> <<>>[j]]
  BY DEF Init
<1>2. Len(Labels) \in Nat
  BY ValuesAssumption
<1>3. Sequences
  <2>1. in = [j \in 1..0 |-> in[j]] /\ added = [j \in 1..0 |-> added[j]]
    BY <1>1
  <2> QED BY <1>1, <1>2, <2>1 DEF Sequences
<1>4. FewTags(in) /\ Entries /\ Marks /\ InRow
  BY <1>1 DEF FewTags, Entries, Marks, InRow
<1>5. Begun
  BY DEF Begun, Init
<1> QED BY <1>3, <1>4, <1>5 DEF Writing

LEMMA SizeIs ==
  ASSUME NEW a
  PROVE  Size(a) \in {1, 3} /\ Size(a) \in Nat /\ Size(a) >= 1
BY DEF Size

\* The tokens that are added have few tags, and only the first has a label.
LEMMA WrittenHas ==
  ASSUME NEW a, IsAdd(a), NEW l, NEW w, IsWritten(w, a, l), NEW j \in 1..Size(a)
  PROVE  Len(w[j].tags) \in 0..2 /\ (j # 1 => w[j].label = "none") /\ w[1].lev = 1 /\ w[1].label = l
<1>1. w[1].lev = 1 /\ w[1].label = l /\ w[1].tags = TagsOf(a)
  BY DEF IsWritten, FirstToken
<1>2. Len(TagsOf(a)) \in 0..2
  <2> DEFINE t == TagNumber(a.fn)
             u == UnknownTag
  <2>1. TagsOf(a) \in {<<t, u>>, <<t>>, <<u>>, <<>>}
    BY TagsAre DEF IsAdd, ExtraTags
  <2> HIDE DEF t, u
  <2>2. Len(<<t, u>>) = 2 /\ Len(<<t>>) = 1 /\ Len(<<u>>) = 1 /\ Len(<<>>) = 0
    OBVIOUS
  <2> QED BY <2>1, <2>2
<1>3. CASE j = 1
  BY <1>1, <1>2, <1>3
<1>4. CASE j # 1
  <2>1. j \in {2, 3} /\ a.fn \in FractionAdders
    BY <1>4 DEF Size
  <2>2. w[2] = InnerToken(<<>>, "int", a.arg.exp) /\ w[3] = MantissaToken(a)
    BY <2>1 DEF IsWritten, Inner
  <2>3. w[2].label = "none" /\ w[2].tags = <<>>
    BY <2>2 DEF InnerToken
  <2>4. w[3].label = "none" /\ w[3].tags \in {<<>>, <<2>>, <<3>>}
    BY <2>2 DEF InnerToken, MantissaToken
  <2>5. Len(<<>>) = 0 /\ Len(<<2>>) = 1 /\ Len(<<3>>) = 1
    OBVIOUS
  <2> QED BY <1>1, <2>1, <2>3, <2>4, <2>5
<1> QED BY <1>3, <1>4

\* A block stays where it is when more is written.
LEMMA BlockStays ==
  ASSUME NEW s, NEW m \in Nat, Len(s) = m, NEW w, NEW n \in Nat, n >= 1, NEW z, Joined(z, s, m, w, n),
         w[1].lev = 1, NEW p, NEW a, NEW l, Block(s, p, a, l)
  PROVE  Block(z, p, a, l)
<1>1. p \in 1..m /\ p \in 1..Len(z) /\ z[p] = s[p] /\ s[p] = FirstToken(a, l) /\ Len(z) = m + n
  BY DEF Block, Joined
<1>2. ASSUME a.fn \in FractionAdders
      PROVE  /\ p + 2 <= Len(z) /\ z[p + 1] = s[p + 1] /\ z[p + 2] = s[p + 2]
             /\ p + 3 <= Len(z) => z[p + 3].lev = 1
  <2>1. p + 2 <= m
    BY <1>2 DEF Block
  <2>2. p + 1 \in 1..m /\ p + 2 \in 1..m
    BY <1>1, <2>1
  <2>5. z[p + 1] = s[p + 1] /\ z[p + 2] = s[p + 2] /\ p + 2 <= Len(z)
    <3>1. \A j \in 1..m : z[j] = s[j]
      BY DEF Joined
    <3>2. p + 2 <= m + n
      BY <1>1, <2>1
    <3> QED BY <1>1, <2>2, <3>1, <3>2
  <2>3. CASE p + 3 <= m
    <3>1. p + 3 \in 1..m /\ s[p + 3].lev = 1
      BY <1>1, <1>2, <2>3 DEF Block
    <3>2. z[p + 3] = s[p + 3]
      BY <3>1 DEF Joined
    <3> QED BY <2>5, <3>1, <3>2
  <2>4. CASE ~(p + 3 <= m)
    <3>1. p + 3 = m + 1 /\ 1 \in 1..n
      BY <1>1, <2>1, <2>4
    <3>2. z[m + 1] = w[1]
      BY <3>1 DEF Joined
    <3> QED BY <2>5, <3>1, <3>2
  <2> QED BY <2>3, <2>4
<1> QED BY <1>1, <1>2 DEF Block

\* What is written makes a block.
LEMMA BlockBegins ==
  ASSUME NEW s, NEW m \in Nat, NEW a, NEW l, NEW w, IsWritten(w, a, l),
         NEW z, Joined(z, s, m, w, Size(a))
  PROVE  Block(z, m + 1, a, l)
<1>1. Size(a) \in Nat /\ Size(a) >= 1 /\ Len(z) = m + Size(a)
  BY SizeIs DEF Joined
<1>2. m + 1 \in 1..Len(z) /\ z[m + 1] = w[1]
  <2>1. 1 \in 1..Size(a) /\ m + 1 \in 1..(m + Size(a))
    BY <1>1
  <2>2. \A j \in 1..Size(a) : z[m + j] = w[j]
    BY DEF Joined
  <2> QED BY <1>1, <2>1, <2>2
<1>3. w[1] = FirstToken(a, l)
  BY DEF IsWritten
<1>4. ASSUME a.fn \in FractionAdders
      PROVE  /\ (m + 1) + 2 <= Len(z) /\ ~((m + 1) + 3 <= Len(z))
             /\ z[(m + 1) + 1] = InnerToken(<<>>, "int", a.arg.exp)
             /\ z[(m + 1) + 2] = MantissaToken(a)
  <2>1. Size(a) = 3
    BY <1>4 DEF Size
  <2>2. Len(z) = m + 3 /\ (m + 1) + 1 = m + 2 /\ (m + 1) + 2 = m + 3 /\ (m + 1) + 3 = m + 4
    BY <1>1, <2>1
  <2>3. z[m + 2] = w[2] /\ z[m + 3] = w[3]
    BY <2>1 DEF Joined
  <2>4. w[2] = InnerToken(<<>>, "int", a.arg.exp) /\ w[3] = MantissaToken(a)
    BY <1>4 DEF IsWritten, Inner
  <2> QED BY <2>2, <2>3, <2>4
<1> QED BY <1>2, <1>3, <1>4 DEF Block

\* The history has what is needed of an addition.
LEMMA SameAdd ==
  ASSUME NEW a, NEW e, e.fn = a.fn, e.arg = a.arg, e.tag = a.tag, e.extra = a.extra, NEW w, NEW l
  PROVE  /\ IsAdd(a) => IsAdd(e)
         /\ IsWritten(w, a, l) => IsWritten(w, e, l)
<1>1. IsAdd(a) => IsAdd(e)
  BY DEF IsAdd
<1>2. Size(e) = Size(a)
  BY DEF Size
<1>3. KindOf(e) = KindOf(a) /\ ValueOf(e) = ValueOf(a)
  BY Zenon DEF KindOf, ValueOf
<1>4. TagsOf(e) = TagsOf(a)
  BY DEF TagsOf, ExtraTags
<1>5. FirstToken(e, l) = FirstToken(a, l)
  BY <1>3, <1>4 DEF FirstToken
<1>6. MantissaToken(e) = MantissaToken(a)
  BY DEF MantissaToken
<1> QED BY <1>1, <1>2, <1>5, <1>6 DEF IsWritten, Inner

\* An entry added behind the others leaves them where they are.
LEMMA AddKeeps ==
  ASSUME Writing, Begun, NEW a \in Adds \cup MoreAdds, Add(a)
  PROVE  Writing' /\ Begun'
<1> DEFINE k == Len(added)
           m == Len(in)
           l == Labels[k + 1]
           w == Written(a, l)
           n == Size(a)
           e == [fn |-> a.fn, arg |-> a.arg, tag |-> a.tag, extra |-> a.extra, at |-> m + 1]
<1>1. /\ in' = in \o w /\ added' = Append(added, e) /\ pos' = pos /\ last' = last
      /\ k < Len(Labels)
  BY DEF Add
<1>2. k \in Nat /\ m \in Nat /\ in = [j \in 1..m |-> in[j]] /\ added = [i \in 1..k |-> added[i]]
      /\ Len(Labels) \in Nat
  BY ValuesAssumption DEF Writing, Sequences
<1>3. IsAdd(a)
  BY AddsAssumption DEF IsAdd
<1>4. IsWritten(w, a, l)
  BY <1>3, WrittenIs
<1>5. n \in Nat /\ n >= 1
  BY SizeIs
<1>6. IsAdd(e) /\ IsWritten(w, e, l) /\ e.at = m + 1 /\ Size(e) = n
  <2>1. e.fn = a.fn /\ e.arg = a.arg /\ e.tag = a.tag /\ e.extra = a.extra /\ e.at = m + 1
    OBVIOUS
  <2>2. Size(e) = Size(a)
    BY DEF Size
  <2> HIDE DEF e, w, l
  <2> QED BY <1>3, <1>4, <2>1, <2>2, SameAdd
<1> HIDE DEF l, e, w, n, m, k
<1>7. Joined(in', in, m, w, n)
  <2>1. w = [j \in 1..n |-> w[j]]
    BY <1>4 DEF IsWritten, n
  <2>2. Joined(in \o w, in, m, w, n)
    BY <1>2, <1>5, <2>1, JoinedIs
  <2> QED BY <1>1, <2>2
<1>8. /\ Len(added') = k + 1 /\ added' = [i \in 1..(k + 1) |-> added'[i]]
      /\ (\A i \in 1..k : added'[i] = added[i]) /\ added'[k + 1] = e
  <2> DEFINE y == <<e>>
  <2>1. y = [j \in 1..1 |-> y[j]] /\ y[1] = e
    OBVIOUS
  <2> HIDE DEF y
  <2>2. Joined(added \o y, added, k, y, 1)
    <3>1. 1 \in Nat
      OBVIOUS
    <3> QED BY <1>2, <2>1, <3>1, JoinedIs
  <2>3. Append(added, e) = added \o y
    <3> DEFINE T == {added[i] : i \in 1..k} \cup {e}
    <3>1. added \in [1..k -> T] /\ e \in T
      BY <1>2
    <3> HIDE DEF T
    <3>2. added \in Seq(T)
      BY <1>2, <3>1
    <3> QED BY <3>1, <3>2, AppendIsConcat DEF y
  <2>4. Joined(added', added, k, y, 1)
    BY <1>1, <2>2, <2>3
  <2> QED BY <2>1, <2>4 DEF Joined
<1>9. Len(in') = m + n /\ m + n \in Nat /\ w[1].lev = 1 /\ w[1].label = l /\ Len(in) = m /\ Len(added) = k
  <2>1. 1 \in 1..Size(a)
    BY <1>5 DEF n
  <2>2. w[1].lev = 1 /\ w[1].label = l
    BY <1>3, <1>4, <2>1, WrittenHas
  <2> QED BY <1>2, <1>5, <1>7, <2>2 DEF Joined, m, k
<1>10. Sequences'
  <2>1. in' = [j \in 1..(m + n) |-> in'[j]]
    BY <1>7 DEF Joined
  <2>2. k + 1 \in 0..Len(Labels)
    BY <1>1, <1>2
  <2> QED BY <1>8, <1>9, <2>1, <2>2 DEF Sequences
<1>11. ASSUME NEW j \in 1..(m + n)
       PROVE  \/ j \in 1..m /\ in'[j] = in[j]
              \/ \E i \in 1..n : j = m + i /\ in'[j] = w[i]
  <2>1. CASE j <= m
    <3>1. j \in 1..m
      BY <1>2, <2>1
    <3> QED BY <1>7, <3>1 DEF Joined
  <2>2. CASE ~(j <= m)
    <3>1. j - m \in 1..n /\ j = m + (j - m)
      BY <1>2, <1>5, <2>2
    <3>2. in'[m + (j - m)] = w[j - m]
      BY <1>7, <3>1 DEF Joined
    <3> QED BY <3>1, <3>2
  <2> QED BY <2>1, <2>2
<1>12. FewTags(in')
  <2>1. ASSUME NEW j \in 1..(m + n) PROVE Len(in'[j].tags) \in 0..2
    <3>1. \A i \in 1..m : Len(in[i].tags) \in 0..2
      BY <1>9 DEF Writing, FewTags
    <3>2. \A i \in 1..n : Len(w[i].tags) \in 0..2
      BY <1>3, <1>4, WrittenHas DEF n
    <3> QED BY <1>11, <3>1, <3>2
  <2> QED BY <1>9, <2>1 DEF FewTags
<1>13. Marks'
  <2>1. ASSUME NEW j \in 1..(m + n), in'[j].label # "none"
        PROVE  \E i \in 1..(k + 1) : j = added'[i].at
    <3>1. CASE j \in 1..m /\ in'[j] = in[j]
      <4>1. PICK i \in 1..k : j = added[i].at
        BY <1>9, <2>1, <3>1 DEF Writing, Marks
      <4>2. i \in 1..(k + 1) /\ added'[i] = added[i]
        BY <1>2, <1>8
      <4> QED BY <4>1, <4>2
    <3>2. CASE \E i \in 1..n : j = m + i /\ in'[j] = w[i]
      <4>1. PICK i \in 1..n : j = m + i /\ in'[j] = w[i]
        BY <3>2
      <4>2. i = 1
        BY <1>3, <1>4, <2>1, <4>1, WrittenHas DEF n
      <4>3. k + 1 \in 1..(k + 1) /\ added'[k + 1] = e
        BY <1>2, <1>8
      <4> QED BY <1>6, <4>1, <4>2, <4>3
    <3> QED BY <1>11, <3>1, <3>2
  <2> QED BY <1>8, <1>9, <2>1 DEF Marks
<1>14. Entries'
  <2>1. ASSUME NEW i \in 1..(k + 1)
        PROVE  IsAdd(added'[i]) /\ Block(in', added'[i].at, added'[i], Labels[i])
    <3>1. CASE i \in 1..k
      <4>1. added'[i] = added[i]
        BY <1>8, <3>1
      <4>2. IsAdd(added[i]) /\ Block(in, added[i].at, added[i], Labels[i])
        BY <1>9, <3>1 DEF Writing, Entries
      <4>3. Block(in', added[i].at, added[i], Labels[i])
        BY <1>2, <1>5, <1>7, <1>9, <4>2, BlockStays
      <4> QED BY <4>1, <4>2, <4>3
    <3>2. CASE i = k + 1
      <4>1. added'[i] = e /\ Labels[i] = l
        BY <1>8, <3>2 DEF l
      <4>2. Joined(in', in, m, w, Size(e))
        BY <1>6, <1>7
      <4>3. Block(in', m + 1, e, l)
        BY <1>2, <1>6, <4>2, BlockBegins
      <4> QED BY <1>6, <4>1, <4>3
    <3> QED BY <1>2, <3>1, <3>2
  <2> QED BY <1>8, <2>1 DEF Entries
<1>15. Begun'
  BY <1>1 DEF Begun
<1>16. InRow'
  <2>1. ASSUME NEW i \in 1..(k + 1)
        PROVE  added'[i].at + Size(added'[i]) = IF i < k + 1 THEN added'[i + 1].at ELSE (m + n) + 1
    <3>1. CASE i \in 1..(k - 1)
      <4>1. i \in 1..k /\ i + 1 \in 1..k /\ i < k /\ i < k + 1
        BY <1>2, <3>1
      <4>2. added[i].at + Size(added[i]) = added[i + 1].at
        BY <1>9, <4>1 DEF Writing, InRow, Behind
      <4>3. added'[i] = added[i] /\ added'[i + 1] = added[i + 1]
        BY <1>8, <4>1
      <4> QED BY <4>1, <4>2, <4>3
    <3>2. CASE i = k
      <4>1. i \in 1..k /\ ~(i < k) /\ i < k + 1
        BY <1>2, <3>2
      <4>2. added[i].at + Size(added[i]) = m + 1
        BY <1>9, <4>1 DEF Writing, InRow, Behind
      <4>3. added'[i] = added[i] /\ added'[i + 1] = e
        BY <1>8, <3>2, <4>1
      <4> QED BY <1>6, <4>1, <4>2, <4>3
    <3>3. CASE i = k + 1
      <4>1. added'[i] = e /\ ~(i < k + 1)
        BY <1>2, <1>8, <3>3
      <4>2. (m + 1) + n = (m + n) + 1
        BY <1>2, <1>5
      <4> QED BY <1>6, <4>1, <4>2
    <3> QED BY <1>2, <3>1, <3>2, <3>3
  <2> QED BY <1>8, <1>9, <2>1 DEF InRow, Behind
<1> QED BY <1>10, <1>12, <1>13, <1>14, <1>15, <1>16 DEF Writing

-----------------------------------------------------------------------------
(* Reading                                                                  *)

LEMMA BadIsItem ==
  ASSUME NEW e, NEW p \in Nat, p >= 1
  PROVE  IsItem(Bad(e, p))
<1>1. Bad(e, p) = Record(e, "NONE", 0, <<>>, 0, p)
  BY DEF Bad, Record
<1> QED BY <1>1, RecordFields

\* The item of a search is that of the entry, with the cursor behind the map.
LEMMA FoundIs ==
  ASSUME FewTags(in), NEW label, NEW j \in 1..Len(in), Entry(label) = {j}
  PROVE  LET it == GetNextTagContent(in, j)
             f  == GetItemInMap(label)
         IN  /\ IsItem(f) /\ f.err = it.err /\ f.type = it.type /\ f.val = it.val
             /\ f.tags = it.tags
<1> DEFINE it == GetNextTagContent(in, j)
           f  == GetItemInMap(label)
           p  == Len(in) + 1
<1>1. j \in Nat /\ j >= 1 /\ p \in Nat /\ p >= 1
  BY DEF FewTags
<1>2. IsItem(it)
  BY <1>1, ContentIsItem
<1>3. (CHOOSE i \in Entry(label) : TRUE) = j /\ Entry(label) # {}
  BY Zenon
<1> HIDE DEF it, f
<1>4. f = IF it.err = "SUCCESS" THEN [it EXCEPT !.at = p] ELSE it
  BY <1>3 DEF GetItemInMap, f, it
<1> HIDE DEF p
<1> DEFINE r == Record(it.err, it.type, it.val, it.tags, it.lev, p)
<1>5. [it EXCEPT !.at = p] = r
  BY <1>2, OtherChanges
<1>6. IsItem(r) /\ r.err = it.err /\ r.type = it.type /\ r.val = it.val /\ r.tags = it.tags
  BY <1>1, RecordFields
<1> HIDE DEF r
<1>7. IsItem(f) /\ f.err = it.err /\ f.type = it.type /\ f.val = it.val /\ f.tags = it.tags
  BY <1>2, <1>4, <1>5, <1>6
<1> QED BY <1>7 DEF f, it

\* Whatever a call reads is an item.
LEMMA ItemIsItem ==
  ASSUME Writing, pos \in Nat, pos >= 1, NEW c
  PROVE  IsItem(Item(c))
<1>0. FewTags(in) /\ DOMAIN in = 1..Len(in)
  <2>1. DOMAIN in = DOMAIN [j \in 1..Len(in) |-> in[j]]
    BY DEF Writing, Sequences
  <2> QED BY <2>1 DEF Writing
<1>1. IsItem(GetNextTagContent(in, pos))
  BY <1>0, ContentIsItem
<1>2. IsItem(GetItemInMap(c.by))
  <2> DEFINE p == Len(in) + 1
             i == CHOOSE i \in Entry(c.by) : TRUE
             it == GetNextTagContent(in, i)
             r == Record(it.err, it.type, it.val, it.tags, it.lev, p)
  <2>1. p \in Nat /\ p >= 1
    BY <1>0 DEF FewTags
  <2>2. CASE Entry(c.by) = {}
    BY <2>1, <2>2, BadIsItem DEF GetItemInMap
  <2>3. CASE Entry(c.by) # {}
    <3>1. i \in Entry(c.by)
      BY <2>3
    <3> HIDE DEF i
    <3>2. i \in 1..Len(in)
      BY <1>0, <3>1 DEF Entry
    <3>3. i \in Nat /\ i >= 1
      BY <1>0, <3>2 DEF FewTags
    <3>4. IsItem(it)
      BY <1>0, <3>3, ContentIsItem
    <3> HIDE DEF it
    <3>5. GetItemInMap(c.by) = IF it.err = "SUCCESS" THEN [it EXCEPT !.at = p] ELSE it
      BY <2>3 DEF GetItemInMap, it, i
    <3> HIDE DEF p
    <3>6. [it EXCEPT !.at = p] = r
      BY <3>4, OtherChanges
    <3>7. IsItem(r)
      BY <2>1, RecordFields
    <3> QED BY <3>4, <3>5, <3>6, <3>7
  <2> QED BY <2>2, <2>3
<1> QED BY <1>1, <1>2 DEF Item

LEMMA AfterIs ==
  ASSUME FewTags(in), NEW c, NEW it, IsItem(it)
  PROVE  After(c, it) \in Nat /\ After(c, it) >= 1
<1>1. it.at \in Nat /\ it.at >= 1
  BY DEF IsItem
<1>2. IsItem(MantissaAndExponent(in, it, it.at))
  BY <1>1, FractionIsItem
<1>3. \A base : CursorAfter(c, it, base) \in Nat /\ CursorAfter(c, it, base) >= 1
  BY <1>1, <1>2 DEF CursorAfter, IsItem
<1> QED BY <1>1, <1>3 DEF After

\* Calls of getters leave the input alone.
LEMMA GetKeeps ==
  ASSUME Writing, Begun, NEW c, Get(c)
  PROVE  Writing' /\ Begun'
<1>1. in' = in /\ added' = added
  BY DEF Get, Called
<1>2. Writing'
  BY <1>1 DEF Writing, Sequences, FewTags, Entries, Marks, Block, InRow, Behind
<1>3. pos \in Nat /\ pos >= 1
  BY DEF Begun, Get
<1>4. IsItem(Item(c)) /\ FewTags(in)
  BY <1>3, ItemIsItem DEF Writing
<1>5. After(c, Item(c)) \in Nat /\ After(c, Item(c)) >= 1
  BY <1>4, AfterIs
<1>6. pos' \in {pos, After(c, Item(c))}
  BY DEF Get, Called
<1> QED BY <1>2, <1>3, <1>5, <1>6 DEF Begun

LEMMA OtherKeeps ==
  ASSUME Writing, Begun, EnterMap \/ GetAndResetError \/ UNCHANGED vars
  PROVE  Writing' /\ Begun'
<1>1. in' = in /\ added' = added
  BY DEF EnterMap, GetAndResetError, vars
<1>2. Writing'
  BY <1>1 DEF Writing, Sequences, FewTags, Entries, Marks, Block, InRow, Behind
<1>3. Begun'
  BY DEF Begun, EnterMap, GetAndResetError, vars
<1> QED BY <1>2, <1>3

\* r is what call c may give for what was added with a.
Answers(a, c, r) == \E it : IsRead(it, a) /\ r \in Outcomes(c, it)

\* The only entry a call is for is the one whose item it gets.
LEMMA ItemIsEntry ==
  ASSUME Writing, NEW c, NEW i \in 1..Len(added), For(c) = {i}
  PROVE  IsRead(Item(c), added[i])
<1> DEFINE a == added[i]
           p == a.at
<1>0. /\ FewTags(in) /\ DOMAIN in = 1..Len(in) /\ DOMAIN added = 1..Len(added)
  <2>1. DOMAIN in = DOMAIN [j \in 1..Len(in) |-> in[j]]
    BY DEF Writing, Sequences
  <2>2. DOMAIN added = DOMAIN [j \in 1..Len(added) |-> added[j]]
    BY DEF Writing, Sequences
  <2> QED BY <2>1, <2>2 DEF Writing
<1>1. IsAdd(a) /\ Block(in, p, a, Labels[i])
  BY DEF Writing, Entries
<1>2. p \in 1..Len(in) /\ in[p].label = Labels[i]
  BY <1>1 DEF Block, FirstToken
<1> HIDE DEF a, p
<1>3. IsRead(GetNextTagContent(in, p), a)
  BY <1>0, <1>1, EntryIsRead
<1>4. CASE c.by = "next"
  <2>1. p = pos
    BY <1>4 DEF For, p, a
  <2> QED BY <1>3, <1>4, <2>1 DEF Item, a
<1>5. CASE c.by # "next"
  <2>1. For(c) = {k \in 1..Len(added) : in[added[k].at].label = c.by}
    BY <1>0, <1>5 DEF For, LabelOf
  <2>2. c.by = Labels[i]
    BY <1>2, <2>1 DEF p, a
  <2>3. c.by # "none"
    <3>1. Labels[i] \in ToSet(Labels)
      <4>1. i \in 1..Len(Labels) /\ DOMAIN Labels = 1..Len(Labels)
        BY ValuesAssumption DEF Writing, Sequences
      <4> QED BY <4>1 DEF ToSet
    <3> QED BY <2>2, <3>1, ValuesAssumption
  <2>4. Entry(c.by) = {p}
    <3>1. p \in Entry(c.by)
      BY <1>0, <1>2, <2>2 DEF Entry, LabelOf
    <3>2. ASSUME NEW j \in Entry(c.by) PROVE j = p
      <4>1. j \in 1..Len(in) /\ in[j].label = c.by
        BY <1>0 DEF Entry, LabelOf
      <4>2. PICK k \in 1..Len(added) : j = added[k].at
        BY <2>3, <4>1 DEF Writing, Marks
      <4>3. k \in For(c)
        BY <2>1, <4>1, <4>2
      <4> QED BY <4>2, <4>3 DEF p, a
    <3> QED BY <3>1, <3>2
  <2> DEFINE f == GetItemInMap(c.by)
             it == GetNextTagContent(in, p)
  <2>5. IsItem(f) /\ f.err = it.err /\ f.type = it.type /\ f.val = it.val /\ f.tags = it.tags
    BY <1>0, <1>2, <2>4, FoundIs
  <2> HIDE DEF f, it
  <2>6. IsRead(it, a)
    BY <1>3 DEF it
  <2>7. IsRead(f, a)
    BY <2>5, <2>6 DEF IsRead
  <2> QED BY <1>5, <2>7 DEF Item, f, a
<1> QED BY <1>4, <1>5

\* A call that is for one entry answers for the item of that entry.
LEMMA AnswerIs ==
  ASSUME Writing, NEW c, Get(c), NEW i, i \in (DOMAIN added)', IsFor(i)'
  PROVE  /\ i \in 1..Len(added) /\ added' = added
         /\ Answers(added[i], c, last'.result) /\ last'.fn = c.fn /\ last'.call = c
<1>1. added' = added /\ DOMAIN added = 1..Len(added)
  <2>1. DOMAIN added = DOMAIN [j \in 1..Len(added) |-> added[j]]
    BY DEF Writing, Sequences
  <2> QED BY <2>1 DEF Get, Called
<1>2. \E r : \E q : Called(c, r, q)
  BY DEF Get
<1>3. last'.before = err /\ last'.for = For(c) /\ last'.fn = c.fn /\ last'.call = c
  BY <1>2 DEF Called
<1>4. err = "SUCCESS" /\ For(c) = {i}
  BY <1>3 DEF IsFor
<1>5. \E r \in Outcomes(c, Item(c)) : Called(c, r, After(c, Item(c)))
  BY <1>4 DEF Get
<1>6. last'.result \in Outcomes(c, Item(c))
  BY <1>5 DEF Called
<1>7. IsRead(Item(c), added[i])
  BY <1>1, <1>4, ItemIsEntry
<1> QED BY <1>1, <1>3, <1>6, <1>7 DEF Answers

-----------------------------------------------------------------------------
(* Types and tag requirements                                               *)

PlainTypes ==
  {"INT64", "UINT64", "BYTE_STRING", "TEXT_STRING", "DOUBLE", "NAN", "ARRAY", "TRUE", "FALSE",
   "NULL", "UNDEF"}
TaggedTypes ==
  {"DATE_EPOCH", "DAYS_EPOCH", "UUID", "POSBIGNUM", "NEGBIGNUM", "URI", "BASE64", "BASE64URL",
   "REGEX", "BINARY_MIME", "DATE_STRING", "DAYS_STRING", "DECIMAL_FRACTION", "BIGFLOAT",
   "DECIMAL_FRACTION_NEG_BIGNUM", "DECIMAL_FRACTION_POS_BIGNUM", "BIGFLOAT_NEG_BIGNUM",
   "BIGFLOAT_POS_BIGNUM"}

\* Which additions give an item of a type, with their tag and without.
LEMMA PlainTypeIs ==
  ASSUME NEW a, IsAdd(a)
  PROVE  /\ PlainType(a) \in PlainTypes
         /\ PlainType(a) \in {"INT64", "UINT64"} <=> a.fn \in IntAdders
         /\ PlainType(a) = "BYTE_STRING" <=> a.fn \in ByteAdders
         /\ PlainType(a) = "TEXT_STRING" <=> a.fn \in TextAdders
         /\ PlainType(a) = "DOUBLE" <=> a.fn = "AddDouble"
         /\ PlainType(a) = "NAN" <=> a.fn = "AddNaN"
         /\ PlainType(a) = "ARRAY" <=> a.fn \in FractionAdders
         /\ PlainType(a) = "UINT64" <=> a.fn = "AddInt64" /\ a.arg > INT_MAX
<1> DEFINE P == PlainType(a)
<1>1. a.fn \in OneToken \cup FractionAdders
  BY AddersAre
<1> USE DEF OneToken, IntAdders, ByteAdders, TextAdders, FractionAdders, Fractions, BigFractions, PlainTypes
<1>2. CASE a.fn = "AddInt64"
  <2>1. P = IF a.arg > INT_MAX THEN "UINT64" ELSE "INT64"
    BY <1>2 DEF PlainType
  <2> HIDE DEF P
  <2>2. a.fn = "AddInt64" /\ (P = "UINT64" <=> a.arg > INT_MAX) /\ P \in {"UINT64", "INT64"}
    BY <1>2, <2>1
  <2> QED BY <2>2 DEF P
<1>3. CASE a.fn \in {"AddTDateEpoch", "AddTDaysEpoch"}
  <2>1. P = "INT64"
    BY <1>3 DEF PlainType
  <2> HIDE DEF P
  <2> QED BY <1>3, <2>1 DEF P
<1>4. CASE a.fn \in ByteAdders
  <2>1. P = "BYTE_STRING"
    BY <1>4 DEF PlainType
  <2> HIDE DEF P
  <2> QED BY <1>4, <2>1 DEF P
<1>5. CASE a.fn \in TextAdders
  <2>1. P = "TEXT_STRING"
    BY <1>5 DEF PlainType
  <2> HIDE DEF P
  <2> QED BY <1>5, <2>1 DEF P
<1>6. CASE a.fn = "AddDouble"
  <2>1. P = "DOUBLE"
    BY <1>6 DEF PlainType
  <2> HIDE DEF P
  <2> QED BY <1>6, <2>1 DEF P
<1>7. CASE a.fn = "AddNaN"
  <2>1. P = "NAN"
    BY <1>7 DEF PlainType
  <2> HIDE DEF P
  <2> QED BY <1>7, <2>1 DEF P
<1>8. CASE a.fn = "AddSimple"
  <2>1. P = a.arg /\ a.arg \in {"TRUE", "FALSE", "NULL", "UNDEF"}
    BY <1>8 DEF PlainType, IsAdd, StringAdders, ArgumentsOf
  <2> HIDE DEF P
  <2> QED BY <1>8, <2>1 DEF P
<1>9. CASE a.fn \in FractionAdders
  <2>1. P = "ARRAY"
    BY <1>9 DEF PlainType
  <2> HIDE DEF P
  <2> QED BY <1>9, <2>1 DEF P
<1> QED BY <1>1, <1>2, <1>3, <1>4, <1>5, <1>6, <1>7, <1>8, <1>9

\* The functions that add with a tag that is not a fraction's, and the type.
TypeOfAdder ==
  {<<"AddTDateEpoch", "DATE_EPOCH">>, <<"AddTDaysEpoch", "DAYS_EPOCH">>, <<"AddTBinaryUUID", "UUID">>,
   <<"AddTPositiveBignum", "POSBIGNUM">>, <<"AddTNegativeBignum", "NEGBIGNUM">>, <<"AddTURI", "URI">>,
   <<"AddTB64Text", "BASE64">>, <<"AddTB64URLText", "BASE64URL">>, <<"AddTRegex", "REGEX">>,
   <<"AddTMIMEData", "BINARY_MIME">>, <<"AddTDateString", "DATE_STRING">>,
   <<"AddTDaysString", "DAYS_STRING">>}

LEMMA TaggedTypeIs ==
  ASSUME NEW a, IsAdd(a), a.tag
  PROVE  /\ TaggedType(a) \in TaggedTypes
         /\ \A m \in TypeOfAdder : TaggedType(a) = m[2] <=> a.fn = m[1]
<1>1. a.fn \in (OneToken \cup FractionAdders) \ Untagged
  BY AddersAre DEF IsAdd
<1>2. a.fn \in BigFractions => a.arg.neg \in BOOLEAN
  BY FractionArgs DEF FractionAdders
<1>3. CASE a.fn \in FractionAdders
  <2>1. TaggedType(a) \in {"DECIMAL_FRACTION", "BIGFLOAT",
          "DECIMAL_FRACTION_NEG_BIGNUM", "DECIMAL_FRACTION_POS_BIGNUM", "BIGFLOAT_NEG_BIGNUM",
          "BIGFLOAT_POS_BIGNUM"}
    BY <1>2, <1>3 DEF TaggedType, FractionAdders, Fractions, BigFractions
  <2> QED BY <1>3, <2>1 DEF TaggedTypes, TypeOfAdder, FractionAdders, Fractions, BigFractions
<1>4. CASE a.fn \notin FractionAdders
  <2>1. PICK m \in TypeOfAdder : m[1] = a.fn
    BY <1>1, <1>4 DEF OneToken, IntAdders, ByteAdders, TextAdders, Untagged, TypeOfAdder
  <2>2. TaggedType(a) = m[2]
    BY <2>1 DEF TaggedType, TypeOfAdder
  <2>3. m[2] \in TaggedTypes
    BY DEF TypeOfAdder, TaggedTypes
  <2>4. \A n \in TypeOfAdder : m[2] = n[2] <=> m[1] = n[1]
    BY DEF TypeOfAdder
  <2> QED BY <2>1, <2>2, <2>3, <2>4
<1> QED BY <1>3, <1>4

\* A type that a tag makes is no type of an item without tags.
LEMMA TypesDiffer ==
  ASSUME NEW t \in TaggedTypes
  PROVE  t \notin PlainTypes /\ t # "NONE" /\ "NONE" \notin PlainTypes
BY DEF TaggedTypes, PlainTypes

\* The type of an item says what was added.
LEMMA TypeIs ==
  ASSUME NEW a, IsAdd(a)
  PROVE  /\ TypeOf(a) # "NONE" /\ a.tag \in BOOLEAN /\ a.extra \in BOOLEAN
         /\ a.tag => TypeOf(a) = TaggedType(a) /\ TypeOf(a) \notin PlainTypes
         /\ ~a.tag => TypeOf(a) = PlainType(a) /\ TypeOf(a) \notin TaggedTypes
<1>1. a.tag \in BOOLEAN /\ a.extra \in BOOLEAN
  BY DEF IsAdd
<1>2. PlainType(a) \in PlainTypes /\ (a.tag => TaggedType(a) \in TaggedTypes)
  BY PlainTypeIs, TaggedTypeIs
<1>3. PlainType(a) # "NONE" /\ PlainType(a) \notin TaggedTypes
  BY <1>2 DEF TaggedTypes, PlainTypes
<1> QED BY <1>1, <1>2, <1>3, TypesDiffer DEF TypeOf

\* Whether a requirement lets an item of a type through.
Allows(a, c, type, tagged, content) ==
  /\ a.extra => c.more
  /\ IF c.req = "TAG" THEN type \in tagged
     ELSE IF c.req = "NOT_A_TAG" THEN type \in content ELSE type \in tagged \cup content

\* What a tag requirement lets through.
LEMMA RequirementIs ==
  ASSUME NEW a, a.extra \in BOOLEAN, NEW it, it.type # "NONE", it.tags = ExtraTags(a),
         NEW c, c.more \in BOOLEAN, NEW T, NEW C
  PROVE  CheckTagRequirement(TagSpec(c, T, C), it)
           = IF Allows(a, c, it.type, T, C) THEN "SUCCESS" ELSE "UNEXPECTED_TYPE"
<1> DEFINE s == TagSpec(c, T, C)
           t == it.type
<1>1. s.req = c.req /\ s.more = c.more /\ s.tagged = T /\ s.content = C
  BY DEF TagSpec
<1>2. \A X : t \in TypeList(X) <=> t \in X
  BY DEF TypeList
<1>3. \A X : CheckTypeList(t, X) = IF t \in X THEN "SUCCESS" ELSE "UNEXPECTED_TYPE"
  BY <1>2 DEF CheckTypeList
<1>4. it.tags # <<>> <=> a.extra
  <2>1. <<UnknownTag>> # <<>>
    <3>1. Len(<<UnknownTag>>) = 1 /\ Len(<<>>) = 0
      OBVIOUS
    <3> QED BY <3>1
  <2> QED BY <2>1 DEF ExtraTags
<1>5. t \in TypeList(C) \cup T <=> t \in T \cup C
  BY <1>2
<1> HIDE DEF s
<1>6. CheckTagRequirement(s, it)
        = IF ~c.more /\ a.extra THEN "UNEXPECTED_TYPE"
          ELSE IF c.req = "TAG" THEN CheckTypeList(t, T)
          ELSE IF c.req = "NOT_A_TAG" THEN CheckTypeList(t, C)
          ELSE CheckTypeList(t, TypeList(C) \cup T)
  <2> HIDE DEF t
  <2> QED BY <1>1, <1>4 DEF CheckTagRequirement, t
<1> HIDE DEF t
<1>7. CheckTagRequirement(s, it) = IF Allows(a, c, t, T, C) THEN "SUCCESS" ELSE "UNEXPECTED_TYPE"
  BY <1>3, <1>5, <1>6 DEF Allows
<1> QED BY <1>7 DEF s, t

-----------------------------------------------------------------------------
(* Strings                                                                  *)

LEMMA PlainAsIs ==
  ASSUME NEW a, IsAdd(a)
  PROVE  /\ a.fn \in TextAdders => PlainAs(a) = "AddText"
         /\ a.fn \in ByteAdders => PlainAs(a) = "AddBytes"
         /\ a.fn \in IntAdders => PlainAs(a) = "AddInt64"
         /\ a.fn = "AddDouble" => PlainAs(a) = "AddDouble"
         /\ a.fn \in {"AddNaN", "AddSimple"} \cup FractionAdders => PlainAs(a) = "none"
<1> DEFINE q == CHOOSE q \in StringPairs : q.add = a.fn
<1>1. ASSUME NEW p \in StringPairs, p.add = a.fn
      PROVE  PlainAs(a) = p.of
  <2>1. q \in StringPairs /\ q.add = a.fn
    BY <1>1
  <2> HIDE DEF q
  <2>2. q.of = p.of
    BY <1>1, <2>1 DEF StringPairs
  <2>3. a.fn \notin {"AddText", "AddBytes", "AddInt64", "AddDouble", "AddTPositiveBignum",
                     "AddTNegativeBignum", "AddTDateEpoch", "AddTDaysEpoch"}
    BY <1>1 DEF StringPairs
  <2>4. PlainAs(a) = q.of
    BY <1>1, <2>3 DEF PlainAs, q
  <2> QED BY <2>2, <2>4
<1> HIDE DEF q
<1>2. ASSUME \A p \in StringPairs : p.add # a.fn
      PROVE  PlainAs(a) = IF a.fn \in {"AddText", "AddBytes", "AddInt64", "AddDouble"} THEN a.fn
                          ELSE IF a.fn \in {"AddTPositiveBignum", "AddTNegativeBignum"} THEN "AddBytes"
                          ELSE IF a.fn \in {"AddTDateEpoch", "AddTDaysEpoch"} THEN "AddInt64" ELSE "none"
  BY <1>2 DEF PlainAs
<1>3. CASE \E p \in StringPairs : p.add = a.fn
  <2>1. PICK p \in StringPairs : p.add = a.fn
    BY <1>3
  <2>2. PlainAs(a) = p.of
    BY <1>1, <2>1
  <2> HIDE DEF PlainAs
  <2> QED BY <2>1, <2>2 DEF StringPairs, TextAdders, ByteAdders, IntAdders, FractionAdders, Fractions,
        BigFractions
<1>4. CASE \A p \in StringPairs : p.add # a.fn
  <2>1. a.fn \notin {"AddTURI", "AddTB64Text", "AddTB64URLText", "AddTRegex", "AddTDateString",
                     "AddTDaysString", "AddTBinaryUUID", "AddTMIMEData"}
    BY <1>4 DEF StringPairs
  <2> HIDE DEF PlainAs
  <2> QED BY <1>2, <1>4, <2>1 DEF TextAdders, ByteAdders, IntAdders, FractionAdders, Fractions,
        BigFractions
<1> QED BY <1>3, <1>4

\* The item of a string can be got with the tag's own getter, or without a tag.
LEMMA StringAllowed ==
  ASSUME NEW a, IsAdd(a), NEW c, NEW m \in TypeOfAdder
  PROVE  /\ Allows(a, c, TypeOf(a), {m[2]}, {"TEXT_STRING"}) <=> Satisfies(a, c, {m[1]}, {"AddText"})
         /\ Allows(a, c, TypeOf(a), {m[2]}, {"BYTE_STRING"}) <=> Satisfies(a, c, {m[1]}, {"AddBytes"})
<1>1. CASE a.tag
  <2>1. TypeOf(a) = m[2] <=> a.fn = m[1]
    BY <1>1, TypeIs, TaggedTypeIs
  <2>2. TypeOf(a) \notin {"TEXT_STRING", "BYTE_STRING"}
    BY <1>1, TypeIs DEF PlainTypes
  <2> QED BY <1>1, <2>1, <2>2 DEF Allows, Satisfies
<1>2. CASE ~a.tag
  <2>1. m[2] \in TaggedTypes
    BY DEF TypeOfAdder, TaggedTypes
  <2>2. TypeOf(a) # m[2]
    BY <1>2, <2>1, TypeIs
  <2>3. TypeOf(a) = "TEXT_STRING" <=> a.fn \in TextAdders
    BY <1>2, TypeIs, PlainTypeIs
  <2>4. TypeOf(a) = "BYTE_STRING" <=> a.fn \in ByteAdders
    BY <1>2, TypeIs, PlainTypeIs
  <2>5. (PlainAs(a) = "AddText" <=> a.fn \in TextAdders) /\ (PlainAs(a) = "AddBytes" <=> a.fn \in ByteAdders)
    <3>1. a.fn \in OneToken \cup FractionAdders
      BY AddersAre
    <3>2. ~(a.fn \in TextAdders /\ a.fn \in ByteAdders)
      BY DEF TextAdders, ByteAdders
    <3> QED BY <3>1, <3>2, PlainAsIs DEF OneToken
  <2> QED BY <1>2, <2>2, <2>3, <2>4, <2>5 DEF Allows, Satisfies
<1> QED BY <1>1, <1>2, TypeIs

\* What a call gives, by what was added.
LEMMA OutcomeIs ==
  ASSUME NEW a, NEW c, NEW r, Answers(a, c, r)
  PROVE  \E it : /\ IsRead(it, a)
                 /\ ~TooNegative(a) => r = Result(c, it)
                 /\ TooNegative(a) /\ c.fn \notin FractionGetters => r = Fails("INT_OVERFLOW")
<1>1. PICK it : IsRead(it, a) /\ r \in Outcomes(c, it)
  BY DEF Answers
<1>2. ASSUME ~TooNegative(a) PROVE r = Result(c, it)
  <2>1. it.err = "SUCCESS"
    BY <1>1, <1>2 DEF IsRead
  <2> QED BY <1>1, <2>1 DEF Outcomes
<1>3. ASSUME TooNegative(a), c.fn \notin FractionGetters PROVE r = Fails("INT_OVERFLOW")
  <2>1. it.err = "INT_OVERFLOW"
    BY <1>1, <1>3 DEF IsRead
  <2> QED BY <1>1, <1>3, <2>1 DEF Outcomes, FractionGetters
<1> QED BY <1>1, <1>2, <1>3

\* A getter that only looks at the requirement.
LEMMA CheckedIs ==
  ASSUME NEW a, IsAdd(a), NEW c, c.more \in BOOLEAN, NEW it, IsRead(it, a), ~TooNegative(a), NEW T, NEW C
  PROVE  /\ Allows(a, c, TypeOf(a), T, C) => GetTaggedString(TagSpec(c, T, C), it) = Gives(ItemValue(a))
         /\ ~Allows(a, c, TypeOf(a), T, C) => GetTaggedString(TagSpec(c, T, C), it) = Unexpected
<1>1. it.type = TypeOf(a) /\ it.tags = ExtraTags(a) /\ it.val = ItemValue(a) /\ it.type # "NONE"
      /\ a.extra \in BOOLEAN
  BY TypeIs DEF IsRead
<1>2. CheckTagRequirement(TagSpec(c, T, C), it)
        = IF Allows(a, c, it.type, T, C) THEN "SUCCESS" ELSE "UNEXPECTED_TYPE"
  BY <1>1, RequirementIs
<1> DEFINE s == TagSpec(c, T, C)
           A == Allows(a, c, it.type, T, C)
<1>3. CheckTagRequirement(s, it) = IF A THEN "SUCCESS" ELSE "UNEXPECTED_TYPE"
  BY <1>2
<1> HIDE DEF s, A
<1>4. /\ A => GetTaggedString(s, it) = Gives(it.val)
      /\ ~A => GetTaggedString(s, it) = Unexpected
  BY <1>3 DEF GetTaggedString, Checked, Unless, Unexpected
<1> QED BY <1>1, <1>4 DEF s, A

\* The fields of answers.
LEMMA ResultsAre ==
  ASSUME NEW x, NEW e
  PROVE  /\ Gives(x).err = "SUCCESS" /\ Gives(x).v = x /\ Fails(e).err = e
         /\ Unexpected.err = "UNEXPECTED_TYPE"
BY DEF Gives, Fails, Unexpected

\* What comes with an item that a requirement for strings lets through.
LEMMA SatisfiedIs ==
  ASSUME NEW a, IsAdd(a), NEW c, NEW add, NEW content,
         \A x \in add : \E m \in TypeOfAdder : x = m[1],
         content \subseteq {"AddText", "AddBytes"}, Satisfies(a, c, add, content)
  PROVE  ItemValue(a) = a.arg /\ ~TooNegative(a)
<1>1. a.fn \in (IntAdders \ {"AddInt64"}) \cup ByteAdders \cup TextAdders
  <2>1. CASE a.tag
    <3>1. \E m \in TypeOfAdder : a.fn = m[1]
      BY <2>1 DEF Satisfies
    <3> QED BY <3>1 DEF TypeOfAdder, IntAdders, ByteAdders, TextAdders
  <2>2. CASE ~a.tag
    <3>1. PlainAs(a) \in {"AddText", "AddBytes"}
      BY <2>2 DEF Satisfies
    <3>2. a.fn \in OneToken \cup FractionAdders
      BY AddersAre
    <3> QED BY <3>1, <3>2, PlainAsIs DEF OneToken, IntAdders
  <2> QED BY <2>1, <2>2, TypeIs
<1>2. a.fn \notin FractionAdders /\ a.fn \notin {"AddNaN", "AddSimple", "AddInt64"}
  BY <1>1 DEF IntAdders, ByteAdders, TextAdders, FractionAdders, Fractions, BigFractions
<1> QED BY <1>2 DEF ItemValue, ValueOf, TooNegative

\* r is right for a string: it is got exactly if the requirement allows it.
StringRight(a, c, r, add, content) ==
  IF Satisfies(a, c, add, content) THEN r.err = "SUCCESS" /\ r.v = a.arg ELSE r.err # "SUCCESS"

TaggedStringRight(a, c, it, m, C, of) ==
  StringRight(a, c, GetTaggedString(TagSpec(c, {m[2]}, {C}), it), {m[1]}, {of})

LEMMA SimpleString ==
  ASSUME NEW a, IsAdd(a), NEW c, c.more \in BOOLEAN, NEW it, IsRead(it, a), ~TooNegative(a),
         NEW m \in TypeOfAdder, NEW C, NEW of,
         \/ C = "TEXT_STRING" /\ of = "AddText"
         \/ C = "BYTE_STRING" /\ of = "AddBytes"
  PROVE  TaggedStringRight(a, c, it, m, C, of)
<1> DEFINE r == GetTaggedString(TagSpec(c, {m[2]}, {C}), it)
           T == {m[2]}
           D == {C}
<1>1. Allows(a, c, TypeOf(a), {m[2]}, {C}) <=> Satisfies(a, c, {m[1]}, {of})
  BY StringAllowed
<1>2. Satisfies(a, c, {m[1]}, {of}) => ItemValue(a) = a.arg
  BY SatisfiedIs
<1>3. /\ Allows(a, c, TypeOf(a), T, D) => GetTaggedString(TagSpec(c, T, D), it) = Gives(ItemValue(a))
      /\ ~Allows(a, c, TypeOf(a), T, D) => GetTaggedString(TagSpec(c, T, D), it) = Unexpected
  <2> HIDE DEF T, D
  <2> QED BY CheckedIs
<1>4. /\ Satisfies(a, c, {m[1]}, {of}) => r = Gives(a.arg)
      /\ ~Satisfies(a, c, {m[1]}, {of}) => r = Unexpected
  BY <1>1, <1>2, <1>3
<1> HIDE DEF r
<1>5. StringRight(a, c, r, {m[1]}, {of})
  BY <1>4, ResultsAre DEF StringRight
<1> QED BY <1>5 DEF r, TaggedStringRight

\* A MIME message is got as text or as bytes.
LEMMA MIMERight ==
  ASSUME NEW a, IsAdd(a), NEW c, c.more \in BOOLEAN, NEW it, IsRead(it, a), ~TooNegative(a)
  PROVE  StringRight(a, c, GetMIMEInternal(c, it), {"AddTMIMEData"}, {"AddText", "AddBytes"})
<1> DEFINE r == GetMIMEInternal(c, it)
           S == Satisfies(a, c, {"AddTMIMEData"}, {"AddText", "AddBytes"})
           A == Allows(a, c, TypeOf(a), {"MIME"}, {"TEXT_STRING"})
           B == Allows(a, c, TypeOf(a), {"BINARY_MIME"}, {"BYTE_STRING"})
           m == <<"AddTMIMEData", "BINARY_MIME">>
<1>0. m \in TypeOfAdder /\ m[1] = "AddTMIMEData" /\ m[2] = "BINARY_MIME"
  BY DEF TypeOfAdder
<1>1. it.type = TypeOf(a) /\ it.tags = ExtraTags(a) /\ it.val = ItemValue(a) /\ it.type # "NONE"
      /\ a.extra \in BOOLEAN
  BY TypeIs DEF IsRead
<1>2. CheckTagRequirement(TagSpec(c, {"MIME"}, {"TEXT_STRING"}), it) = IF A THEN "SUCCESS" ELSE "UNEXPECTED_TYPE"
  <2> DEFINE T == {"MIME"}
             C == {"TEXT_STRING"}
  <2>1. CheckTagRequirement(TagSpec(c, T, C), it)
          = IF Allows(a, c, it.type, T, C) THEN "SUCCESS" ELSE "UNEXPECTED_TYPE"
    <3> HIDE DEF T, C
    <3> QED BY <1>1, RequirementIs
  <2> QED BY <1>1, <2>1
<1>3. CheckTagRequirement(TagSpec(c, {"BINARY_MIME"}, {"BYTE_STRING"}), it) = IF B THEN "SUCCESS" ELSE "UNEXPECTED_TYPE"
  <2> DEFINE T == {"BINARY_MIME"}
             C == {"BYTE_STRING"}
  <2>1. CheckTagRequirement(TagSpec(c, T, C), it)
          = IF Allows(a, c, it.type, T, C) THEN "SUCCESS" ELSE "UNEXPECTED_TYPE"
    <3> HIDE DEF T, C
    <3> QED BY <1>1, RequirementIs
  <2> QED BY <1>1, <2>1
<1>4. B <=> Satisfies(a, c, {"AddTMIMEData"}, {"AddBytes"})
  <2>1. Allows(a, c, TypeOf(a), {m[2]}, {"BYTE_STRING"}) <=> Satisfies(a, c, {m[1]}, {"AddBytes"})
    BY <1>0, StringAllowed
  <2> HIDE DEF m
  <2> QED BY <1>0, <2>1
<1>5. A <=> Satisfies(a, c, {}, {"AddText"})
  <2>1. CASE a.tag
    <3>1. TypeOf(a) \in TaggedTypes /\ TypeOf(a) \notin PlainTypes
      BY <2>1, TypeIs, TaggedTypeIs
    <3>2. TypeOf(a) # "MIME" /\ TypeOf(a) # "TEXT_STRING"
      BY <3>1 DEF TaggedTypes, PlainTypes
    <3> QED BY <2>1, <3>2 DEF Allows, Satisfies
  <2>2. CASE ~a.tag
    <3>1. TypeOf(a) = PlainType(a) /\ PlainType(a) # "MIME"
      BY <2>2, TypeIs, PlainTypeIs DEF PlainTypes
    <3>2. TypeOf(a) = "TEXT_STRING" <=> a.fn \in TextAdders
      BY <3>1, PlainTypeIs
    <3>3. PlainAs(a) = "AddText" <=> a.fn \in TextAdders
      <4>1. a.fn \in OneToken \cup FractionAdders
        BY AddersAre
      <4> QED BY <4>1, PlainAsIs DEF OneToken
    <3> QED BY <2>2, <3>1, <3>2, <3>3 DEF Allows, Satisfies
  <2> QED BY <2>1, <2>2, TypeIs
<1>6. A \/ B <=> S
  BY <1>4, <1>5 DEF Satisfies
<1>7. S => ItemValue(a) = a.arg
  <2> DEFINE add == {"AddTMIMEData"}
             content == {"AddText", "AddBytes"}
  <2>1. \A x \in add : \E n \in TypeOfAdder : x = n[1]
    BY <1>0
  <2>2. content \subseteq {"AddText", "AddBytes"}
    OBVIOUS
  <2>3. Satisfies(a, c, add, content) => ItemValue(a) = a.arg
    <3> HIDE DEF add, content
    <3> QED BY <2>1, <2>2, SatisfiedIs
  <2> QED BY <2>3
<1> HIDE DEF S, A, B
<1>8. r = IF S THEN Gives(it.val) ELSE Unexpected
  BY <1>2, <1>3, <1>6 DEF GetMIMEInternal
<1> HIDE DEF r
<1>9. IF S THEN r.err = "SUCCESS" /\ r.v = a.arg ELSE r.err # "SUCCESS"
  BY <1>1, <1>7, <1>8, ResultsAre
<1> QED BY <1>9 DEF StringRight, S, r

ContentOfPair(p) == IF p.get = "GetMIMEMessage" THEN {"AddText", "AddBytes"} ELSE {p.of}

\* Each getter of strings gets what it is for, and nothing else.
LEMMA StringsRight ==
  ASSUME NEW a, IsAdd(a), NEW c, c.more \in BOOLEAN, NEW r, Answers(a, c, r), NEW p \in StringPairs, c.fn = p.get
  PROVE  StringRight(a, c, r, {p.add}, ContentOfPair(p))
<1>0. c.fn \notin FractionGetters
  BY DEF StringPairs, FractionGetters
<1>1. PICK it : /\ IsRead(it, a)
                /\ ~TooNegative(a) => r = Result(c, it)
                /\ TooNegative(a) => r = Fails("INT_OVERFLOW")
  BY <1>0, OutcomeIs
<1>2. CASE TooNegative(a)
  <2>1. r.err # "SUCCESS"
    BY <1>1, <1>2, ResultsAre
  <2>2. ~Satisfies(a, c, {p.add}, ContentOfPair(p))
    <3> DEFINE add == {p.add}
               content == ContentOfPair(p)
    <3>1. \A x \in add : \E n \in TypeOfAdder : x = n[1]
      BY DEF StringPairs, TypeOfAdder
    <3>2. content \subseteq {"AddText", "AddBytes"}
      BY DEF StringPairs, ContentOfPair
    <3> HIDE DEF add, content
    <3>3. ~Satisfies(a, c, add, content)
      BY <1>2, <3>1, <3>2, SatisfiedIs
    <3> QED BY <3>3 DEF add, content
  <2> QED BY <2>1, <2>2 DEF StringRight
<1>3. CASE ~TooNegative(a)
  <2>1. r = Result(c, it)
    BY <1>1, <1>3
  <2>2. CASE p.get = "GetMIMEMessage"
    <3>1. p.add = "AddTMIMEData"
      BY <2>2 DEF StringPairs
    <3>2. r = GetMIMEInternal(c, it)
      BY <2>1, <2>2 DEF Result, GetMIMEMessage
    <3>3. StringRight(a, c, GetMIMEInternal(c, it), {"AddTMIMEData"}, {"AddText", "AddBytes"})
      BY <1>1, <1>3, MIMERight
    <3> QED BY <2>2, <3>1, <3>2, <3>3 DEF ContentOfPair
  <2>3. CASE p.get # "GetMIMEMessage"
    <3>1. \E m \in TypeOfAdder : \E C \in {"TEXT_STRING", "BYTE_STRING"} :
            /\ m[1] = p.add /\ (C = "TEXT_STRING" <=> p.of = "AddText") /\ p.of \in {"AddText", "AddBytes"}
            /\ Result(c, it) = GetTaggedString(TagSpec(c, {m[2]}, {C}), it)
      <4>1. CASE p.get = "GetURI"
        <5>1. p.add = "AddTURI" /\ p.of = "AddText"
          BY <4>1 DEF StringPairs
        <5>2. Result(c, it) = GetURI(c, it)
          BY <4>1 DEF Result
        <5>3. <<"AddTURI", "URI">> \in TypeOfAdder
          BY DEF TypeOfAdder
        <5> QED BY <5>1, <5>2, <5>3 DEF GetURI
      <4>2. CASE p.get = "GetB64"
        <5>1. p.add = "AddTB64Text" /\ p.of = "AddText"
          BY <4>2 DEF StringPairs
        <5>2. Result(c, it) = GetB64(c, it)
          BY <4>2 DEF Result
        <5>3. <<"AddTB64Text", "BASE64">> \in TypeOfAdder
          BY DEF TypeOfAdder
        <5> QED BY <5>1, <5>2, <5>3 DEF GetB64
      <4>3. CASE p.get = "GetB64URL"
        <5>1. p.add = "AddTB64URLText" /\ p.of = "AddText"
          BY <4>3 DEF StringPairs
        <5>2. Result(c, it) = GetB64URL(c, it)
          BY <4>3 DEF Result
        <5>3. <<"AddTB64URLText", "BASE64URL">> \in TypeOfAdder
          BY DEF TypeOfAdder
        <5> QED BY <5>1, <5>2, <5>3 DEF GetB64URL
      <4>4. CASE p.get = "GetRegex"
        <5>1. p.add = "AddTRegex" /\ p.of = "AddText"
          BY <4>4 DEF StringPairs
        <5>2. Result(c, it) = GetRegex(c, it)
          BY <4>4 DEF Result
        <5>3. <<"AddTRegex", "REGEX">> \in TypeOfAdder
          BY DEF TypeOfAdder
        <5> QED BY <5>1, <5>2, <5>3 DEF GetRegex
      <4>5. CASE p.get = "GetDateString"
        <5>1. p.add = "AddTDateString" /\ p.of = "AddText"
          BY <4>5 DEF StringPairs
        <5>2. Result(c, it) = GetDateString(c, it)
          BY <4>5 DEF Result
        <5>3. <<"AddTDateString", "DATE_STRING">> \in TypeOfAdder
          BY DEF TypeOfAdder
        <5> QED BY <5>1, <5>2, <5>3 DEF GetDateString
      <4>6. CASE p.get = "GetDaysString"
        <5>1. p.add = "AddTDaysString" /\ p.of = "AddText"
          BY <4>6 DEF StringPairs
        <5>2. Result(c, it) = GetDaysString(c, it)
          BY <4>6 DEF Result
        <5>3. <<"AddTDaysString", "DAYS_STRING">> \in TypeOfAdder
          BY DEF TypeOfAdder
        <5> QED BY <5>1, <5>2, <5>3 DEF GetDaysString
      <4>7. CASE p.get = "GetBinaryUUID"
        <5>1. p.add = "AddTBinaryUUID" /\ p.of = "AddBytes"
          BY <4>7 DEF StringPairs
        <5>2. Result(c, it) = GetBinaryUUID(c, it)
          BY <4>7 DEF Result
        <5>3. <<"AddTBinaryUUID", "UUID">> \in TypeOfAdder
          BY DEF TypeOfAdder
        <5> QED BY <5>1, <5>2, <5>3 DEF GetBinaryUUID
      <4>8. p.get \in {"GetURI", "GetB64", "GetB64URL", "GetRegex", "GetDateString", "GetDaysString",
                       "GetBinaryUUID"}
        BY <2>3 DEF StringPairs
      <4> QED BY <4>1, <4>2, <4>3, <4>4, <4>5, <4>6, <4>7, <4>8
    <3>2. PICK m \in TypeOfAdder, C \in {"TEXT_STRING", "BYTE_STRING"} :
            /\ m[1] = p.add /\ (C = "TEXT_STRING" <=> p.of = "AddText") /\ p.of \in {"AddText", "AddBytes"}
            /\ Result(c, it) = GetTaggedString(TagSpec(c, {m[2]}, {C}), it)
      BY <3>1
    <3>3. \/ C = "TEXT_STRING" /\ p.of = "AddText"
          \/ C = "BYTE_STRING" /\ p.of = "AddBytes"
      BY <3>2
    <3>4. StringRight(a, c, GetTaggedString(TagSpec(c, {m[2]}, {C}), it), {m[1]}, {p.of})
      <4> DEFINE of == p.of
      <4>1. \/ C = "TEXT_STRING" /\ of = "AddText"
            \/ C = "BYTE_STRING" /\ of = "AddBytes"
        BY <3>3
      <4> HIDE DEF of
      <4>2. TaggedStringRight(a, c, it, m, C, of)
        BY <1>1, <1>3, <4>1, SimpleString
      <4> QED BY <4>2 DEF of, TaggedStringRight
    <3> QED BY <2>1, <2>3, <3>2, <3>4 DEF ContentOfPair
  <2> QED BY <2>2, <2>3
<1> QED BY <1>2, <1>3

-----------------------------------------------------------------------------
(* Dates, days and big numbers                                              *)

LEMMA RequirementOf ==
  ASSUME NEW a, IsAdd(a), NEW c, c.more \in BOOLEAN, NEW it, IsRead(it, a), ~TooNegative(a), NEW T, NEW C
  PROVE  CheckTagRequirement(TagSpec(c, T, C), it)
           = IF Allows(a, c, TypeOf(a), T, C) THEN "SUCCESS" ELSE "UNEXPECTED_TYPE"
<1>1. it.type = TypeOf(a) /\ it.tags = ExtraTags(a) /\ it.type # "NONE" /\ a.extra \in BOOLEAN
  BY TypeIs DEF IsRead
<1>2. CheckTagRequirement(TagSpec(c, T, C), it)
        = IF Allows(a, c, it.type, T, C) THEN "SUCCESS" ELSE "UNEXPECTED_TYPE"
  BY <1>1, RequirementIs
<1> QED BY <1>1, <1>2

DateTypes == {"INT64", "DOUBLE", "FLOAT", "UINT64"}
AsDate(a) == IF TypeOf(a) = "NAN" THEN "DOUBLE" ELSE TypeOf(a)

\* A number of halves toward 0.
LEMMA HalfIs ==
  ASSUME NEW v \in Int
  PROVE  /\ Scaled(v, 2, -1) = Signed(v, Magnitude(v) \div 2) /\ Scaled(v, 2, -1) \in Int
         /\ \A x \in Int : v > 2 * x => Scaled(v, 2, -1) >= x
         /\ \A x \in Int : v < 2 * x => Scaled(v, 2, -1) <= x
<1>1. Pow(2, 0) = 1 /\ Pow(2, 0 + 1) = Pow(2, 0) * 2
  BY PowStep
<1>2. Pow(2, 1) = 2
  <2>1. 0 + 1 = 1
    OBVIOUS
  <2> QED BY <1>1, <2>1
<1>4. Scaled(v, 2, -1) = Signed(v, Magnitude(v) \div Pow(2, 1))
  <2> DEFINE e == -1
  <2>0. e \in Int /\ e + 1 = 0
    OBVIOUS
  <2> HIDE DEF e
  <2>1. -e = 1 /\ ~(e >= 0)
    BY <2>0
  <2>2. Scaled(v, 2, e) = Signed(v, Magnitude(v) \div Pow(2, -e))
    BY <2>1 DEF Scaled
  <2>3. Scaled(v, 2, e) = Signed(v, Magnitude(v) \div Pow(2, 1))
    BY <2>1, <2>2
  <2> QED BY <2>3 DEF e
<1>5. Scaled(v, 2, -1) = Signed(v, Magnitude(v) \div 2)
  BY <1>2, <1>4
<1> DEFINE h == Signed(v, Magnitude(v) \div 2)
<1>6. h \in Int /\ (\A x \in Int : v > 2 * x => h >= x) /\ (\A x \in Int : v < 2 * x => h <= x)
  <2>1. CASE v > 0
    <3>1. h = v \div 2
      BY <2>1 DEF Signed, Magnitude
    <3> HIDE DEF h
    <3> QED BY <2>1, <3>1
  <2>2. CASE v <= 0
    <3>1. h = -((-v) \div 2)
      BY <2>2 DEF Signed, Magnitude
    <3> HIDE DEF h
    <3> QED BY <2>2, <3>1
  <2> QED BY <2>1, <2>2
<1> HIDE DEF h
<1> QED BY <1>5, <1>6 DEF h

DateRight(a, c, r) ==
  LET S == Satisfies(a, c, {"AddTDateEpoch"}, {"AddInt64", "AddDouble"})
  IN  /\ r.err = "SUCCESS" => S /\ r.v = DateOf(a)
      /\ S /\ r.err # "SUCCESS" => DateOf(a) \notin SafeDates

\* A getter for a date looks at the requirement for a number.
LEMMA DateAllowed ==
  ASSUME NEW a, IsAdd(a), NEW c
  PROVE  Allows(a, c, AsDate(a), {"DATE_EPOCH"}, DateTypes) /\ a.fn # "AddNaN"
           <=> Satisfies(a, c, {"AddTDateEpoch"}, {"AddInt64", "AddDouble"})
<1>1. CASE a.tag
  <2>1. <<"AddTDateEpoch", "DATE_EPOCH">> \in TypeOfAdder
    BY DEF TypeOfAdder
  <2>2. \A m \in TypeOfAdder : TaggedType(a) = m[2] <=> a.fn = m[1]
    BY <1>1, TaggedTypeIs
  <2>3. TaggedType(a) = "DATE_EPOCH" <=> a.fn = "AddTDateEpoch"
    <3> DEFINE m == <<"AddTDateEpoch", "DATE_EPOCH">>
    <3>1. m[1] = "AddTDateEpoch" /\ m[2] = "DATE_EPOCH" /\ m \in TypeOfAdder
      BY <2>1
    <3> HIDE DEF m
    <3> QED BY <2>2, <3>1
  <2>4. TypeOf(a) = TaggedType(a) /\ TypeOf(a) \notin PlainTypes /\ TypeOf(a) \in TaggedTypes
    BY <1>1, TypeIs, TaggedTypeIs
  <2>5. AsDate(a) = TypeOf(a) /\ TypeOf(a) \notin DateTypes
    BY <2>4 DEF AsDate, PlainTypes, DateTypes, TaggedTypes
  <2>6. a.fn # "AddNaN"
    BY <1>1 DEF IsAdd, Untagged
  <2> QED BY <1>1, <2>3, <2>4, <2>5, <2>6 DEF Allows, Satisfies
<1>2. CASE ~a.tag
  <2>1. TypeOf(a) = PlainType(a) /\ PlainType(a) \in PlainTypes
    BY <1>2, TypeIs, PlainTypeIs
  <2>2. AsDate(a) # "DATE_EPOCH"
    BY <2>1 DEF AsDate, PlainTypes
  <2>3. AsDate(a) \in DateTypes /\ a.fn # "AddNaN" <=> a.fn \in IntAdders \cup {"AddDouble"}
    <3>1. AsDate(a) \in DateTypes <=> PlainType(a) \in {"INT64", "UINT64"} \/ PlainType(a) \in {"DOUBLE", "NAN"}
      BY <2>1 DEF AsDate, DateTypes, PlainTypes
    <3>2. AsDate(a) \in DateTypes <=> a.fn \in IntAdders \/ a.fn \in {"AddDouble", "AddNaN"}
      BY <3>1, PlainTypeIs
    <3> QED BY <3>2 DEF IntAdders
  <2>4. PlainAs(a) \in {"AddInt64", "AddDouble"} <=> a.fn \in IntAdders \cup {"AddDouble"}
    <3>1. a.fn \in OneToken \cup FractionAdders
      BY AddersAre
    <3>2. a.fn \in IntAdders \cup {"AddDouble"} => PlainAs(a) \in {"AddInt64", "AddDouble"}
      BY PlainAsIs
    <3>3. a.fn \notin IntAdders \cup {"AddDouble"} => PlainAs(a) \notin {"AddInt64", "AddDouble"}
      BY <3>1, PlainAsIs DEF OneToken
    <3> QED BY <3>2, <3>3
  <2> QED BY <1>2, <2>2, <2>3, <2>4 DEF Allows, Satisfies
<1> QED BY <1>1, <1>2, TypeIs

\* The requirement is looked at with NaN as a double.
LEMMA AsDateIs ==
  ASSUME NEW a, IsAdd(a), NEW it, IsRead(it, a), ~TooNegative(a)
  PROVE  LET d == [it EXCEPT !.type = IF @ = "NAN" THEN "DOUBLE" ELSE @]
         IN  d.type = AsDate(a) /\ d.tags = it.tags /\ d.type # "NONE"
<1> DEFINE t == IF it.type = "NAN" THEN "DOUBLE" ELSE it.type
           d == [it EXCEPT !.type = IF @ = "NAN" THEN "DOUBLE" ELSE @]
           r == Record(it.err, it.type, it.val, it.tags, it.lev, it.at)
           x == Record(it.err, t, it.val, it.tags, it.lev, it.at)
<1>1. it = r /\ it.type = TypeOf(a) /\ TypeOf(a) # "NONE"
  BY TypeIs DEF IsRead, IsItem
<1>2. [it EXCEPT !.type = t] = d
  OBVIOUS
<1> HIDE DEF t
<1>3. [r EXCEPT !.type = t] = x
  BY DEF Record
<1>4. x.type = t /\ x.tags = it.tags
  BY RecordFields
<1> HIDE DEF d, r, x
<1>5. d = x
  BY <1>1, <1>2, <1>3
<1>6. t = AsDate(a) /\ t # "NONE"
  BY <1>1 DEF t, AsDate
<1> QED BY <1>4, <1>5, <1>6 DEF d

\* A date is the integer, or the double it was given as, at the limits of int64_t.
LEMMA DateIs ==
  ASSUME NEW a, IsAdd(a), NEW c, c.more \in BOOLEAN, NEW it, IsRead(it, a), ~TooNegative(a),
         NEW r, r = ProcessEpochDate(c, it)
  PROVE  DateRight(a, c, r)
<1> DEFINE d == [it EXCEPT !.type = IF @ = "NAN" THEN "DOUBLE" ELSE @]
           S == Satisfies(a, c, {"AddTDateEpoch"}, {"AddInt64", "AddDouble"})
           A == Allows(a, c, AsDate(a), {"DATE_EPOCH"}, DateTypes)
           g == DateResult(DecodeDateEpoch(it))
           v == it.val
           D == DateOf(a)
<1>1. it.type = TypeOf(a) /\ it.tags = ExtraTags(a) /\ v = ItemValue(a) /\ a.extra \in BOOLEAN
      /\ IsItem(it) /\ it.err = "SUCCESS"
  BY TypeIs DEF IsRead
<1>2. CheckTagRequirement(TagSpec(c, {"DATE_EPOCH"}, DateTypes), d) = IF A THEN "SUCCESS" ELSE "UNEXPECTED_TYPE"
  <2>1. d.type = AsDate(a) /\ d.tags = ExtraTags(a) /\ d.type # "NONE"
    BY <1>1, AsDateIs
  <2> DEFINE T == {"DATE_EPOCH"}
  <2> HIDE DEF d, T
  <2>2. CheckTagRequirement(TagSpec(c, T, DateTypes), d)
          = IF Allows(a, c, d.type, T, DateTypes) THEN "SUCCESS" ELSE "UNEXPECTED_TYPE"
    BY <1>1, <2>1, RequirementIs
  <2> QED BY <2>1, <2>2 DEF T, d
<1>3. A /\ a.fn # "AddNaN" <=> S
  BY DateAllowed
<1>4. r = IF A THEN IF it.type = "DATE_EPOCH" THEN Gives(v) ELSE g ELSE Unexpected
  <2> HIDE DEF d, A, g, v
  <2>1. ProcessEpochDate(c, it)
          = Checked(TagSpec(c, {"DATE_EPOCH"}, DateTypes), d, IF it.type = "DATE_EPOCH" THEN Gives(v) ELSE g)
    BY DEF ProcessEpochDate, DateTypes, d, g, v
  <2> QED BY <1>2, <2>1 DEF Checked, Unless, Unexpected
<1> HIDE DEF d, A, S, g
<1>5. CASE ~A
  BY <1>3, <1>4, <1>5, ResultsAre DEF DateRight, S
<1>6. ASSUME A, NEW e, e # "SUCCESS", g = Fails(e), it.type # "DATE_EPOCH", S => D \notin SafeDates
      PROVE  DateRight(a, c, r)
  <2>1. r = Fails(e)
    BY <1>4, <1>6
  <2>2. r.err # "SUCCESS"
    BY <1>6, <2>1, ResultsAre
  <2> HIDE DEF D
  <2> QED BY <1>6, <2>2 DEF DateRight, S, D
<1>7. ASSUME A, S, r = Gives(D)
      PROVE  DateRight(a, c, r)
  <2> HIDE DEF D
  <2>1. r.err = "SUCCESS" /\ r.v = D
    BY <1>7, ResultsAre
  <2> QED BY <1>7, <2>1 DEF DateRight, S, D
<1>8. \A x, e : DateResult(AsError(it, e)) = IF e = "SUCCESS" THEN Gives(v) ELSE Fails(e)
  <2>1. ASSUME NEW e PROVE AsError(it, e).err = e /\ AsError(it, e).val = v
    BY <1>1, Changed, RecordFields
  <2> QED BY <2>1 DEF DateResult, Unless
<1>9. CASE A /\ TypeOf(a) = "NAN"
  <2>1. a.fn = "AddNaN"
    BY <1>9, TypeIs, PlainTypeIs DEF PlainTypes
  <2>2. g = Fails("DATE_OVERFLOW") /\ ~S
    <3>1. DecodeDateEpoch(it) = AsError(it, "DATE_OVERFLOW")
      BY <1>1, <1>9 DEF DecodeDateEpoch
    <3> QED BY <1>3, <1>8, <2>1, <3>1 DEF g
  <2> HIDE DEF D
  <2>3. it.type # "DATE_EPOCH"
    BY <1>1, <1>9
  <2> QED BY <1>6, <1>9, <2>2, <2>3
<1>10. ASSUME A, a.fn \in IntAdders
       PROVE  DateRight(a, c, r)
  <2>1. v = a.arg /\ D = a.arg
    BY <1>1, <1>10 DEF ItemValue, ValueOf, IntAdders, FractionAdders, Fractions, BigFractions, DateOf
  <2>2. S
    BY <1>3, <1>10 DEF IntAdders
  <2>3. CASE it.type = "DATE_EPOCH"
    BY <1>4, <1>7, <1>10, <2>1, <2>2, <2>3
  <2>4. CASE it.type = "INT64"
    <3> DEFINE u == AsType(it, "DATE_EPOCH")
    <3>1. u.err = "SUCCESS" /\ u.val = v
      BY <1>1, Changed, RecordFields
    <3>2. DecodeDateEpoch(it) = u
      BY <2>4 DEF DecodeDateEpoch
    <3> HIDE DEF u
    <3>3. g = Gives(v)
      BY <3>1, <3>2 DEF g, DateResult, Unless
    <3> QED BY <1>4, <1>7, <1>10, <2>1, <2>2, <2>4, <3>3
  <2>5. CASE it.type = "UINT64"
    <3>1. a.fn = "AddInt64" /\ a.arg > INT_MAX
      <4>1. ~a.tag
        BY <1>1, <2>5, TypeIs DEF PlainTypes
      <4> QED BY <1>1, <2>5, <4>1, TypeIs, PlainTypeIs
    <3>2. D \notin SafeDates
      <4>1. INT_MAX \in Int /\ INT_MIN \in Int /\ Slack \in Nat
        BY Limits, WidthAssumption
      <4> QED BY <2>1, <3>1, <4>1 DEF SafeDates
    <3>3. DecodeDateEpoch(it) = AsError(it, "DATE_OVERFLOW")
      BY <2>5 DEF DecodeDateEpoch
    <3>4. g = Fails("DATE_OVERFLOW")
      BY <1>8, <3>3 DEF g
    <3> QED BY <1>6, <1>10, <2>5, <3>2, <3>4
  <2>6. it.type \in {"DATE_EPOCH", "INT64", "UINT64"}
    <3>1. CASE a.tag
      <4>1. TypeOf(a) \notin PlainTypes
        BY <3>1, TypeIs
      <4>2. AsDate(a) \in {"DATE_EPOCH"} \cup DateTypes
        BY <1>10 DEF A, Allows
      <4> QED BY <1>1, <4>1, <4>2, TypeIs, TaggedTypeIs, <3>1 DEF AsDate, DateTypes, PlainTypes, TaggedTypes
    <3>2. CASE ~a.tag
      BY <1>1, <1>10, <3>2, TypeIs, PlainTypeIs
    <3> QED BY <3>1, <3>2, TypeIs
  <2> QED BY <2>3, <2>4, <2>5, <2>6
<1>11. ASSUME A, TypeOf(a) = "DOUBLE"
       PROVE  DateRight(a, c, r)
  <2>1. a.fn = "AddDouble" /\ a.arg \in Int /\ v = a.arg /\ D = Scaled(v, 2, -1)
    <3>1. a.fn = "AddDouble"
      BY <1>11, TypeIs, PlainTypeIs DEF PlainTypes
    <3>2. a.arg \in Int
      BY <3>1 DEF IsAdd, ArgumentsOf, StringAdders
    <3> QED BY <1>1, <3>1, <3>2 DEF ItemValue, ValueOf, IntAdders, FractionAdders, Fractions, BigFractions, DateOf
  <2>2. S /\ it.type = "DOUBLE"
    BY <1>1, <1>3, <1>11, <2>1
  <2> DEFINE high == INT_MAX - Slack
             low == INT_MIN + Slack
             u == [AsType(it, "DATE_EPOCH") EXCEPT !.val = Signed(@, Magnitude(@) \div 2)]
             over == v > 2 * high \/ v < 2 * low
  <2>3. high \in Int /\ low \in Int /\ v \in Int
    BY <2>1, Limits, WidthAssumption
  <2>4. DecodeDateEpoch(it) = IF over THEN AsError(it, "DATE_OVERFLOW") ELSE u
    <3> HIDE DEF u, over
    <3> QED BY <2>2 DEF DecodeDateEpoch, over, u
  <2>5. CASE over
    <3>1. g = Fails("DATE_OVERFLOW")
      BY <1>8, <2>4, <2>5 DEF g
    <3>2. D >= high \/ D <= low
      <4> HIDE DEF high, low, D
      <4>1. (\A x \in Int : v > 2 * x => D >= x) /\ (\A x \in Int : v < 2 * x => D <= x)
        BY <2>1, <2>3, HalfIs
      <4> QED BY <2>3, <2>5, <4>1
    <3>3. D \notin SafeDates
      <4>1. D \in Int /\ INT_MAX \in Int /\ INT_MIN \in Int /\ Slack \in Nat
        BY <2>1, HalfIs, Limits, WidthAssumption
      <4> HIDE DEF D
      <4> QED BY <3>2, <4>1 DEF SafeDates
    <3> HIDE DEF D
    <3> QED BY <1>6, <1>11, <2>2, <3>1, <3>3
  <2>6. CASE ~over
    <3> DEFINE h == Signed(v, Magnitude(v) \div 2)
               y == AsType(it, "DATE_EPOCH")
    <3>1. y.err = "SUCCESS" /\ y.val = v /\ y = Record(it.err, "DATE_EPOCH", it.val, it.tags, it.lev, it.at)
      BY <1>1, Changed, RecordFields
    <3>2. u = [y EXCEPT !.val = h]
      <4> HIDE DEF h
      <4>1. Signed(y.val, Magnitude(y.val) \div 2) = h
        BY <3>1 DEF h
      <4> HIDE DEF y
      <4> QED BY <4>1 DEF y
    <3>3. u.err = "SUCCESS" /\ u.val = h
      <4> HIDE DEF h, y, u, v
      <4>1. u.err = y.err /\ u.val = h
        BY <3>1, <3>2 DEF Record
      <4> QED BY <3>1, <4>1
    <3>4. g = Gives(h)
      <4> HIDE DEF h, u, v, over
      <4> QED BY <2>4, <2>6, <3>3 DEF g, DateResult, Unless
    <3>5. D = h
      BY <2>1, HalfIs
    <3>6. r = Gives(D)
      <4> HIDE DEF h, D, v
      <4> QED BY <1>4, <1>11, <2>2, <3>4, <3>5
    <3> QED BY <1>7, <1>11, <2>2, <3>6
  <2> QED BY <2>5, <2>6
<1>12. ASSUME A
       PROVE  TypeOf(a) = "NAN" \/ TypeOf(a) = "DOUBLE" \/ a.fn \in IntAdders
  <2>1. CASE a.tag
    <3>1. a.fn = "AddTDateEpoch"
      BY <1>3, <1>12, <2>1, TypeIs DEF S, Satisfies, IsAdd, Untagged
    <3> QED BY <3>1 DEF IntAdders
  <2>2. CASE ~a.tag
    <3>1. a.fn = "AddNaN" \/ a.fn \in {"AddInt64", "AddTDateEpoch", "AddTDaysEpoch", "AddDouble"}
      <4>1. CASE a.fn # "AddNaN"
        <5>1. PlainAs(a) \in {"AddInt64", "AddDouble"}
          BY <1>3, <1>12, <2>2, <4>1 DEF S, Satisfies
        <5>2. a.fn \in OneToken \cup FractionAdders
          BY AddersAre
        <5> QED BY <5>1, <5>2, PlainAsIs DEF OneToken, IntAdders
      <4> QED BY <4>1
    <3> QED BY <2>2, <3>1, TypeIs, PlainTypeIs DEF IntAdders
  <2> QED BY <2>1, <2>2, TypeIs
<1> QED BY <1>5, <1>9, <1>10, <1>11, <1>12

\* A requirement, for what was added with its tag and without one.
LEMMA AllowedIs ==
  ASSUME NEW a, IsAdd(a), NEW c, NEW T, T \subseteq TaggedTypes, NEW C, C \subseteq PlainTypes
  PROVE  Allows(a, c, TypeOf(a), T, C)
           <=> /\ a.extra => c.more
               /\ IF a.tag THEN TaggedType(a) \in T /\ c.req # "NOT_A_TAG" ELSE PlainType(a) \in C /\ c.req # "TAG"
<1>1. CASE a.tag
  <2>1. TypeOf(a) = TaggedType(a) /\ TypeOf(a) \notin C
    BY <1>1, TypeIs
  <2> QED BY <1>1, <2>1 DEF Allows
<1>2. CASE ~a.tag
  <2>1. TypeOf(a) = PlainType(a) /\ TypeOf(a) \notin T
    BY <1>2, TypeIs
  <2> QED BY <1>2, <2>1 DEF Allows
<1> QED BY <1>1, <1>2, TypeIs

LEMMA PlainAsInt ==
  ASSUME NEW a, IsAdd(a)
  PROVE  /\ PlainAs(a) = "AddInt64" <=> a.fn \in IntAdders
         /\ PlainAs(a) = "AddBytes" <=> a.fn \in ByteAdders
<1>1. a.fn \in OneToken \cup FractionAdders
  BY AddersAre
<1>2. ~(a.fn \in IntAdders /\ a.fn \in ByteAdders)
  BY DEF IntAdders, ByteAdders
<1> QED BY <1>1, <1>2, PlainAsIs DEF OneToken

DaysRight(a, c, r) ==
  /\ r.err = "SUCCESS" => r.v = a.arg
  /\ r.err = "SUCCESS" <=> Satisfies(a, c, {"AddTDaysEpoch"}, {"AddInt64"}) /\ a.arg \in INT_MIN..INT_MAX

\* A number of days is an integer.
LEMMA DaysAre ==
  ASSUME NEW a, IsAdd(a), NEW c, c.more \in BOOLEAN, NEW it, IsRead(it, a), ~TooNegative(a),
         NEW r, r = ProcessEpochDays(c, it)
  PROVE  DaysRight(a, c, r)
<1> DEFINE T == {"DAYS_EPOCH"}
           C == {"INT64", "UINT64"}
           A == Allows(a, c, TypeOf(a), T, C)
           S == Satisfies(a, c, {"AddTDaysEpoch"}, {"AddInt64"})
           g == DateResult(DecodeDaysEpoch(it))
           v == it.val
           R == INT_MIN..INT_MAX
<1>1. it.type = TypeOf(a) /\ it.tags = ExtraTags(a) /\ v = ItemValue(a) /\ a.extra \in BOOLEAN
      /\ IsItem(it) /\ it.err = "SUCCESS" /\ it.type # "NONE"
  BY TypeIs DEF IsRead
<1>2. CheckTagRequirement(TagSpec(c, T, C), it) = IF A THEN "SUCCESS" ELSE "UNEXPECTED_TYPE"
  BY <1>1, RequirementIs
<1>3. r = IF A THEN IF it.type = "DAYS_EPOCH" THEN Gives(v) ELSE g ELSE Unexpected
  <2> HIDE DEF A, g, v
  <2>1. ProcessEpochDays(c, it)
          = Checked(TagSpec(c, T, C), it, IF it.type = "DAYS_EPOCH" THEN Gives(v) ELSE g)
    BY DEF ProcessEpochDays, g, v
  <2> QED BY <1>2, <2>1 DEF Checked, Unless, Unexpected
<1>4. T \subseteq TaggedTypes /\ C \subseteq PlainTypes
  BY DEF TaggedTypes, PlainTypes
<1>5. A <=> /\ a.extra => c.more
            /\ IF a.tag THEN TaggedType(a) \in T /\ c.req # "NOT_A_TAG" ELSE PlainType(a) \in C /\ c.req # "TAG"
  <2> HIDE DEF T, C
  <2> QED BY <1>4, AllowedIs
<1>6. a.tag => (TaggedType(a) = "DAYS_EPOCH" <=> a.fn = "AddTDaysEpoch")
  <2> DEFINE m == <<"AddTDaysEpoch", "DAYS_EPOCH">>
  <2>1. m[1] = "AddTDaysEpoch" /\ m[2] = "DAYS_EPOCH" /\ m \in TypeOfAdder
    BY DEF TypeOfAdder
  <2> HIDE DEF m
  <2> QED BY <2>1, TaggedTypeIs
<1>7. A <=> S
  <2>1. PlainType(a) \in C <=> PlainAs(a) = "AddInt64"
    BY PlainTypeIs, PlainAsInt
  <2> HIDE DEF A
  <2> QED BY <1>5, <1>6, <2>1 DEF Satisfies
<1>8. \A x, e : DateResult(AsError(it, e)) = IF e = "SUCCESS" THEN Gives(v) ELSE Fails(e)
  <2>1. ASSUME NEW e PROVE AsError(it, e).err = e /\ AsError(it, e).val = v
    BY <1>1, Changed, RecordFields
  <2> QED BY <2>1 DEF DateResult, Unless
<1> HIDE DEF A, g, R
<1>9. ASSUME A, v = a.arg, a.arg \in R, r = Gives(v)
      PROVE  DaysRight(a, c, r)
  BY <1>7, <1>9, ResultsAre DEF DaysRight, S, R
<1>10. ASSUME r.err # "SUCCESS", ~S \/ a.arg \notin R
       PROVE  DaysRight(a, c, r)
  BY <1>10 DEF DaysRight, S, R
<1>11. CASE ~A
  <2>1. r.err # "SUCCESS"
    BY <1>3, <1>11, ResultsAre
  <2> QED BY <1>7, <1>10, <1>11, <2>1
<1>12. CASE A
  <2>1. a.fn \in IntAdders /\ v = a.arg
    <3>1. a.fn \in IntAdders
      <4>1. CASE a.tag
        BY <1>5, <1>6, <1>12, <4>1 DEF IntAdders
      <4>2. CASE ~a.tag
        BY <1>5, <1>12, <4>2, PlainTypeIs
      <4> QED BY <4>1, <4>2, TypeIs
    <3> QED BY <1>1, <3>1 DEF ItemValue, ValueOf, IntAdders, FractionAdders, Fractions, BigFractions
  <2>2. a.fn # "AddInt64" => a.arg \in R
    BY <2>1 DEF IsAdd, ArgumentsOf, StringAdders, IntAdders, R
  <2>3. CASE it.type = "UINT64"
    <3>1. a.fn = "AddInt64" /\ a.arg > INT_MAX
      <4>1. ~a.tag
        BY <1>1, <2>3, TypeIs DEF PlainTypes
      <4> QED BY <1>1, <2>3, <4>1, TypeIs, PlainTypeIs
    <3>2. a.arg \notin R
      BY <3>1, Limits DEF R
    <3>3. DecodeDaysEpoch(it) = AsError(it, "DATE_OVERFLOW")
      BY <2>3 DEF DecodeDaysEpoch
    <3>4. r = Fails("DATE_OVERFLOW")
      BY <1>3, <1>8, <1>12, <2>3, <3>3 DEF g
    <3> QED BY <1>10, <3>2, <3>4, ResultsAre
  <2>4. CASE it.type # "UINT64"
    <3>1. a.arg \in R
      <4>1. CASE a.fn # "AddInt64"
        BY <2>2, <4>1
      <4>2. CASE a.fn = "AddInt64"
        <5>1. ~a.tag
          BY <4>2, TypeIs DEF IsAdd, Untagged
        <5>2. ~(a.arg > INT_MAX) /\ ~(a.arg < INT_MIN)
          BY <1>1, <2>4, <4>2, <5>1, TypeIs, PlainTypeIs DEF TooNegative
        <5>3. a.arg \in Int
          <6>1. UINT_MAX \in Int
            BY Limits
          <6> QED BY <4>2, <6>1 DEF IsAdd, ArgumentsOf, StringAdders
        <5> QED BY <5>2, <5>3, Limits DEF R
      <4> QED BY <4>1, <4>2
    <3>2. it.type \in {"DAYS_EPOCH", "INT64"}
      <4>1. CASE a.tag
        BY <1>1, <1>5, <1>12, <4>1, TypeIs
      <4>2. CASE ~a.tag
        BY <1>1, <1>5, <1>12, <2>4, <4>2, TypeIs
      <4> QED BY <4>1, <4>2, TypeIs
    <3>3. r = Gives(v)
      <4>1. CASE it.type = "DAYS_EPOCH"
        BY <1>3, <1>12, <4>1
      <4>2. CASE it.type = "INT64"
        <5> DEFINE u == AsType(it, "DAYS_EPOCH")
        <5>1. u.err = "SUCCESS" /\ u.val = v
          BY <1>1, Changed, RecordFields
        <5>2. DecodeDaysEpoch(it) = u
          BY <4>2 DEF DecodeDaysEpoch
        <5> HIDE DEF u
        <5>3. g = Gives(v)
          BY <5>1, <5>2 DEF g, DateResult, Unless
        <5> QED BY <1>3, <1>12, <4>2, <5>3
      <4> QED BY <3>2, <4>1, <4>2
    <3> HIDE DEF v
    <3> QED BY <1>9, <1>12, <2>1, <3>1, <3>3
  <2> QED BY <2>3, <2>4
<1> QED BY <1>11, <1>12

BignumRight(a, c, r) ==
  /\ r.err = "SUCCESS" <=> Satisfies(a, c, BigAdders, {"AddBytes"})
  /\ r.err = "SUCCESS" => r.v.digits = a.arg
  /\ r.err = "SUCCESS" /\ a.tag => r.v.neg = (a.fn = "AddTNegativeBignum")

\* A big number has its digits and its sign.
LEMMA BignumIs ==
  ASSUME NEW a, IsAdd(a), NEW c, c.more \in BOOLEAN, NEW it, IsRead(it, a), ~TooNegative(a),
         NEW r, r = ProcessBigNum(c, it)
  PROVE  BignumRight(a, c, r)
<1> DEFINE T == {"POSBIGNUM", "NEGBIGNUM"}
           C == {"BYTE_STRING"}
           A == Allows(a, c, TypeOf(a), T, C)
           S == Satisfies(a, c, BigAdders, {"AddBytes"})
           v == it.val
           n == CASE it.type = "POSBIGNUM" -> FALSE [] it.type = "NEGBIGNUM" -> TRUE [] OTHER -> "unwritten"
           w == [digits |-> v, neg |-> n]
<1>1. it.type = TypeOf(a) /\ it.tags = ExtraTags(a) /\ v = ItemValue(a) /\ a.extra \in BOOLEAN
      /\ it.type # "NONE"
  BY TypeIs DEF IsRead
<1>2. CheckTagRequirement(TagSpec(c, T, C), it) = IF A THEN "SUCCESS" ELSE "UNEXPECTED_TYPE"
  BY <1>1, RequirementIs
<1>3. r = IF A THEN Gives(w) ELSE Unexpected
  <2> HIDE DEF A, w
  <2>1. ProcessBigNum(c, it) = Checked(TagSpec(c, T, C), it, Gives(w))
    BY DEF ProcessBigNum, w
  <2> QED BY <1>2, <2>1 DEF Checked, Unless, Unexpected
<1>4. T \subseteq TaggedTypes /\ C \subseteq PlainTypes
  BY DEF TaggedTypes, PlainTypes
<1>5. A <=> /\ a.extra => c.more
            /\ IF a.tag THEN TaggedType(a) \in T /\ c.req # "NOT_A_TAG" ELSE PlainType(a) \in C /\ c.req # "TAG"
  <2> HIDE DEF T, C
  <2> QED BY <1>4, AllowedIs
<1>6. a.tag => /\ TaggedType(a) = "POSBIGNUM" <=> a.fn = "AddTPositiveBignum"
               /\ TaggedType(a) = "NEGBIGNUM" <=> a.fn = "AddTNegativeBignum"
  <2> DEFINE p == <<"AddTPositiveBignum", "POSBIGNUM">>
             q == <<"AddTNegativeBignum", "NEGBIGNUM">>
  <2>1. /\ p[1] = "AddTPositiveBignum" /\ p[2] = "POSBIGNUM" /\ p \in TypeOfAdder
        /\ q[1] = "AddTNegativeBignum" /\ q[2] = "NEGBIGNUM" /\ q \in TypeOfAdder
    BY DEF TypeOfAdder
  <2> HIDE DEF p, q
  <2> QED BY <2>1, TaggedTypeIs
<1>7. A <=> S
  <2>1. PlainType(a) \in C <=> PlainAs(a) = "AddBytes"
    BY PlainTypeIs, PlainAsInt
  <2> HIDE DEF A
  <2> QED BY <1>5, <1>6, <2>1 DEF Satisfies, BigAdders
<1> HIDE DEF A, S
<1>8. A => v = a.arg
  <2>1. A => a.fn \in ByteAdders
    <3>1. CASE a.tag
      BY <1>5, <1>6, <3>1 DEF ByteAdders
    <3>2. CASE ~a.tag
      BY <1>5, <3>2, PlainTypeIs
    <3> QED BY <3>1, <3>2, TypeIs
  <2> QED BY <1>1, <2>1 DEF ItemValue, ValueOf, ByteAdders, FractionAdders, Fractions, BigFractions
<1>9. A /\ a.tag => n = (a.fn = "AddTNegativeBignum")
  <2> SUFFICES ASSUME A, a.tag PROVE n = (a.fn = "AddTNegativeBignum")
    OBVIOUS
  <2>1. it.type = TaggedType(a) /\ it.type \in T
    BY <1>1, <1>5, TypeIs
  <2>2. CASE it.type = "POSBIGNUM"
    <3>1. n = FALSE
      BY <2>2
    <3> HIDE DEF n
    <3> QED BY <1>6, <2>1, <2>2, <3>1
  <2>3. CASE it.type = "NEGBIGNUM"
    <3>1. n = TRUE
      BY <2>3
    <3> HIDE DEF n
    <3> QED BY <1>6, <2>1, <2>3, <3>1
  <2> QED BY <2>1, <2>2, <2>3
<1> HIDE DEF n
<1>10. w.digits = v /\ w.neg = n
  OBVIOUS
<1> HIDE DEF w, v
<1>11. CASE A
  <2>1. r.err = "SUCCESS" /\ r.v = w
    BY <1>3, <1>11, ResultsAre
  <2> QED BY <1>7, <1>8, <1>9, <1>10, <1>11, <2>1 DEF BignumRight, S
<1>12. CASE ~A
  <2>1. r.err # "SUCCESS"
    BY <1>3, <1>12, ResultsAre
  <2> QED BY <1>7, <1>12, <2>1 DEF BignumRight, S
<1> QED BY <1>11, <1>12

\* What the getters for dates, days and big numbers give.
LEMMA DatesRight ==
  ASSUME NEW a, IsAdd(a), NEW c, c.more \in BOOLEAN, NEW r, Answers(a, c, r)
  PROVE  /\ c.fn = "GetEpochDate" => DateRight(a, c, r)
         /\ c.fn = "GetEpochDays" => DaysRight(a, c, r)
         /\ c.fn = "GetBignum" => BignumRight(a, c, r)
<1>0. c.fn \in {"GetEpochDate", "GetEpochDays", "GetBignum"} => c.fn \notin FractionGetters
  BY DEF FractionGetters
<1>1. PICK it : /\ IsRead(it, a)
                /\ ~TooNegative(a) => r = Result(c, it)
                /\ TooNegative(a) /\ c.fn \notin FractionGetters => r = Fails("INT_OVERFLOW")
  BY OutcomeIs
<1>2. CASE TooNegative(a)
  <2> SUFFICES ASSUME c.fn \in {"GetEpochDate", "GetEpochDays", "GetBignum"}
               PROVE  DateRight(a, c, r) /\ DaysRight(a, c, r) /\ BignumRight(a, c, r)
    OBVIOUS
  <2>1. r.err # "SUCCESS"
    BY <1>0, <1>1, <1>2, ResultsAre
  <2>2. a.fn = "AddInt64" /\ a.arg < INT_MIN /\ a.arg \in Int
    <3>1. UINT_MAX \in Int
      BY Limits
    <3> QED BY <1>2, <3>1 DEF TooNegative, IsAdd, ArgumentsOf, StringAdders
  <2>3. DateOf(a) \notin SafeDates
    <3>1. INT_MAX \in Int /\ INT_MIN \in Int /\ Slack \in Nat
      BY Limits, WidthAssumption
    <3>2. DateOf(a) = a.arg
      BY <2>2 DEF DateOf
    <3> QED BY <2>2, <3>1, <3>2 DEF SafeDates
  <2>4. DateRight(a, c, r)
    BY <2>1, <2>3 DEF DateRight
  <2>5. DaysRight(a, c, r)
    <3>1. a.arg \notin INT_MIN..INT_MAX
      BY <2>2, Limits
    <3> QED BY <2>1, <3>1 DEF DaysRight
  <2>6. BignumRight(a, c, r)
    <3>1. ~a.tag
      BY <2>2, TypeIs DEF IsAdd, Untagged
    <3>2. PlainAs(a) # "AddBytes"
      BY <2>2, PlainAsInt DEF ByteAdders
    <3>3. ~Satisfies(a, c, BigAdders, {"AddBytes"})
      BY <3>1, <3>2 DEF Satisfies
    <3> QED BY <2>1, <3>3 DEF BignumRight
  <2> QED BY <2>4, <2>5, <2>6
<1>3. CASE ~TooNegative(a)
  <2>0. r = Result(c, it)
    BY <1>1, <1>3
  <2>1. ASSUME c.fn = "GetEpochDate" PROVE DateRight(a, c, r)
    <3>1. r = ProcessEpochDate(c, it)
      BY <2>0, <2>1 DEF Result
    <3> QED BY <1>1, <1>3, <3>1, DateIs
  <2>2. ASSUME c.fn = "GetEpochDays" PROVE DaysRight(a, c, r)
    <3>1. r = ProcessEpochDays(c, it)
      BY <2>0, <2>2 DEF Result
    <3> QED BY <1>1, <1>3, <3>1, DaysAre
  <2>3. ASSUME c.fn = "GetBignum" PROVE BignumRight(a, c, r)
    <3>1. r = ProcessBigNum(c, it)
      BY <2>0, <2>3 DEF Result
    <3> QED BY <1>1, <1>3, <3>1, BignumIs
  <2> QED BY <2>1, <2>2, <2>3
<1> QED BY <1>2, <1>3

-----------------------------------------------------------------------------
(* The items of numbers                                                     *)

LEMMA ScaledOne ==
  ASSUME NEW n \in Int
  PROVE  Scaled(n, 1, Capped(1, 0)) = n
<1>1. EnoughExp(1) \in Nat
  BY WidthAssumption DEF EnoughExp
<1>2. Capped(1, 0) = 0
  <2> DEFINE m == EnoughExp(1)
  <2>1. ~(0 > m) /\ ~(0 < -m)
    BY <1>1
  <2> HIDE DEF m
  <2> QED BY <2>1 DEF Capped, m
<1>3. Pow(1, 0) = 1
  BY PowStep
<1>4. Scaled(n, 1, 0) = n * Pow(1, 0)
  BY DEF Scaled
<1> QED BY <1>2, <1>3, <1>4

\* The number a big number stands for.
LEMMA BigNumberIs ==
  ASSUME NEW neg \in BOOLEAN, NEW s \in Bytes
  PROVE  /\ Digits(s) \in Nat /\ BigNumber(neg, s) \in Int
         /\ neg => BigNumber(neg, s) = -1 - Digits(s)
         /\ ~neg => BigNumber(neg, s) = Digits(s)
<1>1. Digits(s) \in Nat
  BY PartialIs
<1> QED BY <1>1 DEF BigNumber

\* The option the code wants for a conversion to an integer.
IntOption(a) == IF a.fn = "AddTBigFloatBigNum" THEN "DECIMAL_FRACTION" ELSE OptionFor(a)

\* But for one kind of number it is the one for that kind.
LEMMA OptionIs ==
  ASSUME NEW a, a.fn # "AddTBigFloatBigNum"
  PROVE  OptionFor(a) = IntOption(a)
BY DEF IntOption

\* An item is v, for the number num, which integer n is the nearest to, and is
\* converted with an option.
NumberIs(a, type, v, num, n, int, double) ==
  /\ TypeOf(a) = type /\ ItemValue(a) = v /\ NumberOf(a) = num /\ IntegerOf(a) = n
  /\ IntOption(a) = int /\ OptionFor(a) = double

\* The number an entry that is an integer stands for.
LEMMA IntNumber ==
  ASSUME NEW a, IsAdd(a), a.fn = "AddInt64"
  PROVE  /\ a.arg \in Int /\ a.arg <= UINT_MAX /\ (~TooNegative(a) => a.arg >= INT_MIN)
         /\ NumberIs(a, IF a.arg > INT_MAX THEN "UINT64" ELSE "INT64", a.arg, <<a.arg, 1, 0>>, a.arg,
                     "XINT64", "XINT64")
<1>1. a.arg \in Int /\ a.arg <= UINT_MAX
  <2>1. UINT_MAX \in Int
    BY Limits
  <2> QED BY <2>1 DEF IsAdd, ArgumentsOf, StringAdders
<1>2. TooNegative(a) <=> a.arg < INT_MIN
  BY DEF TooNegative
<1>3. ~a.tag
  BY TypeIs DEF IsAdd, Untagged
<1>4. TypeOf(a) = IF a.arg > INT_MAX THEN "UINT64" ELSE "INT64"
  BY <1>3 DEF TypeOf, PlainType, IntAdders, ByteAdders, TextAdders, FractionAdders, Fractions, BigFractions
<1>5. ItemValue(a) = a.arg /\ NumberOf(a) = <<a.arg, 1, 0>>
  BY <1>3 DEF ItemValue, ValueOf, NumberOf, FractionAdders, Fractions, BigFractions
<1>6. IntegerOf(a) = a.arg
  <2>1. NumberOf(a)[1] = a.arg /\ NumberOf(a)[2] = 1 /\ NumberOf(a)[3] = 0
    BY <1>5
  <2>2. IntegerOf(a) = Scaled(a.arg, 1, Capped(1, 0))
    BY <2>1 DEF IntegerOf
  <2> QED BY <1>1, <2>2, ScaledOne
<1>7. OptionFor(a) = "XINT64"
  BY DEF OptionFor
<1> QED BY <1>1, <1>2, <1>4, <1>5, <1>6, <1>7, Limits DEF NumberIs, IntOption

\* That of a double.
LEMMA DoubleNumber ==
  ASSUME NEW a, IsAdd(a), a.fn = "AddDouble"
  PROVE  /\ a.arg \in Int
         /\ NumberIs(a, "DOUBLE", a.arg, <<a.arg, 2, -1>>, Rounded(a.arg), "FLOAT", "FLOAT")
<1>1. a.arg \in Int
  BY DEF IsAdd, ArgumentsOf, StringAdders
<1>2. ~a.tag
  BY TypeIs DEF IsAdd, Untagged
<1>3. TypeOf(a) = "DOUBLE"
  BY <1>2, TypeIs, PlainTypeIs DEF PlainType, ByteAdders, TextAdders
<1>4. ItemValue(a) = a.arg /\ NumberOf(a) = <<a.arg, 2, -1>>
  <2> DEFINE e == -1
  <2> HIDE DEF e
  <2>1. NumberOf(a) = <<a.arg, 2, e>>
    BY DEF NumberOf, e, Fractions, BigFractions
  <2>2. ItemValue(a) = a.arg
    BY <1>2 DEF ItemValue, ValueOf, FractionAdders, Fractions, BigFractions
  <2> QED BY <2>1, <2>2 DEF e
<1>5. IntegerOf(a) = Rounded(a.arg)
  BY DEF IntegerOf
<1>6. OptionFor(a) = "FLOAT"
  BY DEF OptionFor
<1> QED BY <1>1, <1>3, <1>4, <1>5, <1>6 DEF NumberIs, IntOption

\* That of a big number.
LEMMA BigNumberItem ==
  ASSUME NEW a, IsAdd(a), a.tag, a.fn \in BigAdders,
         NEW neg, neg = (a.fn = "AddTNegativeBignum")
  PROVE  /\ a.arg \in Bytes
         /\ NumberIs(a, IF neg THEN "NEGBIGNUM" ELSE "POSBIGNUM", a.arg, <<BigNumber(neg, a.arg), 1, 0>>,
                     BigNumber(neg, a.arg), "BIG_NUM", "BIG_NUM")
<1> DEFINE m == BigNumber(neg, a.arg)
<1>1. a.arg \in Bytes /\ neg \in BOOLEAN
  BY DEF IsAdd, ArgumentsOf, StringAdders, BigAdders, Bytes
<1>2. m \in Int
  BY <1>1, BigNumberIs
<1>3. TypeOf(a) = IF neg THEN "NEGBIGNUM" ELSE "POSBIGNUM"
  BY DEF TypeOf, TaggedType, BigAdders
<1>4. ItemValue(a) = a.arg
  BY DEF ItemValue, ValueOf, FractionAdders, Fractions, BigFractions, BigAdders
<1>5. NumberOf(a) = <<m, 1, 0>>
  <2>1. CASE neg
    <3>1. a.fn = "AddTNegativeBignum" /\ m = BigNumber(TRUE, a.arg)
      BY <2>1 DEF BigNumber
    <3> HIDE DEF m
    <3> QED BY <3>1 DEF NumberOf, Fractions, BigFractions
  <2>2. CASE ~neg
    <3>1. a.fn = "AddTPositiveBignum" /\ m = BigNumber(FALSE, a.arg)
      BY <2>2 DEF BigNumber, BigAdders
    <3> HIDE DEF m
    <3> QED BY <3>1 DEF NumberOf, Fractions, BigFractions
  <2> QED BY <2>1, <2>2
<1> HIDE DEF m
<1>6. IntegerOf(a) = m
  <2>1. NumberOf(a)[1] = m /\ NumberOf(a)[2] = 1 /\ NumberOf(a)[3] = 0
    BY <1>5
  <2>2. IntegerOf(a) = Scaled(m, 1, Capped(1, 0))
    BY <2>1 DEF IntegerOf, BigAdders
  <2> QED BY <1>2, <2>2, ScaledOne
<1>7. OptionFor(a) = "BIG_NUM"
  BY DEF OptionFor, BigAdders
<1>8. a.fn # "AddTBigFloatBigNum"
  BY DEF BigAdders
<1> QED BY <1>1, <1>3, <1>4, <1>5, <1>6, <1>7, <1>8 DEF NumberIs, IntOption, m

\* The mantissa of a fraction as a number.
MantissaNumber(a) == IF a.fn \in Fractions THEN a.arg.mant ELSE BigNumber(a.arg.neg, a.arg.mant)
BaseFlag(b)       == IF b = 10 THEN "DECIMAL_FRACTION" ELSE "BIGFLOAT"

\* That of a fraction.
LEMMA FractionNumber ==
  ASSUME NEW a, IsAdd(a), a.tag, a.fn \in FractionAdders, NEW b, b = BaseOf(a)
  PROVE  /\ b \in {2, 10} /\ MantissaNumber(a) \in Int
         /\ FractionBase(TypeOf(a)) = b /\ FractionFlag(TypeOf(a)) = IntOption(a)
         /\ NumberIs(a, TypeOf(a), [mant |-> a.arg.mant, exp |-> a.arg.exp],
                     <<MantissaNumber(a), b, a.arg.exp>>,
                     Scaled(MantissaNumber(a), b, Capped(b, a.arg.exp)), IntOption(a), BaseFlag(b))
<1> DEFINE m == MantissaNumber(a)
           e == a.arg.exp
<1>1. b \in {2, 10} /\ a.fn \in Fractions \cup BigFractions
  BY DEF BaseOf, FractionAdders
<1>2. m \in Int
  BY <1>1, FractionArgs, BigNumberIs, Limits DEF MantissaNumber, Fractions, BigFractions
<1>3. NumberOf(a) = <<m, b, e>>
  <2>1. CASE a.fn \in Fractions
    <3>1. m = a.arg.mant
      BY <2>1 DEF MantissaNumber
    <3> HIDE DEF m
    <3> QED BY <2>1, <3>1 DEF NumberOf, Fractions, BigFractions
  <2>2. CASE a.fn \in BigFractions
    <3>1. m = BigNumber(a.arg.neg, a.arg.mant)
      BY <2>2 DEF MantissaNumber, Fractions, BigFractions
    <3> HIDE DEF m
    <3> QED BY <2>2, <3>1 DEF NumberOf, Fractions, BigFractions
  <2> QED BY <1>1, <2>1, <2>2
<1> HIDE DEF m
<1>4. IntegerOf(a) = Scaled(m, b, Capped(b, e))
  <2>1. NumberOf(a)[1] = m /\ NumberOf(a)[2] = b /\ NumberOf(a)[3] = e
    BY <1>3
  <2> HIDE DEF e
  <2> QED BY <1>1, <2>1 DEF IntegerOf, Fractions, BigFractions
<1>5. a.fn \in BigFractions => a.arg.neg \in BOOLEAN
  BY FractionArgs
<1>6. FractionBase(TypeOf(a)) = b
  BY <1>1, <1>5 DEF FractionBase, TypeOf, TaggedType, BaseOf, Fractions, BigFractions
<1>7. FractionFlag(TypeOf(a)) = IntOption(a)
  BY <1>1, <1>5 DEF FractionFlag, TypeOf, TaggedType, Fractions, BigFractions, IntOption, OptionFor
<1>8. OptionFor(a) = BaseFlag(b)
  BY <1>1 DEF OptionFor, BaseFlag, BaseOf, Fractions, BigFractions
<1>9. ItemValue(a) = [mant |-> a.arg.mant, exp |-> e]
  BY DEF ItemValue
<1> QED BY <1>1, <1>2, <1>3, <1>4, <1>6, <1>7, <1>8, <1>9 DEF NumberIs, m

-----------------------------------------------------------------------------
(* Integers                                                                 *)

Signeds   == INT_MIN..INT_MAX
Unsigneds == 0..UINT_MAX

\* What a conversion to an integer in R gives is right for what was added.
IntRight(a, R, o, r) ==
  /\ r.err = "SUCCESS" => IntegerOf(a) \in R /\ r.v = IntegerOf(a) /\ IntOption(a) \in o
  /\ r.err = UnderOver =>
       \/ IntegerOf(a) \notin R \/ IntegerOf(a) = 0
       \/ NumberOf(a)[1] \notin R
       \/ a.fn = "AddDouble" /\ IntegerOf(a) > UINT_MAX - Slack
  /\ r.err = "NUMBER_SIGN_CONVERSION" => NumberOf(a)[1] < 0

LEMMA IntRightIs ==
  ASSUME NEW a, NEW R, NEW o, NEW r, NEW n, n = IntegerOf(a), NEW m, m = NumberOf(a)[1],
         \/ r = Gives(n) /\ n \in R /\ IntOption(a) \in o
         \/ r = Fails(UnderOver)
              /\ (n \notin R \/ n = 0 \/ m \notin R \/ (a.fn = "AddDouble" /\ n > UINT_MAX - Slack))
         \/ r = Fails("NUMBER_SIGN_CONVERSION") /\ m < 0
         \/ r.err \notin {"SUCCESS", UnderOver, "NUMBER_SIGN_CONVERSION"}
  PROVE  IntRight(a, R, o, r)
<1>1. CASE r = Gives(n) /\ n \in R /\ IntOption(a) \in o
  <2>1. r.err = "SUCCESS" /\ r.v = n
    BY <1>1, ResultsAre
  <2> QED BY <1>1, <2>1 DEF IntRight, UnderOver
<1>2. CASE r = Fails(UnderOver)
             /\ (n \notin R \/ n = 0 \/ m \notin R \/ (a.fn = "AddDouble" /\ n > UINT_MAX - Slack))
  <2>1. r.err = UnderOver
    BY <1>2, ResultsAre
  <2> QED BY <1>2, <2>1 DEF IntRight, UnderOver
<1>3. CASE r = Fails("NUMBER_SIGN_CONVERSION") /\ m < 0
  <2>1. r.err = "NUMBER_SIGN_CONVERSION"
    BY <1>3, ResultsAre
  <2> QED BY <1>3, <2>1 DEF IntRight, UnderOver
<1>4. CASE r.err \notin {"SUCCESS", UnderOver, "NUMBER_SIGN_CONVERSION"}
  BY <1>4 DEF IntRight
<1> QED BY <1>1, <1>2, <1>3, <1>4

\* To refuse a type is right.
LEMMA UnexpectedRight ==
  ASSUME NEW a, NEW R, NEW o, NEW e, e \notin {"SUCCESS", UnderOver, "NUMBER_SIGN_CONVERSION"}
  PROVE  IntRight(a, R, o, Unexpected) /\ IntRight(a, R, o, Fails(e))
<1>1. Unexpected.err \notin {"SUCCESS", UnderOver, "NUMBER_SIGN_CONVERSION"}
  BY ResultsAre DEF UnderOver
<1>2. Fails(e).err \notin {"SUCCESS", UnderOver, "NUMBER_SIGN_CONVERSION"}
  BY ResultsAre DEF UnderOver
<1> QED BY <1>1, <1>2, IntRightIs

LEMMA IfRight ==
  ASSUME NEW a, NEW R, NEW o, NEW x, IntOption(a) \in o => IntRight(a, R, o, x)
  PROVE  IntRight(a, R, o, If(IntOption(a), o, x))
<1>1. IntRight(a, R, o, Unexpected)
  <2>1. "UNEXPECTED_TYPE" \notin {"SUCCESS", UnderOver, "NUMBER_SIGN_CONVERSION"}
    BY DEF UnderOver
  <2> QED BY <2>1, UnexpectedRight
<1> QED BY <1>1 DEF If

\* A big number converted to int64_t.
LEMMA SignedIs ==
  ASSUME NEW neg \in BOOLEAN, NEW s \in Bytes, NEW m, m = BigNumber(neg, s)
  PROVE  (IF neg THEN ConvertNegativeBigNumToSigned(s) ELSE ConvertPositiveBigNumToSigned(s))
           = IF m \in Signeds THEN Gives(m) ELSE Fails(UnderOver)
<1> DEFINE D == Digits(s)
           u == ConvertBigNumToUnsigned(s, INT_MAX)
<1>1. D \in Nat /\ m \in Int /\ (neg => m = -1 - D) /\ (~neg => m = D)
  BY BigNumberIs
<1>2. u = IF D <= INT_MAX THEN Gives(D) ELSE Fails(UnderOver)
  BY UnsignedIs
<1>3. D <= INT_MAX <=> m \in Signeds
  <2> HIDE DEF D
  <2> QED BY <1>1, Limits DEF Signeds
<1>4. ConvertNegativeBigNumToSigned(s) = IF u.err = "SUCCESS" THEN Gives(-u.v - 1) ELSE u
  BY DEF ConvertNegativeBigNumToSigned, Then
<1>5. ConvertPositiveBigNumToSigned(s) = u
  BY DEF ConvertPositiveBigNumToSigned
<1> HIDE DEF D, u
<1>6. CASE D <= INT_MAX
  <2>1. u = Gives(D) /\ u.err = "SUCCESS" /\ u.v = D
    BY <1>2, <1>6, ResultsAre
  <2>2. neg => -D - 1 = m
    <3> SUFFICES ASSUME neg PROVE -D - 1 = m
      OBVIOUS
    <3>1. \A x \in Int : -x - 1 = -1 - x
      OBVIOUS
    <3>2. m = -1 - D
      BY <1>1
    <3>3. -D - 1 = -1 - D
      <4>1. D \in Nat
        BY <1>1
      <4> QED BY <3>1, <4>1
    <3> QED BY <3>2, <3>3
  <2> QED BY <1>1, <1>3, <1>4, <1>5, <1>6, <2>1, <2>2
<1>7. CASE ~(D <= INT_MAX)
  <2>1. u = Fails(UnderOver) /\ u.err # "SUCCESS"
    BY <1>2, <1>7, ResultsAre DEF UnderOver
  <2> QED BY <1>3, <1>4, <1>5, <1>7, <2>1
<1> QED BY <1>6, <1>7

\* A fraction: its mantissa is converted first.
LEMMA FractionTo64 ==
  ASSUME NEW a, IsAdd(a), a.tag, a.fn \in FractionAdders, NEW it, IsRead(it, a), ~TooNegative(a), NEW o,
         NEW m, m = MantissaNumber(a), NEW b, b = BaseOf(a)
  PROVE  Int64ConvertAll(it, o)
           = If(IntOption(a), o, IF m \in Signeds THEN ExponentiateNN(b, m, a.arg.exp) ELSE Fails(UnderOver))
<1> DEFINE e == a.arg.exp
           f == FractionFlag(it.type)
           M == IF m \in Signeds THEN Gives(m) ELSE Fails(UnderOver)
           P(x) == ExponentiateNN(b, x, e)
           X == IF m \in Signeds THEN P(m) ELSE Fails(UnderOver)
<1>1. it.type = TypeOf(a) /\ it.val = [mant |-> a.arg.mant, exp |-> e]
      /\ FractionBase(it.type) = b /\ f = IntOption(a)
  BY FractionNumber DEF IsRead, NumberIs
<1>2. it.val.mant = a.arg.mant /\ it.val.exp = e
  BY <1>1
<1>3. it.type = TaggedType(a) /\ (a.fn \in BigFractions => a.arg.neg \in BOOLEAN /\ a.arg.mant \in Bytes)
      /\ (a.fn \in Fractions => a.arg.mant \in Signeds) /\ (a.fn \in Fractions <=> a.fn \notin BigFractions)
  BY <1>1, FractionArgs DEF TypeOf, Signeds
<1>4. /\ a.fn \in Fractions => it.type \in {"DECIMAL_FRACTION", "BIGFLOAT"}
      /\ a.fn \in BigFractions /\ ~a.arg.neg => it.type \in {"DECIMAL_FRACTION_POS_BIGNUM", "BIGFLOAT_POS_BIGNUM"}
      /\ a.fn \in BigFractions /\ a.arg.neg => it.type \in {"DECIMAL_FRACTION_NEG_BIGNUM", "BIGFLOAT_NEG_BIGNUM"}
  BY <1>3 DEF TaggedType, Fractions, BigFractions
<1>5. ASSUME NEW r, r = M PROVE (IF r.err = "SUCCESS" THEN P(r.v) ELSE r) = X
  <2>1. CASE m \in Signeds
    <3>1. r.err = "SUCCESS" /\ r.v = m
      BY <1>5, <2>1, ResultsAre
    <3> QED BY <2>1, <3>1
  <2>2. CASE m \notin Signeds
    <3>1. r.err # "SUCCESS" /\ r = Fails(UnderOver)
      BY <1>5, <2>2, ResultsAre DEF UnderOver
    <3> QED BY <2>2, <3>1
  <2> QED BY <2>1, <2>2
<1>6. CASE a.fn \in Fractions
  <2>1. Int64ConvertAll(it, o) = If(f, o, ExponentiateNN(FractionBase(it.type), it.val.mant, it.val.exp))
    BY <1>4, <1>6 DEF Int64ConvertAll
  <2>2. m = a.arg.mant /\ m \in Signeds
    BY <1>3, <1>6 DEF MantissaNumber
  <2>3. X = ExponentiateNN(FractionBase(it.type), it.val.mant, it.val.exp)
    BY <1>1, <1>2, <2>2
  <2> HIDE DEF X, f
  <2> QED BY <1>1, <2>1, <2>3 DEF X
<1>7. CASE a.fn \in BigFractions
  <2> DEFINE s == it.val.mant
             r == IF a.arg.neg THEN ConvertNegativeBigNumToSigned(s) ELSE ConvertPositiveBigNumToSigned(s)
  <2>1. Int64ConvertAll(it, o)
          = If(f, o, IF r.err = "SUCCESS" THEN ExponentiateNN(FractionBase(it.type), r.v, it.val.exp) ELSE r)
    <3>1. CASE a.arg.neg
      <4>1. Int64ConvertAll(it, o)
              = If(f, o, IF ConvertNegativeBigNumToSigned(s).err = "SUCCESS"
                         THEN ExponentiateNN(FractionBase(it.type), ConvertNegativeBigNumToSigned(s).v, it.val.exp)
                         ELSE ConvertNegativeBigNumToSigned(s))
        BY <1>4, <1>7, <3>1 DEF Int64ConvertAll, Then
      <4> HIDE DEF f, s
      <4> QED BY <3>1, <4>1
    <3>2. CASE ~a.arg.neg
      <4>1. Int64ConvertAll(it, o)
              = If(f, o, IF ConvertPositiveBigNumToSigned(s).err = "SUCCESS"
                         THEN ExponentiateNN(FractionBase(it.type), ConvertPositiveBigNumToSigned(s).v, it.val.exp)
                         ELSE ConvertPositiveBigNumToSigned(s))
        BY <1>4, <1>7, <3>2 DEF Int64ConvertAll, Then
      <4> HIDE DEF f, s
      <4> QED BY <3>2, <4>1
    <3> QED BY <3>1, <3>2
  <2>2. m = BigNumber(a.arg.neg, a.arg.mant)
    BY <1>3, <1>7 DEF MantissaNumber
  <2>3. r = M
    <3>1. a.arg.neg \in BOOLEAN /\ s \in Bytes /\ s = a.arg.mant
      BY <1>2, <1>3, <1>7
    <3> HIDE DEF s
    <3> QED BY <2>2, <3>1, SignedIs
  <2> HIDE DEF r, X, M, f
  <2>4. (IF r.err = "SUCCESS" THEN ExponentiateNN(FractionBase(it.type), r.v, it.val.exp) ELSE r) = X
    BY <1>1, <1>2, <1>5, <2>3
  <2> QED BY <1>1, <2>1, <2>4 DEF X
<1> QED BY <1>3, <1>6, <1>7

\* The entries that are numbers.
LEMMA Kinds ==
  ASSUME NEW a, IsAdd(a), IsNumber(a)
  PROVE  \/ a.fn = "AddInt64"
         \/ a.fn = "AddDouble"
         \/ a.tag /\ a.fn \in BigAdders
         \/ a.tag /\ a.fn \in FractionAdders
<1>2. CASE a.fn \notin {"AddInt64", "AddDouble"}
  <2>1. a.tag /\ a.fn \in Fractions \cup BigFractions \cup BigAdders
    BY <1>2 DEF IsNumber, BigAdders
  <2> QED BY <2>1 DEF FractionAdders
<1>3. CASE a.fn \in {"AddInt64", "AddDouble"}
  <2>1. a.fn = "AddInt64" \/ a.fn = "AddDouble"
    BY <1>3
  <2> QED BY <2>1
<1> QED BY <1>2, <1>3

\* Every conversion to int64_t.
LEMMA Int64Right ==
  ASSUME NEW a, IsAdd(a), IsNumber(a), NEW it, IsRead(it, a), ~TooNegative(a), NEW o
  PROVE  IntRight(a, Signeds, o, ConvertInt64(it, o)) /\ IntRight(a, Signeds, o, Int64ConvertAll(it, o))
<1>0. /\ it.type = TypeOf(a) /\ it.val = ItemValue(a)
      /\ IntRight(a, Signeds, o, Unexpected)
      /\ \A e : e \notin {"SUCCESS", UnderOver, "NUMBER_SIGN_CONVERSION"} => IntRight(a, Signeds, o, Fails(e))
  <2>1. "UNEXPECTED_TYPE" \notin {"SUCCESS", UnderOver, "NUMBER_SIGN_CONVERSION"}
    BY DEF UnderOver
  <2> QED BY <2>1, UnexpectedRight DEF IsRead
<1>1. CASE a.fn = "AddInt64"
  <2> DEFINE n == a.arg
  <2>1. /\ n \in Int /\ n >= INT_MIN /\ it.type = (IF n > INT_MAX THEN "UINT64" ELSE "INT64") /\ it.val = n
        /\ IntegerOf(a) = n /\ IntOption(a) = "XINT64"
    BY <1>0, <1>1, IntNumber DEF NumberIs
  <2> HIDE DEF n
  <2>2. Int64ConvertAll(it, o) = Unexpected
    <3>1. it.type \in {"INT64", "UINT64"}
      BY <2>1
    <3> QED BY <3>1 DEF Int64ConvertAll
  <2>3. CASE n > INT_MAX
    <3>1. ConvertInt64(it, o) = If("XINT64", o, IF n < INT_MAX THEN Gives(n) ELSE Fails(UnderOver))
      <4>1. it.type = "UINT64"
        BY <2>1, <2>3
      <4> QED BY <2>1, <4>1 DEF ConvertInt64
    <3>2. ~(n < INT_MAX) /\ n \notin Signeds
      BY <2>1, <2>3, Limits DEF Signeds
    <3>3. IntRight(a, Signeds, o, Fails(UnderOver))
      BY <2>1, <3>2, IntRightIs
    <3> QED BY <1>0, <2>1, <2>2, <3>1, <3>2, <3>3, IfRight
  <2>4. CASE ~(n > INT_MAX)
    <3>1. ConvertInt64(it, o) = If("XINT64", o, Gives(n))
      <4>1. it.type = "INT64"
        BY <2>1, <2>4
      <4> QED BY <2>1, <4>1 DEF ConvertInt64
    <3>2. n \in Signeds
      BY <2>1, <2>4, Limits DEF Signeds
    <3>3. IntOption(a) \in o => IntRight(a, Signeds, o, Gives(n))
      BY <2>1, <3>2, IntRightIs
    <3> QED BY <1>0, <2>1, <2>2, <3>1, <3>3, IfRight
  <2> QED BY <2>3, <2>4
<1>2. CASE a.fn = "AddDouble"
  <2> DEFINE v == a.arg
             n == Rounded(v)
  <2>1. it.type = "DOUBLE" /\ it.val = v /\ IntegerOf(a) = n /\ IntOption(a) = "FLOAT"
    BY <1>0, <1>2, DoubleNumber DEF NumberIs
  <2> HIDE DEF v
  <2>2. Int64ConvertAll(it, o) = Unexpected
    BY <2>1 DEF Int64ConvertAll
  <2>3. ConvertInt64(it, o) = If("FLOAT", o, IF n \in Signeds THEN Gives(n) ELSE Fails("FLOAT_EXCEPTION"))
    BY <2>1 DEF ConvertInt64, Signeds
  <2> HIDE DEF n
  <2>4. IntOption(a) \in o => IntRight(a, Signeds, o, IF n \in Signeds THEN Gives(n) ELSE Fails("FLOAT_EXCEPTION"))
    <3>1. CASE n \in Signeds
      BY <2>1, <3>1, IntRightIs
    <3>2. CASE n \notin Signeds
      <4>1. "FLOAT_EXCEPTION" \notin {"SUCCESS", UnderOver, "NUMBER_SIGN_CONVERSION"}
        BY DEF UnderOver
      <4> QED BY <1>0, <3>2, <4>1
    <3> QED BY <3>1, <3>2
  <2> QED BY <1>0, <2>1, <2>2, <2>3, <2>4, IfRight
<1>3. CASE a.tag /\ a.fn \in BigAdders
  <2> DEFINE neg == a.fn = "AddTNegativeBignum"
             s == a.arg
             n == BigNumber(neg, s)
             x == IF n \in Signeds THEN Gives(n) ELSE Fails(UnderOver)
  <2>1. /\ s \in Bytes /\ neg \in BOOLEAN /\ it.type = (IF neg THEN "NEGBIGNUM" ELSE "POSBIGNUM") /\ it.val = s
        /\ IntegerOf(a) = n /\ IntOption(a) = "BIG_NUM"
    BY <1>0, <1>3, BigNumberItem DEF NumberIs
  <2> HIDE DEF neg, s
  <2>2. ConvertInt64(it, o) = Unexpected
    <3>1. it.type \in {"NEGBIGNUM", "POSBIGNUM"}
      BY <2>1
    <3> QED BY <3>1 DEF ConvertInt64
  <2>3. Int64ConvertAll(it, o) = If("BIG_NUM", o, x)
    <3>1. (IF neg THEN ConvertNegativeBigNumToSigned(s) ELSE ConvertPositiveBigNumToSigned(s)) = x
      BY <2>1, SignedIs
    <3> HIDE DEF x
    <3>2. CASE neg
      <4>1. it.type = "NEGBIGNUM"
        BY <2>1, <3>2
      <4>2. Int64ConvertAll(it, o) = If("BIG_NUM", o, ConvertNegativeBigNumToSigned(s))
        BY <2>1, <4>1 DEF Int64ConvertAll
      <4> QED BY <3>1, <3>2, <4>2
    <3>3. CASE ~neg
      <4>1. it.type = "POSBIGNUM"
        BY <2>1, <3>3
      <4>2. Int64ConvertAll(it, o) = If("BIG_NUM", o, ConvertPositiveBigNumToSigned(s))
        BY <2>1, <4>1 DEF Int64ConvertAll
      <4> QED BY <3>1, <3>3, <4>2
    <3> QED BY <3>2, <3>3
  <2> HIDE DEF n
  <2>4. IntOption(a) \in o => IntRight(a, Signeds, o, x)
    BY <2>1, IntRightIs
  <2> QED BY <1>0, <2>1, <2>2, <2>3, <2>4, IfRight
<1>4. CASE a.tag /\ a.fn \in FractionAdders
  <2> DEFINE m == MantissaNumber(a)
             b == BaseOf(a)
             e == a.arg.exp
             n == Scaled(m, b, Capped(b, e))
             y == ExponentiateNN(b, m, e)
             x == IF m \in Signeds THEN y ELSE Fails(UnderOver)
  <2>1. /\ b \in {2, 10} /\ m \in Int /\ NumberOf(a) = <<m, b, e>> /\ IntegerOf(a) = n
    BY <1>4, FractionNumber DEF NumberIs
  <2>2. NumberOf(a)[1] = m
    BY <2>1
  <2>3. e \in Int
    BY <1>4, FractionArgs, Limits
  <2>4. ConvertInt64(it, o) = Unexpected
    <3>1. TaggedType(a) \notin PlainTypes /\ it.type = TaggedType(a)
      BY <1>0, <1>4, TypeIs
    <3> QED BY <3>1 DEF ConvertInt64, PlainTypes
  <2>5. Int64ConvertAll(it, o) = If(IntOption(a), o, x)
    BY <1>4, FractionTo64
  <2>6. IntOption(a) \in o => IntRight(a, Signeds, o, x)
    <3> SUFFICES ASSUME IntOption(a) \in o PROVE IntRight(a, Signeds, o, x)
      OBVIOUS
    <3>1. CASE m \in Signeds
      <4>0. m \in INT_MIN..INT_MAX
        BY <3>1 DEF Signeds
      <4>1. \/ y = Gives(n) /\ n \in Signeds
            \/ y = Fails(UnderOver) /\ (n \notin Signeds \/ n = 0)
        <5> HIDE DEF m, b, e
        <5>1. \/ y = Gives(n) /\ n \in INT_MIN..INT_MAX
              \/ y = Fails(UnderOver) /\ (n \notin INT_MIN..INT_MAX \/ n = 0)
          BY <2>1, <2>3, <4>0, NNIs
        <5> QED BY <5>1 DEF Signeds
      <4> HIDE DEF m, n, y
      <4>2. IntRight(a, Signeds, o, y)
        BY <2>1, <4>1, IntRightIs
      <4> QED BY <3>1, <4>2
    <3>2. CASE m \notin Signeds
      <4> HIDE DEF m, n, y
      <4>1. IntRight(a, Signeds, o, Fails(UnderOver))
        BY <2>1, <2>2, <3>2, IntRightIs
      <4> QED BY <3>2, <4>1
    <3> QED BY <3>1, <3>2
  <2> HIDE DEF x
  <2> QED BY <1>0, <2>4, <2>5, <2>6, IfRight
<1> QED BY <1>1, <1>2, <1>3, <1>4, Kinds

\* A fraction to an unsigned integer.
LEMMA FractionToU64 ==
  ASSUME NEW a, IsAdd(a), a.tag, a.fn \in FractionAdders, NEW it, IsRead(it, a), ~TooNegative(a), NEW o,
         NEW m, m = MantissaNumber(a), NEW b, b = BaseOf(a)
  PROVE  UInt64ConvertAll(it, o)
           = If(IntOption(a), o,
                IF m < 0 THEN Fails("NUMBER_SIGN_CONVERSION")
                ELSE IF m \in Unsigneds THEN Exponentitate(b, m, a.arg.exp) ELSE Fails(UnderOver))
<1> DEFINE e == a.arg.exp
           f == FractionFlag(it.type)
           negative == Fails("NUMBER_SIGN_CONVERSION")
           X == IF m < 0 THEN negative
                ELSE IF m \in Unsigneds THEN Exponentitate(b, m, e) ELSE Fails(UnderOver)
<1>1. it.type = TypeOf(a) /\ it.val = [mant |-> a.arg.mant, exp |-> e]
      /\ FractionBase(it.type) = b /\ f = IntOption(a)
  BY FractionNumber DEF IsRead, NumberIs
<1>2. it.val.mant = a.arg.mant /\ it.val.exp = e
  BY <1>1
<1>3. it.type = TaggedType(a) /\ (a.fn \in BigFractions => a.arg.neg \in BOOLEAN /\ a.arg.mant \in Bytes)
      /\ (a.fn \in Fractions => a.arg.mant \in Signeds) /\ (a.fn \in Fractions <=> a.fn \notin BigFractions)
  BY <1>1, FractionArgs DEF TypeOf, Signeds
<1>4. /\ a.fn \in Fractions => it.type \in {"DECIMAL_FRACTION", "BIGFLOAT"}
      /\ a.fn \in BigFractions /\ ~a.arg.neg => it.type \in {"DECIMAL_FRACTION_POS_BIGNUM", "BIGFLOAT_POS_BIGNUM"}
      /\ a.fn \in BigFractions /\ a.arg.neg => it.type \in {"DECIMAL_FRACTION_NEG_BIGNUM", "BIGFLOAT_NEG_BIGNUM"}
  BY <1>3 DEF TaggedType, Fractions, BigFractions
<1>5. CASE a.fn \in Fractions
  <2>1. UInt64ConvertAll(it, o) = If(f, o, ExponentitateNU(FractionBase(it.type), it.val.mant, it.val.exp))
    BY <1>4, <1>5 DEF UInt64ConvertAll
  <2>2. m = a.arg.mant /\ m \in Signeds
    BY <1>3, <1>5 DEF MantissaNumber
  <2>3. m < 0 \/ m \in Unsigneds
    BY <2>2, Limits DEF Signeds, Unsigneds
  <2>4. X = ExponentitateNU(b, m, e)
    <3> HIDE DEF e
    <3> QED BY <2>3 DEF ExponentitateNU
  <2>5. X = ExponentitateNU(FractionBase(it.type), it.val.mant, it.val.exp)
    <3> HIDE DEF e, X
    <3> QED BY <1>1, <1>2, <2>2, <2>4
  <2> HIDE DEF X, f
  <2> QED BY <1>1, <2>1, <2>5 DEF X
<1>6. CASE a.fn \in BigFractions /\ a.arg.neg
  <2>1. UInt64ConvertAll(it, o) = If(f, o, negative)
    BY <1>4, <1>6 DEF UInt64ConvertAll
  <2>2. m < 0
    <3> DEFINE s == a.arg.mant
               D == Digits(s)
    <3>1. m = BigNumber(TRUE, s) /\ s \in Bytes
      BY <1>3, <1>6 DEF MantissaNumber, BigNumber
    <3>2. m = -1 - D /\ D \in Nat
      <4> HIDE DEF s
      <4> QED BY <3>1, BigNumberIs
    <3> HIDE DEF D
    <3> QED BY <3>2
  <2>3. X = negative
    BY <2>2
  <2> HIDE DEF X, f, negative
  <2> QED BY <1>1, <2>1, <2>3 DEF X, negative
<1>7. CASE a.fn \in BigFractions /\ ~a.arg.neg
  <2> DEFINE s == it.val.mant
             r == ConvertBigNumToUnsigned(s, UINT_MAX)
             z == IF r.err = "SUCCESS" THEN Exponentitate(FractionBase(it.type), r.v, it.val.exp) ELSE r
  <2>1. UInt64ConvertAll(it, o) = If(f, o, z)
    BY <1>4, <1>7 DEF UInt64ConvertAll, Then
  <2>2. s \in Bytes /\ m = BigNumber(FALSE, s)
    BY <1>2, <1>3, <1>7 DEF MantissaNumber, BigNumber
  <2> HIDE DEF s, z, X
  <2>3. m = Digits(s) /\ m \in Nat
    BY <2>2, BigNumberIs
  <2>4. r = IF m <= UINT_MAX THEN Gives(m) ELSE Fails(UnderOver)
    BY <2>2, <2>3, UnsignedIs
  <2>5. ~(m < 0) /\ (m <= UINT_MAX <=> m \in Unsigneds)
    BY <2>3, Limits DEF Unsigneds
  <2> HIDE DEF r, e
  <2>6. z = X
    <3>1. CASE m \in Unsigneds
      <4>1. r.err = "SUCCESS" /\ r.v = m
        BY <2>4, <2>5, <3>1, ResultsAre
      <4>2. z = Exponentitate(b, m, e)
        BY <1>1, <1>2, <4>1 DEF z
      <4> QED BY <2>5, <3>1, <4>2 DEF X
    <3>2. CASE m \notin Unsigneds
      <4>1. r = Fails(UnderOver) /\ r.err # "SUCCESS"
        BY <2>4, <2>5, <3>2, ResultsAre DEF UnderOver
      <4> QED BY <2>5, <3>2, <4>1 DEF X, z
    <3> QED BY <3>1, <3>2
  <2> HIDE DEF f
  <2> QED BY <1>1, <2>1, <2>6 DEF X, e
<1> QED BY <1>3, <1>5, <1>6, <1>7

\* Every conversion to uint64_t.
LEMMA UInt64Right ==
  ASSUME NEW a, IsAdd(a), IsNumber(a), NEW it, IsRead(it, a), ~TooNegative(a), NEW o
  PROVE  IntRight(a, Unsigneds, o, ConvertUInt64(it, o)) /\ IntRight(a, Unsigneds, o, UInt64ConvertAll(it, o))
<1> DEFINE negative == Fails("NUMBER_SIGN_CONVERSION")
<1>0. /\ it.type = TypeOf(a) /\ it.val = ItemValue(a)
      /\ IntRight(a, Unsigneds, o, Unexpected)
  <2>1. "UNEXPECTED_TYPE" \notin {"SUCCESS", UnderOver, "NUMBER_SIGN_CONVERSION"}
    BY DEF UnderOver
  <2> QED BY <2>1, UnexpectedRight DEF IsRead
<1>1. CASE a.fn = "AddInt64"
  <2> DEFINE n == a.arg
             x == IF n >= 0 THEN Gives(n) ELSE negative
  <2>1. /\ n \in Int /\ n <= UINT_MAX /\ it.type = (IF n > INT_MAX THEN "UINT64" ELSE "INT64") /\ it.val = n
        /\ IntegerOf(a) = n /\ NumberOf(a) = <<n, 1, 0>> /\ IntOption(a) = "XINT64"
    BY <1>0, <1>1, IntNumber DEF NumberIs
  <2>2. NumberOf(a)[1] = n
    BY <2>1
  <2> HIDE DEF n
  <2>3. UInt64ConvertAll(it, o) = Unexpected
    <3>1. it.type \in {"INT64", "UINT64"}
      BY <2>1
    <3> QED BY <3>1 DEF UInt64ConvertAll
  <2>4. ConvertUInt64(it, o) = If("XINT64", o, x)
    <3>1. CASE n > INT_MAX
      <4>1. it.type = "UINT64"
        BY <2>1, <3>1
      <4>2. ConvertUInt64(it, o) = If("XINT64", o, Gives(n))
        BY <2>1, <4>1 DEF ConvertUInt64
      <4>3. n >= 0
        BY <2>1, <3>1, Limits
      <4> QED BY <4>2, <4>3
    <3>2. CASE ~(n > INT_MAX)
      <4>1. it.type = "INT64"
        BY <2>1, <3>2
      <4> QED BY <2>1, <4>1 DEF ConvertUInt64
    <3> QED BY <3>1, <3>2
  <2>5. IntOption(a) \in o => IntRight(a, Unsigneds, o, x)
    <3>1. CASE n >= 0
      <4>1. n \in Unsigneds
        BY <2>1, <3>1, Limits DEF Unsigneds
      <4> HIDE DEF x
      <4>2. x = Gives(n)
        BY <3>1 DEF x
      <4> QED BY <2>1, <4>1, <4>2, IntRightIs
    <3>2. CASE ~(n >= 0)
      <4>1. n < 0
        BY <2>1, <3>2
      <4>2. x = negative
        BY <3>2
      <4> HIDE DEF x
      <4> QED BY <2>1, <2>2, <4>1, <4>2, IntRightIs
    <3> QED BY <3>1, <3>2
  <2> HIDE DEF x
  <2> QED BY <1>0, <2>1, <2>3, <2>4, <2>5, IfRight
<1>2. CASE a.fn = "AddDouble"
  <2> DEFINE v == a.arg
             n == Rounded(v)
             x == IF v < 0 THEN negative ELSE IF n > UINT_MAX - Slack THEN Fails(UnderOver) ELSE Gives(n)
             e == -1
  <2> HIDE DEF e
  <2>1. /\ it.type = "DOUBLE" /\ it.val = v /\ v \in Int /\ IntegerOf(a) = n /\ IntOption(a) = "FLOAT"
        /\ NumberOf(a) = <<v, 2, e>>
    BY <1>0, <1>2, DoubleNumber DEF NumberIs, e
  <2>2. NumberOf(a)[1] = v
    BY <2>1
  <2> HIDE DEF v
  <2>3. UInt64ConvertAll(it, o) = Unexpected
    BY <2>1 DEF UInt64ConvertAll
  <2>4. ConvertUInt64(it, o) = If("FLOAT", o, x)
    BY <2>1 DEF ConvertUInt64
  <2>5. n \in Int /\ (v >= 0 => n >= 0)
    BY <2>1 DEF Rounded
  <2> HIDE DEF n
  <2>6. IntOption(a) \in o => IntRight(a, Unsigneds, o, x)
    <3>1. CASE v < 0
      <4>1. x = negative
        BY <3>1
      <4> HIDE DEF x
      <4> QED BY <2>1, <2>2, <3>1, <4>1, IntRightIs
    <3>2. CASE ~(v < 0) /\ n > UINT_MAX - Slack
      <4>1. x = Fails(UnderOver)
        BY <3>2
      <4> HIDE DEF x
      <4> QED BY <1>2, <2>1, <2>2, <3>2, <4>1, IntRightIs
    <3>3. CASE ~(v < 0) /\ ~(n > UINT_MAX - Slack)
      <4>1. x = Gives(n)
        BY <3>3
      <4>2. n \in Unsigneds
        <5>1. UINT_MAX \in Int /\ Slack \in Nat
          BY Limits, WidthAssumption
        <5> QED BY <2>1, <2>5, <3>3, <5>1 DEF Unsigneds
      <4> HIDE DEF x
      <4> QED BY <2>1, <4>1, <4>2, IntRightIs
    <3> QED BY <3>1, <3>2, <3>3
  <2> HIDE DEF x
  <2> QED BY <1>0, <2>1, <2>3, <2>4, <2>6, IfRight
<1>3. CASE a.tag /\ a.fn \in BigAdders
  <2> DEFINE neg == a.fn = "AddTNegativeBignum"
             s == a.arg
             n == BigNumber(neg, s)
             x == IF neg THEN negative ELSE ConvertBigNumToUnsigned(s, UINT_MAX)
  <2>1. /\ s \in Bytes /\ neg \in BOOLEAN /\ it.type = (IF neg THEN "NEGBIGNUM" ELSE "POSBIGNUM") /\ it.val = s
        /\ IntegerOf(a) = n /\ IntOption(a) = "BIG_NUM" /\ NumberOf(a) = <<n, 1, 0>>
    BY <1>0, <1>3, BigNumberItem DEF NumberIs
  <2>2. NumberOf(a)[1] = n
    BY <2>1
  <2> HIDE DEF neg, s
  <2>3. ConvertUInt64(it, o) = Unexpected
    <3>1. it.type \in {"NEGBIGNUM", "POSBIGNUM"}
      BY <2>1
    <3> QED BY <3>1 DEF ConvertUInt64
  <2>4. UInt64ConvertAll(it, o) = If("BIG_NUM", o, x)
    <3>1. CASE neg
      <4>1. it.type = "NEGBIGNUM"
        BY <2>1, <3>1
      <4> QED BY <2>1, <3>1, <4>1 DEF UInt64ConvertAll
    <3>2. CASE ~neg
      <4>1. it.type = "POSBIGNUM"
        BY <2>1, <3>2
      <4> QED BY <2>1, <3>2, <4>1 DEF UInt64ConvertAll
    <3> QED BY <3>1, <3>2
  <2>5. Digits(s) \in Nat /\ n \in Int /\ (neg => n = -1 - Digits(s)) /\ (~neg => n = Digits(s))
    BY <2>1, BigNumberIs
  <2> HIDE DEF n
  <2>6. IntOption(a) \in o => IntRight(a, Unsigneds, o, x)
    <3>1. CASE neg
      <4>1. n < 0
        <5>1. n = -1 - Digits(s)
          BY <2>5, <3>1
        <5>2. Digits(s) \in Nat
          BY <2>5
        <5> QED BY <5>1, <5>2
      <4>2. x = negative
        BY <3>1
      <4> HIDE DEF x
      <4> QED BY <2>1, <2>2, <4>1, <4>2, IntRightIs
    <3>2. CASE ~neg
      <4>1. n = Digits(s) /\ n \in Nat
        BY <2>5, <3>2
      <4>2. x = IF n <= UINT_MAX THEN Gives(n) ELSE Fails(UnderOver)
        BY <2>1, <3>2, <4>1, UnsignedIs
      <4>3. n <= UINT_MAX <=> n \in Unsigneds
        BY <4>1, Limits DEF Unsigneds
      <4> HIDE DEF x
      <4> QED BY <2>1, <4>2, <4>3, IntRightIs
    <3> QED BY <3>1, <3>2
  <2> HIDE DEF x
  <2> QED BY <1>0, <2>1, <2>3, <2>4, <2>6, IfRight
<1>4. CASE a.tag /\ a.fn \in FractionAdders
  <2> DEFINE m == MantissaNumber(a)
             b == BaseOf(a)
             e == a.arg.exp
             n == Scaled(m, b, Capped(b, e))
             y == Exponentitate(b, m, e)
             x == IF m < 0 THEN negative ELSE IF m \in Unsigneds THEN y ELSE Fails(UnderOver)
  <2>1. /\ b \in {2, 10} /\ m \in Int /\ NumberOf(a) = <<m, b, e>> /\ IntegerOf(a) = n
    BY <1>4, FractionNumber DEF NumberIs
  <2>2. NumberOf(a)[1] = m
    BY <2>1
  <2>3. e \in Int
    BY <1>4, FractionArgs, Limits
  <2>4. ConvertUInt64(it, o) = Unexpected
    <3>1. TaggedType(a) \notin PlainTypes /\ it.type = TaggedType(a)
      BY <1>0, <1>4, TypeIs
    <3> QED BY <3>1 DEF ConvertUInt64, PlainTypes
  <2>5. UInt64ConvertAll(it, o) = If(IntOption(a), o, x)
    BY <1>4, FractionToU64
  <2>6. IntOption(a) \in o => IntRight(a, Unsigneds, o, x)
    <3> SUFFICES ASSUME IntOption(a) \in o PROVE IntRight(a, Unsigneds, o, x)
      OBVIOUS
    <3>1. CASE ~(m < 0) /\ m \in Unsigneds
      <4>1. \/ y = Gives(n) /\ n \in Unsigneds
            \/ y = Fails(UnderOver) /\ (n \notin Unsigneds \/ n = 0)
        <5> HIDE DEF m, b, e, n, y
        <5>1. m \in Nat /\ m <= UINT_MAX
          BY <2>1, <3>1, Limits DEF Unsigneds
        <5>2. /\ n \in Nat
              /\ \/ y = Gives(n) /\ n <= UINT_MAX
                 \/ y = Fails(UnderOver) /\ (n > UINT_MAX \/ n = 0)
          BY <2>1, <2>3, <5>1, ExpIs DEF n, y
        <5>3. (n <= UINT_MAX => n \in Unsigneds) /\ (n > UINT_MAX => n \notin Unsigneds)
          BY <5>2, Limits DEF Unsigneds
        <5> QED BY <5>2, <5>3
      <4> HIDE DEF m, n, y
      <4>2. IntRight(a, Unsigneds, o, y)
        BY <2>1, <4>1, IntRightIs
      <4> QED BY <3>1, <4>2
    <3>2. CASE ~(m < 0) /\ m \notin Unsigneds
      <4> HIDE DEF m, n, y
      <4>1. IntRight(a, Unsigneds, o, Fails(UnderOver))
        BY <2>1, <2>2, <3>2, IntRightIs
      <4> QED BY <3>2, <4>1
    <3>3. CASE m < 0
      <4> HIDE DEF m, n, y
      <4>1. IntRight(a, Unsigneds, o, negative)
        <5> HIDE DEF negative
        <5> QED BY <2>1, <2>2, <3>3, IntRightIs DEF negative
      <4> QED BY <3>3, <4>1
    <3> QED BY <3>1, <3>2, <3>3
  <2> HIDE DEF x
  <2> QED BY <1>0, <2>4, <2>5, <2>6, IfRight
<1> QED BY <1>1, <1>2, <1>3, <1>4, Kinds

-----------------------------------------------------------------------------
(* Doubles                                                                  *)

\* What a conversion to a double gives is right for what was added.
DoubleRight(a, opt, o, r) ==
  /\ r.err = "SUCCESS"
  /\ ~(a.fn = "AddTDecimalFractionBigNum" /\ a.arg.neg)
  /\ ~(a.fn = "AddDouble" /\ "FLOAT" \notin o)
  => r.v = NumberOf(a) /\ opt \in o

LEMMA DoubleIs ==
  ASSUME NEW a, NEW opt, NEW o, NEW r, NEW n, n = NumberOf(a),
         r.err # "SUCCESS" \/ (r = Gives(n) /\ opt \in o)
  PROVE  DoubleRight(a, opt, o, r)
<1>1. CASE r.err # "SUCCESS"
  BY <1>1 DEF DoubleRight
<1>2. CASE r = Gives(n) /\ opt \in o
  <2>1. r.v = n
    BY <1>2, ResultsAre
  <2> QED BY <1>2, <2>1 DEF DoubleRight
<1> QED BY <1>1, <1>2

LEMMA IfDouble ==
  ASSUME NEW a, NEW opt, NEW o, NEW n, n = NumberOf(a)
  PROVE  DoubleRight(a, opt, o, If(opt, o, Gives(n))) /\ DoubleRight(a, opt, o, Unexpected)
<1>1. Unexpected.err # "SUCCESS"
  BY ResultsAre
<1>2. DoubleRight(a, opt, o, Unexpected)
  BY <1>1 DEF DoubleRight
<1>3. CASE opt \in o
  <2>1. DoubleRight(a, opt, o, Gives(n))
    BY <1>3, DoubleIs
  <2> QED BY <1>2, <1>3, <2>1 DEF If
<1>4. CASE opt \notin o
  BY <1>2, <1>4 DEF If
<1> QED BY <1>3, <1>4

\* A fraction to a double.
LEMMA FractionToDouble ==
  ASSUME NEW a, IsAdd(a), a.tag, a.fn \in FractionAdders, NEW it, IsRead(it, a), ~TooNegative(a), NEW o,
         ~(a.fn = "AddTDecimalFractionBigNum" /\ a.arg.neg),
         NEW m, m = MantissaNumber(a), NEW b, b = BaseOf(a)
  PROVE  DoubleConvertAll(it, o) = If(BaseFlag(b), o, Gives(<<m, b, a.arg.exp>>))
<1> DEFINE e == a.arg.exp
           f == IF FractionBase(it.type) = 10 THEN "DECIMAL_FRACTION" ELSE "BIGFLOAT"
           G(x) == Gives(<<x, FractionBase(it.type), it.val.exp>>)
<1>1. it.type = TypeOf(a) /\ it.val = [mant |-> a.arg.mant, exp |-> e]
      /\ FractionBase(it.type) = b
  BY FractionNumber DEF IsRead, NumberIs
<1>2. it.val.mant = a.arg.mant /\ it.val.exp = e /\ f = BaseFlag(b)
  BY <1>1 DEF BaseFlag
<1>3. it.type = TaggedType(a) /\ (a.fn \in BigFractions => a.arg.neg \in BOOLEAN /\ a.arg.mant \in Bytes)
      /\ (a.fn \in Fractions <=> a.fn \notin BigFractions)
  BY <1>1, FractionArgs DEF TypeOf
<1>4. /\ a.fn \in Fractions => it.type \in {"DECIMAL_FRACTION", "BIGFLOAT"}
      /\ a.fn \in BigFractions /\ ~a.arg.neg => it.type \in {"DECIMAL_FRACTION_POS_BIGNUM", "BIGFLOAT_POS_BIGNUM"}
      /\ a.fn \in BigFractions /\ a.arg.neg => it.type = "BIGFLOAT_NEG_BIGNUM"
  BY <1>3 DEF TaggedType, Fractions, BigFractions
<1>5. ASSUME DoubleConvertAll(it, o) = If(f, o, G(m))
      PROVE  DoubleConvertAll(it, o) = If(BaseFlag(b), o, Gives(<<m, b, a.arg.exp>>))
  <2> HIDE DEF f
  <2> QED BY <1>1, <1>2, <1>5
<1>6. CASE a.fn \in Fractions
  <2>1. DoubleConvertAll(it, o) = If(f, o, G(it.val.mant))
    BY <1>4, <1>6 DEF DoubleConvertAll
  <2>2. m = it.val.mant
    BY <1>2, <1>6 DEF MantissaNumber
  <2> HIDE DEF f, G
  <2>3. DoubleConvertAll(it, o) = If(f, o, G(m))
    BY <2>1, <2>2 DEF G
  <2> QED BY <1>5, <2>3 DEF G
<1>7. CASE a.fn \in BigFractions /\ ~a.arg.neg
  <2> DEFINE s == it.val.mant
  <2>1. DoubleConvertAll(it, o) = If(f, o, G(ConvertBigNumToDouble(s)))
    BY <1>4, <1>7 DEF DoubleConvertAll
  <2>2. s \in Bytes /\ m = BigNumber(FALSE, s)
    BY <1>2, <1>3, <1>7 DEF MantissaNumber, BigNumber
  <2> HIDE DEF f, G, s
  <2>3. m = ConvertBigNumToDouble(s)
    BY <2>2, BigNumberIs, PartialIs
  <2>4. DoubleConvertAll(it, o) = If(f, o, G(m))
    BY <2>1, <2>3 DEF G
  <2> QED BY <1>5, <2>4 DEF G
<1>8. CASE a.fn \in BigFractions /\ a.arg.neg
  <2> DEFINE s == it.val.mant
             D == ConvertBigNumToDouble(s)
             y == -1 - D
  <2>1. DoubleConvertAll(it, o) = If(f, o, G(y))
    BY <1>4, <1>8 DEF DoubleConvertAll
  <2>2. s \in Bytes /\ m = BigNumber(TRUE, s)
    BY <1>2, <1>3, <1>8 DEF MantissaNumber, BigNumber
  <2>3. m = y
    <3> HIDE DEF s
    <3>1. D = Digits(s)
      BY <2>2, PartialIs
    <3>2. m = -1 - Digits(s)
      BY <2>2, BigNumberIs
    <3> HIDE DEF D
    <3> QED BY <3>1, <3>2
  <2> HIDE DEF f, G, y
  <2>4. DoubleConvertAll(it, o) = If(f, o, G(m))
    BY <2>1, <2>3 DEF G
  <2> QED BY <1>5, <2>4 DEF G
<1> QED BY <1>3, <1>6, <1>7, <1>8

\* Every conversion to double.
LEMMA DoublesRight ==
  ASSUME NEW a, IsAdd(a), IsNumber(a), NEW it, IsRead(it, a), ~TooNegative(a), NEW o
  PROVE  /\ DoubleRight(a, OptionFor(a), o, ConvertDouble(it, o))
         /\ DoubleRight(a, OptionFor(a), o, DoubleConvertAll(it, o))
<1> DEFINE opt == OptionFor(a)
<1>0. /\ it.type = TypeOf(a) /\ it.val = ItemValue(a)
      /\ \A x : DoubleRight(a, x, o, Unexpected)
  BY IfDouble DEF IsRead
<1>1. CASE a.fn = "AddInt64"
  <2> DEFINE n == <<a.arg, 1, 0>>
  <2>1. /\ it.type \in {"INT64", "UINT64"} /\ it.val = a.arg /\ NumberOf(a) = n
        /\ opt = "XINT64"
    BY <1>0, <1>1, IntNumber DEF NumberIs
  <2> HIDE DEF opt
  <2>2. ConvertDouble(it, o) = If("XINT64", o, Gives(n))
    BY <2>1 DEF ConvertDouble, Whole
  <2>3. DoubleConvertAll(it, o) = Unexpected
    BY <2>1 DEF DoubleConvertAll
  <2> HIDE DEF n
  <2>4. DoubleRight(a, opt, o, ConvertDouble(it, o))
    BY <2>1, <2>2, IfDouble
  <2> QED BY <1>0, <2>3, <2>4 DEF opt
<1>2. CASE a.fn = "AddDouble"
  <2> DEFINE e == -1
             n == <<a.arg, 2, e>>
  <2> HIDE DEF e
  <2>1. it.type = "DOUBLE" /\ it.val = a.arg /\ NumberOf(a) = n /\ opt = "FLOAT"
    BY <1>0, <1>2, DoubleNumber DEF NumberIs, e
  <2> HIDE DEF opt
  <2>2. ConvertDouble(it, o) = Gives(IF "FLOAT" \in o THEN n ELSE Unwritten)
    BY <2>1 DEF ConvertDouble, e
  <2>3. DoubleConvertAll(it, o) = Unexpected
    BY <2>1 DEF DoubleConvertAll
  <2> HIDE DEF n
  <2>4. DoubleRight(a, opt, o, ConvertDouble(it, o))
    <3>1. CASE "FLOAT" \in o
      <4>1. ConvertDouble(it, o) = Gives(n)
        BY <2>2, <3>1
      <4> QED BY <2>1, <3>1, <4>1, DoubleIs
    <3>2. CASE "FLOAT" \notin o
      BY <1>2, <3>2 DEF DoubleRight
    <3> QED BY <3>1, <3>2
  <2> QED BY <1>0, <2>3, <2>4 DEF opt
<1>3. CASE a.tag /\ a.fn \in BigAdders
  <2> DEFINE neg == a.fn = "AddTNegativeBignum"
             s == a.arg
             m == BigNumber(neg, s)
             n == <<m, 1, 0>>
  <2>1. /\ s \in Bytes /\ neg \in BOOLEAN /\ it.type = (IF neg THEN "NEGBIGNUM" ELSE "POSBIGNUM") /\ it.val = s
        /\ NumberOf(a) = n /\ opt = "BIG_NUM"
    BY <1>0, <1>3, BigNumberItem DEF NumberIs
  <2> HIDE DEF neg, s, opt
  <2>2. ConvertDouble(it, o) = Unexpected
    <3>1. it.type \in {"NEGBIGNUM", "POSBIGNUM"}
      BY <2>1
    <3> QED BY <3>1 DEF ConvertDouble
  <2>3. DoubleConvertAll(it, o) = If("BIG_NUM", o, Gives(n))
    <3> DEFINE D == ConvertBigNumToDouble(s)
    <3>1. (neg => m = -1 - Digits(s)) /\ (~neg => m = Digits(s)) /\ D = Digits(s)
      BY <2>1, BigNumberIs, PartialIs
    <3> HIDE DEF m
    <3>2. CASE neg
      <4> DEFINE y == -1 - D
      <4>1. it.type = "NEGBIGNUM"
        BY <2>1, <3>2
      <4>2. DoubleConvertAll(it, o) = If("BIG_NUM", o, Gives(<<y, 1, 0>>))
        BY <2>1, <4>1 DEF DoubleConvertAll, Whole
      <4>3. m = y
        <5>1. m = -1 - Digits(s)
          BY <3>1, <3>2
        <5>2. D = Digits(s)
          BY <3>1
        <5> HIDE DEF D
        <5> QED BY <5>1, <5>2
      <4> HIDE DEF y
      <4> QED BY <4>2, <4>3
    <3>3. CASE ~neg
      <4>1. it.type = "POSBIGNUM"
        BY <2>1, <3>3
      <4>2. DoubleConvertAll(it, o) = If("BIG_NUM", o, Gives(<<D, 1, 0>>))
        BY <2>1, <4>1 DEF DoubleConvertAll, Whole
      <4>3. m = D
        BY <3>1, <3>3
      <4> HIDE DEF D
      <4> QED BY <4>2, <4>3
    <3> QED BY <3>2, <3>3
  <2> HIDE DEF n
  <2>4. DoubleRight(a, opt, o, DoubleConvertAll(it, o))
    BY <2>1, <2>3, IfDouble
  <2> QED BY <1>0, <2>2, <2>4 DEF opt
<1>4. CASE a.tag /\ a.fn \in FractionAdders
  <2> DEFINE m == MantissaNumber(a)
             b == BaseOf(a)
             n == <<m, b, a.arg.exp>>
  <2>1. NumberOf(a) = n /\ opt = BaseFlag(b)
    BY <1>4, FractionNumber DEF NumberIs
  <2>2. ConvertDouble(it, o) = Unexpected
    <3>1. TaggedType(a) \notin PlainTypes /\ it.type = TaggedType(a)
      BY <1>0, <1>4, TypeIs
    <3> QED BY <3>1 DEF ConvertDouble, PlainTypes
  <2>3. CASE a.fn = "AddTDecimalFractionBigNum" /\ a.arg.neg
    <3>1. \A x, r : DoubleRight(a, x, o, r)
      BY <2>3 DEF DoubleRight
    <3> QED BY <3>1
  <2>4. CASE ~(a.fn = "AddTDecimalFractionBigNum" /\ a.arg.neg)
    <3>1. DoubleConvertAll(it, o) = If(BaseFlag(b), o, Gives(n))
      BY <1>4, <2>4, FractionToDouble
    <3> HIDE DEF n, b, opt
    <3>2. DoubleRight(a, opt, o, DoubleConvertAll(it, o))
      BY <2>1, <3>1, IfDouble
    <3> QED BY <1>0, <2>2, <3>2 DEF opt
  <2> QED BY <2>3, <2>4
<1> QED BY <1>1, <1>2, <1>3, <1>4, Kinds

\* What every getter for a number gives.
LEMMA NumbersAre ==
  ASSUME NEW a, IsAdd(a), IsNumber(a), NEW c, c.more \in BOOLEAN, NEW r, Answers(a, c, r)
  PROVE  /\ c.fn \in IntegerGetters => IntRight(a, RangeOf(c.fn), OptionsOf(c), r)
         /\ c.fn \in DoubleGetters => DoubleRight(a, OptionFor(a), OptionsOf(c), r)
<1>0. c.fn \in IntegerGetters \cup DoubleGetters => c.fn \notin FractionGetters
  BY DEF FractionGetters, IntegerGetters, DoubleGetters
<1>1. PICK it : /\ IsRead(it, a)
                /\ ~TooNegative(a) => r = Result(c, it)
                /\ TooNegative(a) /\ c.fn \notin FractionGetters => r = Fails("INT_OVERFLOW")
  BY OutcomeIs
<1> DEFINE o == OptionsOf(c)
<1>2. CASE TooNegative(a)
  <2> SUFFICES ASSUME c.fn \in IntegerGetters \cup DoubleGetters
               PROVE  IntRight(a, RangeOf(c.fn), o, r) /\ DoubleRight(a, OptionFor(a), o, r)
    OBVIOUS
  <2>1. r = Fails("INT_OVERFLOW") /\ r.err # "SUCCESS"
    BY <1>0, <1>1, <1>2, ResultsAre
  <2>2. "INT_OVERFLOW" \notin {"SUCCESS", UnderOver, "NUMBER_SIGN_CONVERSION"}
    BY DEF UnderOver
  <2> HIDE DEF o
  <2>3. IntRight(a, RangeOf(c.fn), o, r)
    BY <2>1, <2>2, UnexpectedRight
  <2>4. DoubleRight(a, OptionFor(a), o, r)
    BY <2>1 DEF DoubleRight
  <2> QED BY <2>3, <2>4
<1>3. CASE ~TooNegative(a)
  <2>0. r = Result(c, it)
    BY <1>1, <1>3
  <2>1. ASSUME c.fn \in {"GetInt64", "GetInt64Convert", "GetInt64ConvertAll"}
        PROVE  IntRight(a, RangeOf(c.fn), o, r)
    <3>1. RangeOf(c.fn) = Signeds
      BY <2>1 DEF RangeOf, Signeds
    <3>2. r = ConvertInt64(it, o) \/ r = Int64ConvertAll(it, o)
      <4>1. CASE c.fn = "GetInt64"
        BY <2>0, <4>1 DEF Result, GetInt64, OptionsOf
      <4>2. CASE c.fn = "GetInt64Convert"
        BY <2>0, <4>2 DEF Result, GetInt64Convert, OptionsOf
      <4>3. CASE c.fn = "GetInt64ConvertAll"
        <5>1. o = c.types /\ r = GetInt64ConvertAll(c, it)
          BY <2>0, <4>3 DEF Result, OptionsOf
        <5> QED BY <5>1 DEF GetInt64ConvertAll, Widened
      <4> QED BY <2>1, <4>1, <4>2, <4>3
    <3> HIDE DEF o
    <3>3. IntRight(a, Signeds, o, ConvertInt64(it, o)) /\ IntRight(a, Signeds, o, Int64ConvertAll(it, o))
      BY <1>1, <1>3, Int64Right
    <3> QED BY <3>1, <3>2, <3>3
  <2>2. ASSUME c.fn \in {"GetUInt64", "GetUInt64Convert", "GetUInt64ConvertAll"}
        PROVE  IntRight(a, RangeOf(c.fn), o, r)
    <3>1. RangeOf(c.fn) = Unsigneds
      BY <2>2 DEF RangeOf, Unsigneds
    <3>2. r = ConvertUInt64(it, o) \/ r = UInt64ConvertAll(it, o)
      <4>1. CASE c.fn = "GetUInt64"
        BY <2>0, <4>1 DEF Result, GetUInt64, OptionsOf
      <4>2. CASE c.fn = "GetUInt64Convert"
        BY <2>0, <4>2 DEF Result, GetUInt64Convert, OptionsOf
      <4>3. CASE c.fn = "GetUInt64ConvertAll"
        <5>1. o = c.types /\ r = GetUInt64ConvertAll(c, it)
          BY <2>0, <4>3 DEF Result, OptionsOf
        <5> QED BY <5>1 DEF GetUInt64ConvertAll, Widened
      <4> QED BY <2>2, <4>1, <4>2, <4>3
    <3> HIDE DEF o
    <3>3. IntRight(a, Unsigneds, o, ConvertUInt64(it, o)) /\ IntRight(a, Unsigneds, o, UInt64ConvertAll(it, o))
      BY <1>1, <1>3, UInt64Right
    <3> QED BY <3>1, <3>2, <3>3
  <2>3. ASSUME c.fn \in DoubleGetters PROVE DoubleRight(a, OptionFor(a), o, r)
    <3>1. \/ r = ConvertDouble(it, o)
          \/ r = DoubleConvertAll(it, o) /\ c.fn = "GetDoubleConvertAll"
      <4>1. CASE c.fn = "GetDouble"
        BY <2>0, <4>1 DEF Result, GetDouble, OptionsOf
      <4>2. CASE c.fn = "GetDoubleConvert"
        BY <2>0, <4>2 DEF Result, GetDoubleConvert, OptionsOf
      <4>3. CASE c.fn = "GetDoubleConvertAll"
        <5>1. o = c.types /\ r = GetDoubleConvertAll(c, it)
          BY <2>0, <4>3 DEF Result, OptionsOf
        <5> QED BY <4>3, <5>1 DEF GetDoubleConvertAll, Widened
      <4> QED BY <2>3, <4>1, <4>2, <4>3 DEF DoubleGetters
    <3> HIDE DEF o
    <3>2. /\ DoubleRight(a, OptionFor(a), o, ConvertDouble(it, o))
          /\ DoubleRight(a, OptionFor(a), o, DoubleConvertAll(it, o))
      BY <1>1, <1>3, DoublesRight
    <3> QED BY <3>1, <3>2
  <2> HIDE DEF o
  <2> QED BY <2>1, <2>2, <2>3 DEF IntegerGetters, o
<1> QED BY <1>2, <1>3

-----------------------------------------------------------------------------
(* Fractions                                                                *)

FractionRight(a, c, r) ==
  /\ c.fn = FractionGetter(a, FALSE) =>
       IF NumberOf(a)[1] \in INT_MIN..INT_MAX
       THEN r.err = "SUCCESS" /\ r.v = [mant |-> NumberOf(a)[1], exp |-> a.arg.exp]
       ELSE r.err = UnderOver
  /\ c.fn = FractionGetter(a, TRUE) /\ a.fn \in BigFractions =>
       r.err = "SUCCESS" /\ r.v = [digits |-> a.arg.mant, neg |-> a.arg.neg, exp |-> a.arg.exp]

\* The types a fraction has.
LEMMA FractionTypes ==
  ASSUME NEW b \in {"DECIMAL_FRACTION", "BIGFLOAT"}
  PROVE  Fraction(b) = IF b = "BIGFLOAT"
                       THEN {"BIGFLOAT", "BIGFLOAT_POS_BIGNUM", "BIGFLOAT_NEG_BIGNUM"}
                       ELSE {"DECIMAL_FRACTION", "DECIMAL_FRACTION_POS_BIGNUM", "DECIMAL_FRACTION_NEG_BIGNUM"}
<1>1. Fraction(b) = {FractionType(b, "INT64"), FractionType(b, "POSBIGNUM"), FractionType(b, "NEGBIGNUM")}
  <2> DEFINE F(t) == FractionType(b, t)
  <2>1. Fraction(b) = {F(t) : t \in {"INT64", "POSBIGNUM", "NEGBIGNUM"}}
    BY DEF Fraction
  <2> HIDE DEF F
  <2>2. Fraction(b) = {F("INT64"), F("POSBIGNUM"), F("NEGBIGNUM")}
    BY <2>1
  <2> QED BY <2>2 DEF F
<1>2. /\ FractionType(b, "INT64") = b
      /\ FractionType(b, "POSBIGNUM") = IF b = "BIGFLOAT" THEN "BIGFLOAT_POS_BIGNUM" ELSE "DECIMAL_FRACTION_POS_BIGNUM"
      /\ FractionType(b, "NEGBIGNUM") = IF b = "BIGFLOAT" THEN "BIGFLOAT_NEG_BIGNUM" ELSE "DECIMAL_FRACTION_NEG_BIGNUM"
  BY DEF FractionType
<1>3. CASE b = "BIGFLOAT"
  BY <1>1, <1>2, <1>3
<1>4. CASE b = "DECIMAL_FRACTION"
  BY <1>1, <1>2, <1>4
<1> QED BY <1>3, <1>4

\* An item that has its type from a tag is not decoded any further.
LEMMA HandlerIs ==
  ASSUME NEW a, IsAdd(a), a.tag, a.fn \in FractionAdders, NEW it, IsRead(it, a), ~TooNegative(a),
         NEW c, c.more \in BOOLEAN, c.req # "NOT_A_TAG", FractionArg(a, c),
         NEW b, b = BaseFlag(BaseOf(a))
  PROVE  MantissaAndExponentTypeHandler(FractionSpec(c, b), it) = it
<1> DEFINE T == Fraction(b)
           C == {"ARRAY"}
<1>1. it.type = TaggedType(a) /\ it.tags = ExtraTags(a) /\ it.type # "NONE" /\ it.type \notin PlainTypes
      /\ a.extra \in BOOLEAN
  BY TypeIs DEF IsRead
<1>2. b \in {"DECIMAL_FRACTION", "BIGFLOAT"}
  BY DEF BaseFlag
<1>3. it.type \in T
  <2>1. a.fn \in BigFractions => a.arg.neg \in BOOLEAN
    BY FractionArgs
  <2>2. T = IF b = "BIGFLOAT"
            THEN {"BIGFLOAT", "BIGFLOAT_POS_BIGNUM", "BIGFLOAT_NEG_BIGNUM"}
            ELSE {"DECIMAL_FRACTION", "DECIMAL_FRACTION_POS_BIGNUM", "DECIMAL_FRACTION_NEG_BIGNUM"}
    BY <1>2, FractionTypes
  <2> HIDE DEF T
  <2>3. b = "BIGFLOAT" <=> a.fn \in {"AddTBigFloat", "AddTBigFloatBigNum"}
    BY DEF BaseFlag, BaseOf, FractionAdders, Fractions, BigFractions
  <2>4. CASE a.fn \in {"AddTBigFloat", "AddTBigFloatBigNum"}
    <3>1. it.type \in {"BIGFLOAT", "BIGFLOAT_POS_BIGNUM", "BIGFLOAT_NEG_BIGNUM"}
      BY <1>1, <2>1, <2>4 DEF TaggedType, FractionAdders, Fractions, BigFractions
    <3> QED BY <2>2, <2>3, <2>4, <3>1
  <2>5. CASE a.fn \in {"AddTDecimalFraction", "AddTDecimalFractionBigNum"}
    <3>1. it.type \in {"DECIMAL_FRACTION", "DECIMAL_FRACTION_POS_BIGNUM", "DECIMAL_FRACTION_NEG_BIGNUM"}
      BY <1>1, <2>1, <2>5 DEF TaggedType, FractionAdders, Fractions, BigFractions
    <3> QED BY <2>2, <2>3, <2>5, <3>1
  <2> QED BY <2>4, <2>5 DEF FractionAdders, Fractions, BigFractions
<1> HIDE DEF T
<1>4. Allows(a, c, it.type, T, C)
  BY <1>3 DEF Allows, FractionArg
<1>5. CheckTagRequirement(TagSpec(c, T, C), it) = "SUCCESS"
  BY <1>1, <1>4, RequirementIs
<1>6. it.type # "ARRAY"
  BY <1>1 DEF PlainTypes
<1>7. CheckTagRequirement(FractionSpec(c, b), it) = "SUCCESS"
  BY <1>5 DEF FractionSpec, T
<1> QED BY <1>6, <1>7 DEF MantissaAndExponentTypeHandler

\* What the two conversions of a fraction give.
LEMMA FractionIs ==
  ASSUME NEW a, IsAdd(a), a.tag, a.fn \in FractionAdders, NEW it, IsRead(it, a), ~TooNegative(a),
         NEW m, m = MantissaNumber(a)
  PROVE  /\ ProcessMantissaAndExponent(it)
              = IF m \in Signeds THEN Gives([mant |-> m, exp |-> a.arg.exp]) ELSE Fails(UnderOver)
         /\ a.fn \in BigFractions =>
              ProcessMantissaAndExponentBig(it)
                \in {Gives([digits |-> a.arg.mant, neg |-> a.arg.neg, exp |-> a.arg.exp]), Fails("never")}
         /\ a.fn \in BigFractions /\ a.arg.mant # Never =>
              ProcessMantissaAndExponentBig(it)
                = Gives([digits |-> a.arg.mant, neg |-> a.arg.neg, exp |-> a.arg.exp])
<1> DEFINE e == a.arg.exp
           M == IF m \in Signeds THEN Gives(m) ELSE Fails(UnderOver)
           B(x) == Gives([mant |-> x, exp |-> it.val.exp])
           X == IF m \in Signeds THEN Gives([mant |-> m, exp |-> e]) ELSE Fails(UnderOver)
<1>1. it.type = TypeOf(a) /\ it.val = [mant |-> a.arg.mant, exp |-> e] /\ it.err = "SUCCESS"
  BY FractionNumber DEF IsRead, NumberIs
<1>2. it.val.mant = a.arg.mant /\ it.val.exp = e
  BY <1>1
<1>3. it.type = TaggedType(a) /\ (a.fn \in BigFractions => a.arg.neg \in BOOLEAN /\ a.arg.mant \in Bytes)
      /\ (a.fn \in Fractions => a.arg.mant \in Signeds) /\ (a.fn \in Fractions <=> a.fn \notin BigFractions)
  BY <1>1, FractionArgs DEF TypeOf, Signeds
<1>4. /\ a.fn \in Fractions => it.type \in {"DECIMAL_FRACTION", "BIGFLOAT"}
      /\ a.fn \in BigFractions /\ ~a.arg.neg => it.type \in {"DECIMAL_FRACTION_POS_BIGNUM", "BIGFLOAT_POS_BIGNUM"}
      /\ a.fn \in BigFractions /\ a.arg.neg => it.type \in {"DECIMAL_FRACTION_NEG_BIGNUM", "BIGFLOAT_NEG_BIGNUM"}
  BY <1>3 DEF TaggedType, Fractions, BigFractions
<1>5. CASE a.fn \in Fractions
  <2>1. ProcessMantissaAndExponent(it) = B(it.val.mant)
    BY <1>1, <1>4, <1>5 DEF ProcessMantissaAndExponent
  <2>2. m = it.val.mant /\ m \in Signeds
    BY <1>2, <1>3, <1>5 DEF MantissaNumber
  <2>3. B(it.val.mant) = X
    BY <1>2, <2>2
  <2> HIDE DEF X, B
  <2> QED BY <1>3, <1>5, <2>1, <2>3 DEF X
<1>6. CASE a.fn \in BigFractions
  <2> DEFINE s == it.val.mant
             neg == a.arg.neg
             p == ConvertPositiveBigNumToSigned(s)
             q == ConvertNegativeBigNumToSigned(s)
             r == IF neg THEN q ELSE p
             Z == [digits |-> s, neg |-> neg, exp |-> it.val.exp]
             w == IF s = Never THEN Fails("never") ELSE Gives(Z)
  <2>1. /\ neg => ProcessMantissaAndExponent(it) = (IF q.err = "SUCCESS" THEN B(q.v) ELSE q)
        /\ ~neg => ProcessMantissaAndExponent(it) = (IF p.err = "SUCCESS" THEN B(p.v) ELSE p)
    <3>1. ASSUME neg PROVE ProcessMantissaAndExponent(it) = IF q.err = "SUCCESS" THEN B(q.v) ELSE q
      BY <1>1, <1>4, <1>6, <3>1 DEF ProcessMantissaAndExponent, Then
    <3>2. ASSUME ~neg PROVE ProcessMantissaAndExponent(it) = IF p.err = "SUCCESS" THEN B(p.v) ELSE p
      BY <1>1, <1>4, <1>6, <3>2 DEF ProcessMantissaAndExponent, Then
    <3> HIDE DEF p, q, B
    <3> QED BY <3>1, <3>2
  <2>2. m = BigNumber(neg, s) /\ neg \in BOOLEAN /\ s \in Bytes
    BY <1>2, <1>3, <1>6 DEF MantissaNumber
  <2>3. r = M
    <3> HIDE DEF s, neg
    <3> QED BY <2>2, SignedIs
  <2> HIDE DEF p, q
  <2>4. ProcessMantissaAndExponent(it) = IF r.err = "SUCCESS" THEN B(r.v) ELSE r
    <3> HIDE DEF B
    <3>1. CASE neg
      <4>1. r = q
        BY <3>1
      <4> HIDE DEF r, neg
      <4> QED BY <2>1, <3>1, <4>1
    <3>2. CASE ~neg
      <4>1. r = p
        BY <3>2
      <4> HIDE DEF r, neg
      <4> QED BY <2>1, <3>2, <4>1
    <3> QED BY <3>1, <3>2
  <2> HIDE DEF r, M
  <2>5. ProcessMantissaAndExponent(it) = X
    <3>1. CASE m \in Signeds
      <4>1. r.err = "SUCCESS" /\ r.v = m
        BY <2>3, <3>1, ResultsAre DEF M
      <4> QED BY <1>2, <2>4, <3>1, <4>1
    <3>2. CASE m \notin Signeds
      <4>1. r = Fails(UnderOver) /\ r.err # "SUCCESS"
        BY <2>3, <3>2, ResultsAre DEF M, UnderOver
      <4> QED BY <2>4, <3>2, <4>1
    <3> QED BY <3>1, <3>2
  <2>6. ProcessMantissaAndExponentBig(it) = w
    <3>1. CASE neg
      <4>1. neg = TRUE
        BY <2>2, <3>1
      <4>2. it.type \in {"DECIMAL_FRACTION_NEG_BIGNUM", "BIGFLOAT_NEG_BIGNUM"}
        BY <1>4, <1>6, <3>1
      <4>3. w = IF s = Never THEN Fails("never")
                ELSE Gives([digits |-> s, neg |-> TRUE, exp |-> it.val.exp])
        <5> HIDE DEF neg, s
        <5> QED BY <4>1
      <4> HIDE DEF w
      <4> QED BY <1>1, <4>2, <4>3 DEF ProcessMantissaAndExponentBig
    <3>2. CASE ~neg
      <4>1. neg = FALSE
        BY <2>2, <3>2
      <4>2. it.type \in {"DECIMAL_FRACTION_POS_BIGNUM", "BIGFLOAT_POS_BIGNUM"}
        BY <1>4, <1>6, <3>2
      <4>3. w = IF s = Never THEN Fails("never")
                ELSE Gives([digits |-> s, neg |-> FALSE, exp |-> it.val.exp])
        <5> HIDE DEF neg, s
        <5> QED BY <4>1
      <4> HIDE DEF w
      <4> QED BY <1>1, <4>2, <4>3 DEF ProcessMantissaAndExponentBig
    <3> QED BY <3>1, <3>2
  <2>7. Z = [digits |-> a.arg.mant, neg |-> a.arg.neg, exp |-> a.arg.exp] /\ s = a.arg.mant
    BY <1>2
  <2> HIDE DEF Z, X, s
  <2> QED BY <2>5, <2>6, <2>7 DEF X
<1> QED BY <1>3, <1>5, <1>6

\* What the getters of fractions answer.
LEMMA FractionsRight ==
  ASSUME NEW a, IsAdd(a), a.tag, a.fn \in FractionAdders, NEW c, c.more \in BOOLEAN,
         c.req # "NOT_A_TAG", FractionArg(a, c), NEW r, Answers(a, c, r)
  PROVE  FractionRight(a, c, r)
<1> DEFINE b == BaseFlag(BaseOf(a))
           m == MantissaNumber(a)
<1>1. ~TooNegative(a)
  BY DEF TooNegative, FractionAdders, Fractions, BigFractions
<1>2. PICK it : IsRead(it, a) /\ r = Result(c, it)
  BY <1>1, OutcomeIs
<1>3. MantissaAndExponentTypeHandler(FractionSpec(c, b), it) = it
  <2> HIDE DEF b
  <2> QED BY <1>1, <1>2, HandlerIs DEF b
<1>4. NumberOf(a)[1] = m
  BY FractionNumber DEF NumberIs
<1>5. a.fn \in BigFractions => a.arg.mant # Never
  <2> DEFINE e == -1
             s == a.arg.mant
             S == 0..(BYTE - 1)
  <2>1. e \in Int /\ e < 0
    OBVIOUS
  <2>2. BYTE \in Nat
    BY Limits
  <2> HIDE DEF e, S
  <2> SUFFICES ASSUME a.fn \in BigFractions, s = <<e>> PROVE FALSE
    BY DEF Never, e
  <2>3. s \in Seq(S)
    BY FractionArgs DEF Bytes, S
  <2>4. Len(s) = 1 /\ s[1] = e
    OBVIOUS
  <2> HIDE DEF s
  <2>5. s[1] \in S
    BY <2>3, <2>4
  <2> QED BY <2>1, <2>2, <2>4, <2>5 DEF S
<1> HIDE DEF m
<1>6. ASSUME c.fn = FractionGetter(a, FALSE)
      PROVE  IF NumberOf(a)[1] \in INT_MIN..INT_MAX
             THEN r.err = "SUCCESS" /\ r.v = [mant |-> NumberOf(a)[1], exp |-> a.arg.exp]
             ELSE r.err = UnderOver
  <2>1. r = ProcessMantissaAndExponent(it)
    <3>1. CASE BaseOf(a) = 10
      <4>1. c.fn = "GetDecimalFraction" /\ b = "DECIMAL_FRACTION"
        BY <1>6, <3>1 DEF FractionGetter, BaseFlag
      <4>2. Result(c, it) = GetDecimalFraction(c, it)
        BY <4>1 DEF Result
      <4> HIDE DEF b
      <4> QED BY <1>2, <1>3, <4>1, <4>2 DEF GetDecimalFraction
    <3>2. CASE BaseOf(a) # 10
      <4>1. c.fn = "GetBigFloat" /\ b = "BIGFLOAT"
        BY <1>6, <3>2 DEF FractionGetter, BaseFlag
      <4>2. Result(c, it) = GetBigFloat(c, it)
        BY <4>1 DEF Result
      <4> HIDE DEF b
      <4> QED BY <1>2, <1>3, <4>1, <4>2 DEF GetBigFloat
    <3> QED BY <3>1, <3>2
  <2>2. r = IF m \in Signeds THEN Gives([mant |-> m, exp |-> a.arg.exp]) ELSE Fails(UnderOver)
    BY <1>1, <1>2, <2>1, FractionIs DEF m
  <2> HIDE DEF b
  <2>3. CASE m \in Signeds
    <3> DEFINE Z == [mant |-> m, exp |-> a.arg.exp]
    <3>1. r = Gives(Z)
      BY <2>2, <2>3
    <3>2. Z = [mant |-> NumberOf(a)[1], exp |-> a.arg.exp]
      BY <1>4
    <3> HIDE DEF Z
    <3>3. r.err = "SUCCESS" /\ r.v = Z
      BY <3>1, ResultsAre
    <3>4. NumberOf(a)[1] \in INT_MIN..INT_MAX
      BY <1>4, <2>3 DEF Signeds
    <3> QED BY <3>2, <3>3, <3>4
  <2>4. CASE m \notin Signeds
    <3>1. r.err = UnderOver
      BY <2>2, <2>4, ResultsAre
    <3>2. NumberOf(a)[1] \notin INT_MIN..INT_MAX
      BY <1>4, <2>4 DEF Signeds
    <3> QED BY <3>1, <3>2
  <2> QED BY <2>3, <2>4
<1>7. ASSUME c.fn = FractionGetter(a, TRUE), a.fn \in BigFractions
      PROVE  r.err = "SUCCESS" /\ r.v = [digits |-> a.arg.mant, neg |-> a.arg.neg, exp |-> a.arg.exp]
  <2> DEFINE Z == [digits |-> a.arg.mant, neg |-> a.arg.neg, exp |-> a.arg.exp]
  <2>1. r = ProcessMantissaAndExponentBig(it)
    <3>1. CASE BaseOf(a) = 10
      <4>1. c.fn = "GetDecimalFractionBig" /\ b = "DECIMAL_FRACTION"
        BY <1>7, <3>1 DEF FractionGetter, BaseFlag
      <4>2. Result(c, it) = GetDecimalFractionBig(c, it)
        BY <4>1 DEF Result
      <4> HIDE DEF b
      <4> QED BY <1>2, <1>3, <4>1, <4>2 DEF GetDecimalFractionBig
    <3>2. CASE BaseOf(a) # 10
      <4>1. c.fn = "GetBigFloatBig" /\ b = "BIGFLOAT"
        BY <1>7, <3>2 DEF FractionGetter, BaseFlag
      <4>2. Result(c, it) = GetBigFloatBig(c, it)
        BY <4>1 DEF Result
      <4> HIDE DEF b
      <4> QED BY <1>2, <1>3, <4>1, <4>2 DEF GetBigFloatBig
    <3> QED BY <3>1, <3>2
  <2>2. r = Gives(Z)
    BY <1>1, <1>2, <1>5, <1>7, <2>1, FractionIs
  <2> HIDE DEF Z
  <2> QED BY <2>2, ResultsAre DEF Z
<1> QED BY <1>6, <1>7 DEF FractionRight

-----------------------------------------------------------------------------
(* The results                                                              *)

\* The result r of a call c for what was added with a is right.
ResultRight(a, c, r) ==
  /\ IsNumber(a) =>
       /\ c.fn \in IntegerGetters => IntRight(a, RangeOf(c.fn), OptionsOf(c), r)
       /\ c.fn \in DoubleGetters => DoubleRight(a, OptionFor(a), OptionsOf(c), r)
  /\ \A p \in StringPairs : c.fn = p.get => StringRight(a, c, r, {p.add}, ContentOfPair(p))
  /\ c.fn = "GetEpochDate" => DateRight(a, c, r)
  /\ c.fn = "GetEpochDays" => DaysRight(a, c, r)
  /\ c.fn = "GetBignum" => BignumRight(a, c, r)
  /\ a.tag /\ a.fn \in FractionAdders /\ c.req # "NOT_A_TAG" /\ FractionArg(a, c) => FractionRight(a, c, r)

\* Whatever was called, the answer is right.
LEMMA ResultIs ==
  ASSUME NEW a, IsAdd(a), NEW c, c.more \in BOOLEAN, NEW r, Answers(a, c, r)
  PROVE  ResultRight(a, c, r)
<1>1. IsNumber(a) =>
       /\ c.fn \in IntegerGetters => IntRight(a, RangeOf(c.fn), OptionsOf(c), r)
       /\ c.fn \in DoubleGetters => DoubleRight(a, OptionFor(a), OptionsOf(c), r)
  BY NumbersAre
<1>2. \A p \in StringPairs : c.fn = p.get => StringRight(a, c, r, {p.add}, ContentOfPair(p))
  BY StringsRight
<1>3. /\ c.fn = "GetEpochDate" => DateRight(a, c, r)
      /\ c.fn = "GetEpochDays" => DaysRight(a, c, r)
      /\ c.fn = "GetBignum" => BignumRight(a, c, r)
  BY DatesRight
<1>4. a.tag /\ a.fn \in FractionAdders /\ c.req # "NOT_A_TAG" /\ FractionArg(a, c) => FractionRight(a, c, r)
  BY FractionsRight
<1> QED BY <1>1, <1>2, <1>3, <1>4 DEF ResultRight

\* The last result is right for the entry it is for.
LastRight ==
  last.fn # "none" =>
    /\ last.fn = last.call.fn
    /\ \A i \in DOMAIN added : IsFor(i) => ResultRight(added[i], last.call, last.result)

IInv == Writing /\ Begun /\ LastRight

\* It holds when nothing is written yet.
LEMMA InitIInv ==
  ASSUME Init
  PROVE  IInv
<1>1. LastRight
  BY DEF Init, LastRight, NoCall
<1> QED BY <1>1, WritingInit DEF IInv

\* Every step keeps it.
LEMMA NextIInv ==
  ASSUME IInv, [Next]_vars
  PROVE  IInv'
<1>0. Writing /\ Begun /\ LastRight
  BY DEF IInv
<1>1. ASSUME NEW a \in Adds \cup MoreAdds, Add(a) PROVE IInv'
  <2>1. Writing' /\ Begun'
    BY <1>0, <1>1, AddKeeps
  <2>2. last' = NoCall
    BY <1>0, <1>1 DEF Add, Begun
  <2> QED BY <2>1, <2>2 DEF IInv, LastRight, NoCall
<1>2. CASE EnterMap
  <2>1. Writing' /\ Begun'
    BY <1>0, <1>2, OtherKeeps
  <2>2. last' = NoCall
    BY <1>0, <1>2 DEF EnterMap, Begun
  <2> QED BY <2>1, <2>2 DEF IInv, LastRight, NoCall
<1>3. ASSUME NEW c \in Calls \cup Again, Get(c) PROVE IInv'
  <2>1. Writing' /\ Begun'
    BY <1>0, <1>3, GetKeeps
  <2>2. c.more \in BOOLEAN
    BY CallsAssumption
  <2>3. last'.fn = c.fn /\ last'.call = c
    BY <1>3 DEF Get, Called
  <2>4. ASSUME NEW i \in (DOMAIN added)', IsFor(i)'
        PROVE  ResultRight(added'[i], last'.call, last'.result)
    <3>1. i \in 1..Len(added) /\ added' = added /\ Answers(added[i], c, last'.result)
      BY <1>0, <1>3, <2>4, AnswerIs
    <3>2. IsAdd(added[i])
      BY <1>0, <3>1 DEF Writing, Entries
    <3> QED BY <2>2, <2>3, <3>1, <3>2, ResultIs
  <2>5. LastRight'
    BY <2>3, <2>4 DEF LastRight
  <2> QED BY <2>1, <2>5 DEF IInv
<1>4. CASE GetAndResetError
  <2>1. Writing' /\ Begun'
    BY <1>0, <1>4, OtherKeeps
  <2>2. last' = NoCall
    BY <1>4 DEF GetAndResetError
  <2> QED BY <2>1, <2>2 DEF IInv, LastRight, NoCall
<1>5. CASE UNCHANGED vars
  <2>1. Writing' /\ Begun'
    BY <1>0, <1>5, OtherKeeps
  <2>2. LastRight'
    BY <1>0, <1>5 DEF vars, LastRight, IsFor
  <2> QED BY <2>1, <2>2 DEF IInv
<1> QED BY <1>1, <1>2, <1>3, <1>4, <1>5 DEF Next

-----------------------------------------------------------------------------
(* Where a call leaves the cursor                                           *)

\* A requirement that does not name arrays.
LEMMA ArrayIsNot ==
  ASSUME NEW it, it.type = "ARRAY", NEW c, NEW T, NEW C, "ARRAY" \notin T \cup C
  PROVE  CheckTagRequirement(TagSpec(c, T, C), it) = "UNEXPECTED_TYPE"
<1> DEFINE s == TagSpec(c, T, C)
<1>1. s.tagged = T /\ s.content = C
  BY DEF TagSpec
<1>2. CheckTypeList("ARRAY", T) = "UNEXPECTED_TYPE" /\ CheckTypeList("ARRAY", C) = "UNEXPECTED_TYPE"
      /\ CheckTypeList("ARRAY", TypeList(C) \cup T) = "UNEXPECTED_TYPE"
  BY DEF CheckTypeList, TypeList
<1> HIDE DEF s
<1>3. CheckTagRequirement(s, it) = "UNEXPECTED_TYPE"
  BY <1>1, <1>2 DEF CheckTagRequirement
<1> QED BY <1>3 DEF s

\* No getter but those of fractions takes an array.
LEMMA ArrayIsRefused ==
  ASSUME NEW it, it.type = "ARRAY", NEW c, c.fn \in Getters \ FractionGetters
  PROVE  Result(c, it).err # "SUCCESS"
<1>1. ASSUME NEW T, NEW C, "ARRAY" \notin T \cup C
      PROVE  GetTaggedString(TagSpec(c, T, C), it).err # "SUCCESS"
  <2> DEFINE s == TagSpec(c, T, C)
  <2>1. CheckTagRequirement(s, it) = "UNEXPECTED_TYPE"
    BY <1>1, ArrayIsNot
  <2> HIDE DEF s
  <2>2. GetTaggedString(s, it) = Fails("UNEXPECTED_TYPE")
    BY <2>1 DEF GetTaggedString, Checked, Unless
  <2> QED BY <2>2, ResultsAre DEF s
<1>2. CASE c.fn = "GetByteString"
  BY <1>1, <1>2 DEF Result, GetByteString
<1>3. CASE c.fn = "GetTextString"
  BY <1>1, <1>3 DEF Result, GetTextString
<1>4. CASE c.fn = "GetDateString"
  BY <1>1, <1>4 DEF Result, GetDateString
<1>5. CASE c.fn = "GetDaysString"
  BY <1>1, <1>5 DEF Result, GetDaysString
<1>6. CASE c.fn = "GetURI"
  BY <1>1, <1>6 DEF Result, GetURI
<1>7. CASE c.fn = "GetB64"
  BY <1>1, <1>7 DEF Result, GetB64
<1>8. CASE c.fn = "GetB64URL"
  BY <1>1, <1>8 DEF Result, GetB64URL
<1>9. CASE c.fn = "GetRegex"
  BY <1>1, <1>9 DEF Result, GetRegex
<1>10. CASE c.fn = "GetBinaryUUID"
  BY <1>1, <1>10 DEF Result, GetBinaryUUID
<1>11. CASE c.fn = "GetMIMEMessage"
  <2>1. CheckTagRequirement(TagSpec(c, {"MIME"}, {"TEXT_STRING"}), it) = "UNEXPECTED_TYPE"
        /\ CheckTagRequirement(TagSpec(c, {"BINARY_MIME"}, {"BYTE_STRING"}), it) = "UNEXPECTED_TYPE"
    BY ArrayIsNot
  <2>2. GetMIMEInternal(c, it) = Unexpected
    BY <2>1 DEF GetMIMEInternal
  <2>3. Result(c, it) = GetMIMEInternal(c, it)
    BY <1>11 DEF Result, GetMIMEMessage
  <2> QED BY <2>2, <2>3, ResultsAre
<1>12. CASE c.fn = "GetEpochDate"
  <2> DEFINE j == [it EXCEPT !.type = IF @ = "NAN" THEN "DOUBLE" ELSE @]
             s == TagSpec(c, {"DATE_EPOCH"}, {"INT64", "DOUBLE", "FLOAT", "UINT64"})
             x == IF it.type = "DATE_EPOCH" THEN Gives(it.val) ELSE DateResult(DecodeDateEpoch(it))
  <2>1. j.type = "ARRAY" \/ j = it
    OBVIOUS
  <2> HIDE DEF j
  <2>2. CheckTagRequirement(s, j) = "UNEXPECTED_TYPE"
    BY <2>1, ArrayIsNot
  <2> HIDE DEF s, x
  <2>3. Checked(s, j, x) = Fails("UNEXPECTED_TYPE")
    BY <2>2 DEF Checked, Unless
  <2>4. Result(c, it) = Checked(s, j, x)
    BY <1>12 DEF Result, ProcessEpochDate, s, j, x
  <2> QED BY <2>3, <2>4, ResultsAre
<1>13. CASE c.fn = "GetEpochDays"
  <2> DEFINE s == TagSpec(c, {"DAYS_EPOCH"}, {"INT64", "UINT64"})
             x == IF it.type = "DAYS_EPOCH" THEN Gives(it.val) ELSE DateResult(DecodeDaysEpoch(it))
  <2>2. CheckTagRequirement(s, it) = "UNEXPECTED_TYPE"
    BY ArrayIsNot
  <2> HIDE DEF s, x
  <2>3. Checked(s, it, x) = Fails("UNEXPECTED_TYPE")
    BY <2>2 DEF Checked, Unless
  <2>4. Result(c, it) = Checked(s, it, x)
    BY <1>13 DEF Result, ProcessEpochDays, s, x
  <2> QED BY <2>3, <2>4, ResultsAre
<1>14. CASE c.fn = "GetBignum"
  <2> DEFINE s == TagSpec(c, {"POSBIGNUM", "NEGBIGNUM"}, {"BYTE_STRING"})
  <2>2. CheckTagRequirement(s, it) = "UNEXPECTED_TYPE"
    BY ArrayIsNot
  <2> HIDE DEF s
  <2>3. \A x : Checked(s, it, x) = Fails("UNEXPECTED_TYPE")
    BY <2>2 DEF Checked, Unless
  <2>4. \E x : Result(c, it) = Checked(s, it, x)
    BY <1>14 DEF Result, ProcessBigNum, s
  <2> QED BY <2>3, <2>4, ResultsAre
<1>15. CASE c.fn \in {"GetBool", "GetNull", "GetUndefined"}
  BY <1>15, ResultsAre DEF Result, ProcessBool, GetNull, GetUndefined
<1>16. \A o : /\ ConvertInt64(it, o) = Unexpected /\ Int64ConvertAll(it, o) = Unexpected
              /\ ConvertUInt64(it, o) = Unexpected /\ UInt64ConvertAll(it, o) = Unexpected
              /\ ConvertDouble(it, o) = Unexpected /\ DoubleConvertAll(it, o) = Unexpected
  BY DEF ConvertInt64, Int64ConvertAll, ConvertUInt64, UInt64ConvertAll, ConvertDouble, DoubleConvertAll
<1>17. CASE c.fn \in IntegerGetters \cup DoubleGetters
  <2>1. Result(c, it) = Unexpected
    BY <1>16, <1>17 DEF Result, IntegerGetters, DoubleGetters, GetInt64, GetInt64Convert, GetInt64ConvertAll,
      GetUInt64, GetUInt64Convert, GetUInt64ConvertAll, GetDouble, GetDoubleConvert, GetDoubleConvertAll, Widened
  <2> QED BY <2>1, ResultsAre
<1> QED BY <1>2, <1>3, <1>4, <1>5, <1>6, <1>7, <1>8, <1>9, <1>10, <1>11, <1>12, <1>13, <1>14, <1>15, <1>17
  DEF Getters, FractionGetters, IntegerGetters, DoubleGetters

\* A getter of fractions that does not enter an array fails.
LEMMA FractionIsRefused ==
  ASSUME NEW it, IsItem(it), NEW c, c.fn \in FractionGetters, NEW b,
         b = IF c.fn \in {"GetDecimalFraction", "GetDecimalFractionBig"} THEN "DECIMAL_FRACTION" ELSE "BIGFLOAT",
         CheckTagRequirement(FractionSpec(c, b), it) # "SUCCESS"
  PROVE  Result(c, it).err # "SUCCESS"
<1> DEFINE x == AsError(it, "UNEXPECTED_TYPE")
           h == MantissaAndExponentTypeHandler(FractionSpec(c, b), it)
<1>1. x.err = "UNEXPECTED_TYPE"
  BY Changed, RecordFields
<1>2. h = x
  BY DEF MantissaAndExponentTypeHandler
<1> HIDE DEF x, h
<1>3. ProcessMantissaAndExponent(x) = Fails("UNEXPECTED_TYPE")
      /\ ProcessMantissaAndExponentBig(x) = Fails("UNEXPECTED_TYPE")
  BY <1>1 DEF ProcessMantissaAndExponent, ProcessMantissaAndExponentBig
<1>4. Result(c, it) \in {ProcessMantissaAndExponent(h), ProcessMantissaAndExponentBig(h)}
  BY DEF FractionGetters, Result, GetDecimalFraction, GetDecimalFractionBig, GetBigFloat, GetBigFloatBig, h
<1> QED BY <1>2, <1>3, <1>4, ResultsAre

\* A call takes the entry its item is of.
LEMMA EntryIsTaken ==
  ASSUME Writing, NEW i \in 1..Len(added), NEW c, c.fn \in Getters,
         NEW it, it = GetNextTagContent(in, added[i].at), NEW r \in Outcomes(c, it)
  PROVE  \/ After(c, it) = Behind(i)
         \/ added[i].fn \in FractionAdders /\ ~added[i].tag /\ r.err # "SUCCESS"
<1> DEFINE a == added[i]
           p == a.at
<1>1. /\ IsAdd(a) /\ Block(in, p, a, Labels[i]) /\ FewTags(in) /\ p + Size(a) = Behind(i)
      /\ a.tag \in BOOLEAN
  BY TypeIs DEF Writing, Entries, InRow
<1> HIDE DEF a, p
<1>2. p \in Nat /\ p + 1 \in Nat /\ p + 1 >= 1
  BY <1>1 DEF Block, FewTags
<1>3. it = EntryItem(a, p)
  BY <1>1, EntryItemIs DEF a, p
<1>4. it.type # "ARRAY" => After(c, it) = it.at
  BY DEF After, CursorAfter
<1>5. CASE TooNegative(a)
  <2>1. it.type = "NONE" /\ it.at = p + 1
    BY <1>3, <1>5, RecordFields DEF EntryItem
  <2>2. Size(a) = 1
    BY <1>5 DEF Size, TooNegative, FractionAdders, Fractions, BigFractions
  <2> QED BY <1>1, <1>4, <2>1, <2>2
<1>6. CASE ~TooNegative(a) /\ ~(a.fn \in FractionAdders /\ ~a.tag)
  <2>1. it.type = TypeOf(a) /\ it.at = p + (IF a.tag THEN Size(a) ELSE 1)
    BY <1>3, <1>6, RecordFields DEF EntryItem
  <2>2. TypeOf(a) # "ARRAY"
    BY <1>1, <1>6, TypeIs, PlainTypeIs DEF PlainTypes
  <2>3. ~a.tag => Size(a) = 1
    BY <1>6 DEF Size
  <2> QED BY <1>1, <1>4, <2>1, <2>2, <2>3
<1>7. CASE ~TooNegative(a) /\ a.fn \in FractionAdders /\ ~a.tag
  <2> DEFINE g == ExtraTags(a)
             b == IF c.fn \in {"GetDecimalFraction", "GetDecimalFractionBig"} THEN "DECIMAL_FRACTION"
                  ELSE "BIGFLOAT"
             base == IF 4 \in ToSet(g) THEN "DECIMAL_FRACTION" ELSE "BIGFLOAT"
             C == CheckTagRequirement(FractionSpec(c, b), it)
             m == MantissaAndExponent(in, it, it.at)
  <2>1. TypeOf(a) = "ARRAY" /\ ItemValue(a) = 2
    BY <1>1, <1>7, PlainTypeIs DEF TypeOf, ItemValue, ValueOf, FractionAdders, Fractions, BigFractions,
      ByteAdders, TextAdders
  <2> HIDE DEF g
  <2>2. it = Record("SUCCESS", "ARRAY", 2, g, 1, p + 1)
    BY <1>3, <1>7, <2>1 DEF EntryItem, g
  <2>3. IsItem(it) /\ it.type = "ARRAY" /\ it.err = "SUCCESS"
    BY <1>2, <2>2, RecordFields
  <2>4. m.at = p + 3
    <3>1. m = Record("SUCCESS", FractionType(base, MantissaType(a)), [mant |-> a.arg.mant, exp |-> a.arg.exp],
                     g, 1, p + 3)
      <4> HIDE DEF base
      <4> QED BY <1>1, <1>7, <2>2, FractionItemIs DEF base
    <3> QED BY <3>1, RecordFields
  <2>5. Size(a) = 3
    BY <1>7 DEF Size
  <2>6. r = Result(c, it)
    BY <2>3 DEF Outcomes
  <2> HIDE DEF m, C, b
  <2>7. CASE c.fn \in FractionGetters /\ C = "SUCCESS"
    <3>1. After(c, it) = CursorAfter(c, it, b)
      BY <2>7 DEF After, FractionGetters, b
    <3>2. CursorAfter(c, it, b) = m.at
      BY <2>3, <2>7 DEF CursorAfter, C, m
    <3> QED BY <1>1, <2>4, <2>5, <3>1, <3>2
  <2>8. CASE c.fn \in FractionGetters /\ C # "SUCCESS"
    BY <1>7, <2>3, <2>6, <2>8, FractionIsRefused DEF C, b, a
  <2>9. CASE c.fn \notin FractionGetters
    BY <1>7, <2>3, <2>6, <2>9, ArrayIsRefused DEF a
  <2> QED BY <2>7, <2>8, <2>9
<1> QED BY <1>5, <1>6, <1>7 DEF a

-----------------------------------------------------------------------------
(* The properties                                                           *)

LEMMA Entry0 ==
  ASSUME IInv, NEW i \in DOMAIN added, IsFor(i)
  PROVE  /\ ResultRight(added[i], last.call, last.result) /\ last.fn = last.call.fn /\ IsAdd(added[i])
<1>1. last.fn # "none"
  BY DEF IsFor
<1>2. i \in 1..Len(added)
  <2>1. DOMAIN added = DOMAIN [j \in 1..Len(added) |-> added[j]]
    BY DEF IInv, Writing, Sequences
  <2> QED BY <2>1
<1> QED BY <1>1, <1>2 DEF IInv, LastRight, Writing, Entries

\* It says that numbers are right.
LEMMA Numbers ==
  ASSUME IInv
  PROVE  NumbersAreRight
<1>1. IntegersAreRight
  <2> SUFFICES ASSUME NEW i \in DOMAIN added, IsFor(i), IsNumber(added[i]), last.fn \in IntegerGetters
               PROVE  LET n == IntegerOf(added[i])
                          r == last.result
                      IN  /\ Got => /\ n \in RangeOf(last.fn) /\ r.v = n
                                    /\ added[i].fn # "AddTBigFloatBigNum" =>
                                         OptionFor(added[i]) \in OptionsOf(last.call)
                          /\ r.err = UnderOver =>
                               \/ n \notin RangeOf(last.fn) \/ n = 0
                               \/ NumberOf(added[i])[1] \notin RangeOf(last.fn)
                               \/ added[i].fn = "AddDouble" /\ n > UINT_MAX - Slack
                          /\ r.err = "NUMBER_SIGN_CONVERSION" => NumberOf(added[i])[1] < 0
    BY DEF IntegersAreRight
  <2>1. IntRight(added[i], RangeOf(last.fn), OptionsOf(last.call), last.result)
    BY Entry0 DEF ResultRight
  <2>2. added[i].fn # "AddTBigFloatBigNum" => OptionFor(added[i]) = IntOption(added[i])
    BY OptionIs
  <2> QED BY <2>1, <2>2 DEF IntRight, Got
<1>2. DoublesAreRight
  <2> SUFFICES ASSUME NEW i \in DOMAIN added, IsFor(i), IsNumber(added[i]), last.fn \in DoubleGetters, Got,
                      ~(added[i].fn = "AddTDecimalFractionBigNum" /\ added[i].arg.neg),
                      ~(added[i].fn = "AddDouble" /\ "FLOAT" \notin OptionsOf(last.call))
               PROVE  /\ last.result.v = NumberOf(added[i])
                      /\ OptionFor(added[i]) \in OptionsOf(last.call)
    BY DEF DoublesAreRight
  <2>1. DoubleRight(added[i], OptionFor(added[i]), OptionsOf(last.call), last.result)
    BY Entry0 DEF ResultRight
  <2> QED BY <2>1 DEF DoubleRight, Got
<1> QED BY <1>1, <1>2 DEF NumbersAreRight

\* And strings, dates and big numbers.
LEMMA Contents ==
  ASSUME IInv
  PROVE  ContentsAreGot
<1>1. StringsAreGot
  <2> SUFFICES ASSUME NEW i \in DOMAIN added, NEW p \in StringPairs, IsFor(i), last.fn = p.get
               PROVE  LET content == IF p.get = "GetMIMEMessage" THEN {"AddText", "AddBytes"} ELSE {p.of}
                      IN  IF Satisfies(added[i], last.call, {p.add}, content)
                          THEN Got /\ last.result.v = added[i].arg
                          ELSE ~Got
    BY DEF StringsAreGot
  <2>1. StringRight(added[i], last.call, last.result, {p.add}, ContentOfPair(p))
    BY Entry0 DEF ResultRight
  <2> QED BY <2>1 DEF StringRight, ContentOfPair, Got
<1>2. DatesAreGot
  <2> SUFFICES ASSUME NEW i \in DOMAIN added, IsFor(i)
               PROVE  LET a == added[i]
                          c == last.call
                      IN  /\ last.fn = "GetEpochDate" =>
                               /\ Got => /\ Satisfies(a, c, {"AddTDateEpoch"}, {"AddInt64", "AddDouble"})
                                         /\ last.result.v = DateOf(a)
                               /\ Satisfies(a, c, {"AddTDateEpoch"}, {"AddInt64", "AddDouble"}) /\ ~Got =>
                                    DateOf(a) \notin SafeDates
                          /\ last.fn = "GetEpochDays" =>
                               /\ Got => last.result.v = a.arg
                               /\ Got <=> Satisfies(a, c, {"AddTDaysEpoch"}, {"AddInt64"})
                                            /\ a.arg \in INT_MIN..INT_MAX
                          /\ last.fn = "GetBignum" =>
                               /\ Got <=> Satisfies(a, c, BigAdders, {"AddBytes"})
                               /\ Got => last.result.v.digits = a.arg
                               /\ Got /\ a.tag => last.result.v.neg = (a.fn = "AddTNegativeBignum")
    BY DEF DatesAreGot
  <2> DEFINE a == added[i]
             c == last.call
             r == last.result
  <2>1. /\ last.fn = "GetEpochDate" => DateRight(a, c, r)
        /\ last.fn = "GetEpochDays" => DaysRight(a, c, r)
        /\ last.fn = "GetBignum" => BignumRight(a, c, r)
    BY Entry0 DEF ResultRight
  <2>2. ASSUME last.fn = "GetEpochDate"
        PROVE  /\ Got => /\ Satisfies(a, c, {"AddTDateEpoch"}, {"AddInt64", "AddDouble"})
                         /\ last.result.v = DateOf(a)
               /\ Satisfies(a, c, {"AddTDateEpoch"}, {"AddInt64", "AddDouble"}) /\ ~Got =>
                    DateOf(a) \notin SafeDates
    <3> HIDE DEF a, c
    <3> QED BY <2>1, <2>2 DEF DateRight, Got
  <2>3. ASSUME last.fn = "GetEpochDays"
        PROVE  /\ Got => last.result.v = a.arg
               /\ Got <=> Satisfies(a, c, {"AddTDaysEpoch"}, {"AddInt64"}) /\ a.arg \in INT_MIN..INT_MAX
    <3> HIDE DEF a, c
    <3> QED BY <2>1, <2>3 DEF DaysRight, Got
  <2>4. ASSUME last.fn = "GetBignum"
        PROVE  /\ Got <=> Satisfies(a, c, BigAdders, {"AddBytes"})
               /\ Got => last.result.v.digits = a.arg
               /\ Got /\ a.tag => last.result.v.neg = (a.fn = "AddTNegativeBignum")
    <3> HIDE DEF a, c
    <3> QED BY <2>1, <2>4 DEF BignumRight, Got
  <2> QED BY <2>2, <2>3, <2>4
<1> QED BY <1>1, <1>2 DEF ContentsAreGot

\* And fractions.
LEMMA FractionsGot ==
  ASSUME IInv
  PROVE  FractionsAreGot
<1> SUFFICES ASSUME NEW i \in DOMAIN added, IsFor(i), added[i].fn \in Fractions \cup BigFractions, added[i].tag,
                    last.call.req # "NOT_A_TAG", FractionArg(added[i], last.call)
             PROVE  LET a == added[i]
                        r == last.result
                    IN  /\ last.fn = FractionGetter(a, FALSE) =>
                             IF NumberOf(a)[1] \in INT_MIN..INT_MAX
                             THEN Got /\ r.v = [mant |-> NumberOf(a)[1], exp |-> a.arg.exp]
                             ELSE r.err = UnderOver
                        /\ last.fn = FractionGetter(a, TRUE) /\ a.fn \in BigFractions =>
                             Got /\ r.v = [digits |-> a.arg.mant, neg |-> a.arg.neg, exp |-> a.arg.exp]
  BY DEF FractionsAreGot
<1>1. FractionRight(added[i], last.call, last.result) /\ last.fn = last.call.fn
  BY Entry0 DEF ResultRight, FractionAdders
<1> DEFINE a == added[i]
<1>2. FractionRight(a, last.call, last.result)
  BY <1>1
<1> HIDE DEF a
<1>3. /\ last.fn = FractionGetter(a, FALSE) =>
           IF NumberOf(a)[1] \in INT_MIN..INT_MAX
           THEN Got /\ last.result.v = [mant |-> NumberOf(a)[1], exp |-> a.arg.exp]
           ELSE last.result.err = UnderOver
      /\ last.fn = FractionGetter(a, TRUE) /\ a.fn \in BigFractions =>
           Got /\ last.result.v = [digits |-> a.arg.mant, neg |-> a.arg.neg, exp |-> a.arg.exp]
  BY <1>1, <1>2 DEF FractionRight, Got
<1> QED BY <1>3 DEF a

\* At all times: the input holds what was added, and the last result is right
\* for the entry it is for, whatever was added and called.
THEOREM Invariant == Spec => []IInv
<1>1. Init => IInv
  BY InitIInv
<1>2. IInv /\ [Next]_vars => IInv'
  BY NextIInv
<1> QED BY <1>1, <1>2, PTL DEF Spec

\* No conversion gives another number than the one that was added.
THEOREM NumbersStayRight == Spec => []NumbersAreRight
<1>1. IInv => NumbersAreRight
  BY Numbers
<1> QED BY <1>1, Invariant, PTL

\* Strings, dates, days and big numbers are got exactly where the tag
\* requirement lets them through, and are what was added.
THEOREM ContentsStayGot == Spec => []ContentsAreGot
<1>1. IInv => ContentsAreGot
  BY Contents
<1> QED BY <1>1, Invariant, PTL

\* Tagged fractions are got with their mantissa and exponent.
THEOREM FractionsStayGot == Spec => []FractionsAreGot
<1>1. IInv => FractionsAreGot
  BY FractionsGot
<1> QED BY <1>1, Invariant, PTL

\* A getter by position takes the entry at the cursor, all of it and nothing
\* else, unless an untagged fraction is left with an error.
THEOREM EntriesInOrder == Spec => EntryByEntry
<1> DEFINE A == \A i \in DOMAIN added :
                  /\ err = "SUCCESS" /\ pos = added[i].at
                  /\ calls' # calls /\ last'.call.by = "next"
                  => \/ pos' = Behind(i)
                     \/ added[i].fn \in Fractions \cup BigFractions /\ ~added[i].tag /\ err' # "SUCCESS"
<1>1. IInv /\ [Next]_vars => [A]_vars
  <2> SUFFICES ASSUME IInv, Next, NEW i \in DOMAIN added, err = "SUCCESS", pos = added[i].at,
                      calls' # calls, last'.call.by = "next"
               PROVE  \/ pos' = Behind(i)
                      \/ added[i].fn \in Fractions \cup BigFractions /\ ~added[i].tag /\ err' # "SUCCESS"
    OBVIOUS
  <2>1. Writing
    BY DEF IInv
  <2>2. i \in 1..Len(added)
    <3>1. DOMAIN added = DOMAIN [j \in 1..Len(added) |-> added[j]]
      BY <2>1 DEF Writing, Sequences
    <3> QED BY <3>1
  <2>3. PICK c \in Calls \cup Again : Get(c)
    BY DEF Next, Add, EnterMap, GetAndResetError
  <2>4. PICK r \in Outcomes(c, Item(c)) : Called(c, r, After(c, Item(c)))
    BY <2>3 DEF Get
  <2>5. err' = r.err /\ pos' = After(c, Item(c)) /\ last'.call = c
    BY <2>4 DEF Called
  <2>6. Item(c) = GetNextTagContent(in, added[i].at)
    BY <2>5 DEF Item
  <2>7. c.fn \in Getters /\ c.more \in BOOLEAN
    BY CallsAssumption
  <2> QED BY <2>1, <2>2, <2>4, <2>5, <2>6, <2>7, EntryIsTaken DEF FractionAdders
<1> QED BY <1>1, Invariant, PTL DEF Spec, EntryByEntry
==============================================================================
