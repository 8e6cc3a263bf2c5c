----------------------------- MODULE GroupElement -----------------------------
(***************************************************************************)
(* ed25519/src/ge.c: points in the four forms the code keeps them in, sums  *)
(* and doubles that go from one form to another, and the two ways to        *)
(* multiply.  precomp_data.h holds multiples of the base point.             *)
(***************************************************************************)
EXTENDS FieldElement, Scalar

CONSTANTS
  CurveD,        \* d of the curve
  BaseX, BaseY,  \* the base point
  SqrtM1         \* a square root of -1

-----------------------------------------------------------------------------
(* What ge.h says of the group, on numbers: the pairs <<x, y>> with          *)
(* -x^2 + y^2 = 1 + d x^2 y^2 modulo the prime.  The points are compared     *)
(* with these, and the tables hold them.                                     *)

Number == 0..(Prime - 1)

OnCurve(x, y) ==
  (y * y - x * x) % Prime = (1 + CurveD * ((((x * x) % Prime) * ((y * y) % Prime)) % Prime)) % Prime

RECURSIVE Raised(_, _)

Raised(x, n) ==
  IF n = 0 THEN 1
  ELSE LET half == Raised((x * x) % Prime, n \div 2)
       IN  IF n % 2 = 0 THEN half ELSE (half * x) % Prime

Inverted(x) == Raised(x % Prime, Prime - 2)

Zero == <<0, 1>>
Base == <<BaseX, BaseY>>

Opposite(P) == <<(-P[1]) % Prime, P[2]>>

Sum(P, Q) ==
  LET xy == (((P[1] * Q[2]) % Prime) + ((P[2] * Q[1]) % Prime)) % Prime
      yx == (((P[2] * Q[2]) % Prime) + ((P[1] * Q[1]) % Prime)) % Prime
      t  == (CurveD * ((((P[1] * Q[1]) % Prime) * ((P[2] * Q[2]) % Prime)) % Prime)) % Prime
  IN  <<(xy * Inverted(1 + t)) % Prime, (yx * Inverted(1 - t)) % Prime>>

RECURSIVE Times(_, _)

Times(n, P) ==
  IF n = 0 THEN Zero
  ELSE LET half  == Times(n \div 2, P)
           twice == Sum(half, half)
       IN  IF n % 2 = 0 THEN twice ELSE Sum(twice, P)

\* The bytes of a point: y, and whether x is odd in the bit above.
Encoded(P) == P[2] + (P[1] % 2) * 2 ^ FieldBits

ASSUME CurveAssumption ==
  /\ {CurveD, BaseX, BaseY} \subseteq Number /\ OnCurve(BaseX, BaseY)
  /\ Raised(CurveD, (Prime - 1) \div 2) = Prime - 1

-----------------------------------------------------------------------------
(* Constants of ge.c                                                        *)

Window     == 16                 \* the digits of a scalar are 4 bits
KeyDigits  == KeyBits \div 4
SlideReach == 6

d      == fe_frombytes(CurveD)
d2     == fe_frombytes((2 * CurveD) % Prime)
sqrtm1 == fe_frombytes(SqrtM1)

ASSUME GroupAssumption ==
  /\ (SqrtM1 * SqrtM1) % Prime = Prime - 1 /\ KeyBits % 4 = 0 /\ KeyBits = FieldBits + 1
  /\ Times(Order, Base) = Zero

-----------------------------------------------------------------------------
(* The tables                                                               *)

\* (y + x, y - x, 2dxy)
Duif(P) ==
  [yplusx  |-> fe_frombytes((P[2] + P[1]) % Prime),
   yminusx |-> fe_frombytes((P[2] - P[1]) % Prime),
   xy2d    |-> fe_frombytes((2 * ((CurveD * ((P[1] * P[2]) % Prime)) % Prime)) % Prime)]

\* base[pos][j] is j + 1 times 256^pos times the base point, Bi[j] 2j + 1 times.
base == [pos \in 0..(KeyDigits \div 2 - 1) |->
           [j \in 0..7 |-> Duif(Times((j + 1) * 256 ^ pos, Base))]]
Bi   == [j \in 0..7 |-> Duif(Times(2 * j + 1, Base))]

-----------------------------------------------------------------------------
(* Forms                                                                    *)

ge_p2_0 == [X |-> fe_0, Y |-> fe_1, Z |-> fe_1]
ge_p3_0 == [X |-> fe_0, Y |-> fe_1, Z |-> fe_1, T |-> fe_0]

ge_p1p1_to_p2(P) == [X |-> fe_mul(P.X, P.T), Y |-> fe_mul(P.Y, P.Z), Z |-> fe_mul(P.Z, P.T)]
ge_p1p1_to_p3(P) ==
  [X |-> fe_mul(P.X, P.T), Y |-> fe_mul(P.Y, P.Z), Z |-> fe_mul(P.Z, P.T), T |-> fe_mul(P.X, P.Y)]

ge_p3_to_p2(P)     == [X |-> P.X, Y |-> P.Y, Z |-> P.Z]
ge_p3_to_cached(P) ==
  [YplusX |-> fe_add(P.Y, P.X), YminusX |-> fe_sub(P.Y, P.X), Z |-> P.Z, T2d |-> fe_mul(P.T, d2)]

\* ge_tobytes() and ge_p3_tobytes() do the same.
BytesOf(P, recip) ==
  fe_tobytes(fe_mul(P.Y, recip)) + fe_isnegative(fe_mul(P.X, recip)) * 2 ^ FieldBits

ge_tobytes(P) == BytesOf(P, fe_invert(P.Z))

Invalid == [X |-> fe_0, Y |-> fe_0, Z |-> fe_0, T |-> fe_0]

\* uv^3 (uv^7)^((p-5)/8)
Candidate(u, v) ==
  LET v3  == fe_mul(fe_sq(v), v)
      uv7 == fe_mul(fe_mul(fe_sq(v3), v), u)
  IN  fe_mul(fe_mul(fe_pow22523(uv7), v3), u)

\* The root of u/v, x or x times the root of -1.
Root(x, vxx, u) == IF fe_isnonzero(fe_sub(vxx, u)) THEN fe_mul(x, sqrtm1) ELSE x

\* Of the two roots the one that is not the point's.
OtherSign(x, s) == IF fe_isnegative(x) = (s \div 2 ^ FieldBits) % 2 THEN fe_neg(x) ELSE x

PointOf(X, Y) == [X |-> X, Y |-> Y, Z |-> fe_1, T |-> fe_mul(X, Y)]

PointOrInvalid(s, Y, u, x, vxx) ==
  IF fe_isnonzero(fe_sub(vxx, u)) /\ fe_isnonzero(fe_add(vxx, u)) THEN Invalid
  ELSE PointOf(OtherSign(Root(x, vxx, u), s), Y)

NegatedFrom(s, Y, u, v) ==
  LET x == Candidate(u, v) IN PointOrInvalid(s, Y, u, x, fe_mul(fe_sq(x), v))

\* The negative of the point, or Invalid: y alone gives x^2 = u/v.
ge_frombytes_negate_vartime(s) ==
  LET Y == fe_frombytes(s)
  IN  NegatedFrom(s, Y, fe_sub(fe_sq(Y), fe_1), fe_add(fe_mul(fe_sq(Y), d), fe_1))

-----------------------------------------------------------------------------
(* Sums                                                                     *)

SumAndDifference(a, b, c, z2) ==
  [X |-> fe_sub(a, b), Y |-> fe_add(a, b), Z |-> fe_add(z2, c), T |-> fe_sub(z2, c)]

\* What the four sums have in common; plus, minus and t are of the second point.
Completed(P, plus, minus, t, z) ==
  SumAndDifference(fe_mul(fe_add(P.Y, P.X), plus), fe_mul(fe_sub(P.Y, P.X), minus),
                   fe_mul(t, P.T), fe_add(z, z))

Swapped(r) == [r EXCEPT !.Z = r.T, !.T = r.Z]

ge_add(P, Q)  == Completed(P, Q.YplusX, Q.YminusX, Q.T2d, fe_mul(P.Z, Q.Z))
ge_sub(P, Q)  == Swapped(Completed(P, Q.YminusX, Q.YplusX, Q.T2d, fe_mul(P.Z, Q.Z)))
ge_madd(P, Q) == Completed(P, Q.yplusx, Q.yminusx, Q.xy2d, P.Z)
ge_msub(P, Q) == Swapped(Completed(P, Q.yminusx, Q.yplusx, Q.xy2d, P.Z))

Doubled(aa, sum, dif, zz2) ==
  [X |-> fe_sub(aa, sum), Y |-> sum, Z |-> dif, T |-> fe_sub(zz2, dif)]

ge_p2_dbl(P) ==
  LET xx == fe_sq(P.X)
      yy == fe_sq(P.Y)
  IN  Doubled(fe_sq(fe_add(P.X, P.Y)), fe_add(yy, xx), fe_sub(yy, xx), fe_sq2(P.Z))
ge_p3_dbl(P) == ge_p2_dbl(ge_p3_to_p2(P))

-----------------------------------------------------------------------------
(* a * B + b * A                                                            *)

RECURSIVE CarriedBit(_, _), SlidBy(_, _, _), Slid(_, _)

\* Mutant: the bit is set, and what was there is lost.
CarriedBitNever(r, k) == IF k = KeyBits THEN r ELSE [r EXCEPT ![k] = 1]

\* Bit k is added to r: the ones from there on are cleared and the next zero is set.
CarriedBit(r, k) ==
  IF k = KeyBits THEN r ELSE IF r[k] = 0 THEN [r EXCEPT ![k] = 1]
  ELSE CarriedBit([r EXCEPT ![k] = 0], k + 1)

\* Digit i takes in what it can of the next SlideReach ones, from i + n on.
SlidBy(r, i, n) ==
  LET ahead == r[i + n] * 2 ^ n IN
    IF n > SlideReach \/ i + n >= KeyBits THEN r
    ELSE IF r[i + n] = 0 THEN SlidBy(r, i, n + 1)
    ELSE IF r[i] + ahead <= 15 THEN SlidBy([r EXCEPT ![i] = @ + ahead, ![i + n] = 0], i, n + 1)
    ELSE IF r[i] - ahead >= -15 THEN SlidBy(CarriedBit([r EXCEPT ![i] = @ - ahead], i + n), i, n + 1)
    ELSE r

Slid(r, i) ==
  IF i = KeyBits THEN r ELSE Slid(IF r[i] # 0 THEN SlidBy(r, i, 1) ELSE r, i + 1)

\* Digits that are 0 or odd and between -15 and 15.
slide(a) == Slid([i \in 0..(KeyBits - 1) |-> (a \div 2 ^ i) % 2], 0)

RECURSIVE OddMultiples(_, _), DoubleAndAdd(_, _, _, _)

\* A, 3A, 5A... 15A
OddMultiples(Ai, A2) ==
  IF Len(Ai) = 8 THEN Ai
  ELSE OddMultiples(Append(Ai, ge_p3_to_cached(ge_p1p1_to_p3(ge_add(A2, Ai[Len(Ai)])))), A2)

\* A multiple of A or of B is added to t, as the digit says.
WithA(t, digit, Ai) ==
  IF digit > 0 THEN ge_add(ge_p1p1_to_p3(t), Ai[digit \div 2 + 1])
  ELSE IF digit < 0 THEN ge_sub(ge_p1p1_to_p3(t), Ai[(-digit) \div 2 + 1]) ELSE t

WithB(t, digit) ==
  IF digit > 0 THEN ge_madd(ge_p1p1_to_p3(t), Bi[digit \div 2])
  ELSE IF digit < 0 THEN ge_msub(ge_p1p1_to_p3(t), Bi[(-digit) \div 2]) ELSE t

Advanced(r, adigit, bdigit, Ai) ==
  ge_p1p1_to_p2(WithB(WithA(ge_p2_dbl(r), adigit, Ai), bdigit))

\* s is <<r, i>>, i the next digit, down to 0.
DoubleAndAdd(s, aslide, bslide, Ai) ==
  IF s[2] < 0 THEN s[1]
  ELSE DoubleAndAdd(<<Advanced(s[1], aslide[s[2]], bslide[s[2]], Ai), s[2] - 1>>, aslide, bslide, Ai)

ge_double_scalarmult_vartime(a, A, b) ==
  LET Ai     == OddMultiples(<<ge_p3_to_cached(A)>>, ge_p1p1_to_p3(ge_p3_dbl(A)))
      aslide == slide(a)
      bslide == slide(b)
      Used   == {i \in 0..(KeyBits - 1) : aslide[i] # 0 \/ bslide[i] # 0}
      top    == IF Used = {} THEN -1 ELSE CHOOSE i \in Used : \A j \in Used : j <= i
  IN  DoubleAndAdd(<<ge_p2_0, top>>, aslide, bslide, Ai)

-----------------------------------------------------------------------------
(* a * B                                                                    *)

\* base[pos] times a digit between -8 and 8.
Multiple(pos, babs) ==
  IF babs = 0 THEN [yplusx |-> fe_1, yminusx |-> fe_1, xy2d |-> fe_0] ELSE base[pos][babs - 1]

NegatedIf(negative, t) ==
  IF negative THEN [yplusx |-> t.yminusx, yminusx |-> t.yplusx, xy2d |-> fe_neg(t.xy2d)] ELSE t

select(pos, digit) == NegatedIf(digit < 0, Multiple(pos, IF digit < 0 THEN -digit ELSE digit))

RECURSIVE Recoded(_, _), AddedDigits(_, _)

\* Digits between 0 and 15 become digits between -8 and 7, but for the last one.
Recoded(e, i) ==
  LET carry == (e[i] + Window \div 2) \div Window IN
    IF i = KeyDigits - 1 THEN e
    ELSE Recoded([e EXCEPT ![i] = @ - carry * Window, ![i + 1] = @ + carry], i + 1)

\* s is <<h, i>>: every second digit from i on is added to h.
AddedDigits(s, e) ==
  IF s[2] >= KeyDigits THEN s[1]
  ELSE AddedDigits(<<ge_p1p1_to_p3(ge_madd(s[1], select(s[2] \div 2, e[s[2]]))), s[2] + 2>>, e)

TwiceOf(P) == ge_p1p1_to_p2(ge_p2_dbl(P))

ge_scalarmult_base(a) ==
  LET e   == Recoded([i \in 0..(KeyDigits - 1) |-> (a \div Window ^ i) % Window], 0)
      odd == AddedDigits(<<ge_p3_0, 1>>, e)
      x8  == TwiceOf(TwiceOf(ge_p1p1_to_p2(ge_p3_dbl(odd))))
  IN  AddedDigits(<<ge_p1p1_to_p3(ge_p2_dbl(x8)), 0>>, e)
=============================================================================
