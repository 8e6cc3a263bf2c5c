----------------------------- MODULE FieldElement -----------------------------
(***************************************************************************)
(* ed25519/src/fe.c: numbers modulo a prime 2^FieldBits - Fold in limbs of two  *)
(* sizes that take turns, each of them a signed number.  The code has ten   *)
(* limbs of 26 and 25 bits and the prime 2^255 - 19; a smaller prime has    *)
(* fewer and shorter ones.  Limb i of the code is number i + 1 here.        *)
(* 32 bytes are the number they stand for.                                  *)
(***************************************************************************)
EXTENDS Integers, Sequences

CONSTANTS
  Limbs,       \* how many, an even number
  LongBits,    \* bits of the first, third... limb; the others have one less
  Fold,        \* 2^FieldBits modulo the prime
  LoadAt,      \* the bits at which the limbs begin when they are loaded
  ChainLength, \* lines of the chains of powers between the first and the last
  Mul121666    \* the factor of fe_mul121666()

Limb == 1..Limbs

LimbSize(i) == 2 ^ (IF i % 2 = 1 THEN LongBits ELSE LongBits - 1)
Weight(i)   == 2 ^ (((i - 1) \div 2) * (2 * LongBits - 1) + ((i - 1) % 2) * LongBits)
FieldBits   == (Limbs \div 2) * (2 * LongBits - 1)
Prime       == 2 ^ FieldBits - Fold

ASSUME LimbsAssumption ==
  /\ Limbs \in Nat \ {0} /\ Limbs % 2 = 0 /\ LongBits \in Nat \ {0, 1}
  /\ Fold \in 1..(LimbSize(Limbs) - 1) /\ Prime % 8 = 5
  /\ LoadAt \in [Limb -> Nat] /\ LoadAt[1] = 0
  /\ \A i \in Limb : 2 ^ LoadAt[i] >= Weight(i) /\ \A j \in Limb : i < j => LoadAt[i] < LoadAt[j]
  /\ ChainLength \in 0..7 /\ Mul121666 \in Nat

RECURSIVE SumOf(_, _)

\* f[1] + ... + f[n]
SumOf(f, n) == IF n = 0 THEN 0 ELSE SumOf(f, n - 1) + f[n]

\* The same limbs; TLC evaluates them once, and not whenever one is used.
Evaluated(f) == SubSeq(f, 1, Limbs)

\* The number that limbs stand for.
Value(f) == SumOf([i \in Limb |-> f[i] * Weight(i)], Limbs)

-----------------------------------------------------------------------------
(* Carries                                                                  *)

\* Limb i is brought between -1/2 and 1/2 of its size.
CarryFrom(h, i) ==
  LET carry == (h[i] + LimbSize(i) \div 2) \div LimbSize(i) IN
    IF i = Limbs THEN [h EXCEPT ![i] = @ - carry * LimbSize(i), ![1] = @ + Fold * carry]
    ELSE [h EXCEPT ![i] = @ - carry * LimbSize(i), ![i + 1] = @ + carry]

RECURSIVE CarriedAll(_)

\* s is <<h, order>>, order the limbs to come.
CarriedAll(s) == IF s[2] = <<>> THEN s[1] ELSE CarriedAll(<<CarryFrom(s[1], Head(s[2])), Tail(s[2])>>)

Carried(h, order) == CarriedAll(<<h, order>>)

\* Two chains of carries, from the first limb and from the middle, then around:
\* in the code 0 4 1 5 2 6 3 7 4 8 9 0.
Half         == Limbs \div 2 - 1
InTwoChains  == [n \in 1..(2 * Half + 2) |-> (n + 1) \div 2 + IF n % 2 = 0 THEN Half ELSE 0]
                  \o <<Limbs, 1>>
\* The highest, the other short limbs and the long ones: in the code 9 1 3 5 7 0 2 4 6 8.
ShortThenLong == <<Limbs>> \o [n \in 1..Half |-> 2 * n] \o [n \in 1..(Half + 1) |-> 2 * n - 1]

-----------------------------------------------------------------------------
(* Arithmetic                                                               *)

fe_0 == Evaluated([i \in Limb |-> 0])
fe_1 == [fe_0 EXCEPT ![1] = 1]

fe_add(f, g) == Evaluated([i \in Limb |-> f[i] + g[i]])
fe_sub(f, g) == Evaluated([i \in Limb |-> f[i] - g[i]])
fe_neg(f)    == Evaluated([i \in Limb |-> -f[i]])

fe_cswap(f, g, b) == IF b = 1 THEN <<g, f>> ELSE <<f, g>>

\* The limb whose product with limb i counts for limb k.
Partner(k, i) == ((k - i) % Limbs) + 1

\* How often: two short limbs meet half a limb too high, high ones come around.
Factor(i, j) ==
  (IF i % 2 = 0 /\ j % 2 = 0 THEN 2 ELSE 1) * (IF i + j > Limbs + 1 THEN Fold ELSE 1)

Products(f, g) ==
  Evaluated([k \in Limb |->
    SumOf([i \in Limb |-> LET j == Partner(k, i) IN Factor(i, j) * f[i] * g[j]], Limbs)])

\* Each product of two different limbs is taken once and doubled.
Squares(f) ==
  Evaluated([k \in Limb |->
    SumOf([i \in Limb |-> LET j == Partner(k, i) IN
             IF i > j THEN 0 ELSE Factor(i, j) * f[i] * f[j] * IF i < j THEN 2 ELSE 1], Limbs)])

fe_mul(f, g)     == Carried(Products(f, g), InTwoChains)
fe_sq(f)         == Carried(Squares(f), InTwoChains)
fe_sq2(f)        == LET h == Squares(f) IN Carried(fe_add(h, h), InTwoChains)
fe_mul121666(f)  == Carried(Evaluated([i \in Limb |-> f[i] * Mul121666]), ShortThenLong)

-----------------------------------------------------------------------------
(* Bytes                                                                    *)

\* The top bit of s is ignored.
fe_frombytes(s) ==
  LET end(i)  == IF i = Limbs THEN FieldBits ELSE LoadAt[i + 1]
      load(i) == (s \div 2 ^ LoadAt[i]) % 2 ^ (end(i) - LoadAt[i])
  IN  Carried(Evaluated([i \in Limb |-> load(i) * (2 ^ LoadAt[i] \div Weight(i))]), ShortThenLong)

RECURSIVE Quotient(_, _, _), CarriedUp(_, _)

\* q, taken through the limbs from i on.
Quotient(h, q, i) ==
  IF i > Limbs THEN q ELSE Quotient(h, (h[i] + q) \div LimbSize(i), i + 1)

\* Every limb is brought to 0..(LimbSize - 1); what leaves the last is dropped.
CarriedUp(h, i) ==
  LET carry == h[i] \div LimbSize(i)
      rest  == [h EXCEPT ![i] = @ - carry * LimbSize(i)]
  IN  IF i = Limbs THEN rest ELSE CarriedUp([rest EXCEPT ![i + 1] = @ + carry], i + 1)

\* Mutant: a number from the prime on is written as it is.
FloorUnrounded(h) == Quotient(h, 0, 1)

\* The number of times the prime goes into h, rounded down.
Floor(h) ==
  Quotient(h, (Fold * h[Limbs] + LimbSize(Limbs) \div 2) \div LimbSize(Limbs), 1)

fe_tobytes(h) == Value(CarriedUp([h EXCEPT ![1] = @ + Fold * Floor(h)], 1))

fe_isnegative(f) == fe_tobytes(f) % 2
fe_isnonzero(f)  == fe_tobytes(f) # 0

-----------------------------------------------------------------------------
(* Powers                                                                   *)

\* A line <<to, from, n, by>>: from is squared n times and multiplied by by, if any.
FirstLines ==
  <<<<"t0", "z", 1, "none">>, <<"t1", "t0", 2, "z">>, <<"t0", "t0", 0, "t1">>,
    <<"t1", "t0", 1, "t1">>>>
MiddleLines ==
  <<<<"t1", "t1", 5, "t1">>, <<"t2", "t1", 10, "t1">>, <<"t2", "t2", 20, "t2">>,
    <<"t1", "t2", 10, "t1">>, <<"t2", "t1", 50, "t1">>, <<"t2", "t2", 100, "t2">>,
    <<"t1", "t2", 50, "t1">>>>

\* fe_invert() and fe_pow22523(), with the first n of the middle lines.
InvertLines(n) ==
  FirstLines \o SubSeq(MiddleLines, 1, n) \o <<<<"out", "t1", 5, "t0">>>>
Pow22523Lines(n) ==
  FirstLines \o SubSeq(MiddleLines, 1, n) \o <<<<"out", "t1", 2, "z">>>>

RECURSIVE SquaredTimes(_), Power(_)

\* s is <<f, n>>: f squared n times.
SquaredTimes(s) == IF s[2] = 0 THEN s[1] ELSE SquaredTimes(<<fe_sq(s[1]), s[2] - 1>>)

\* What the lines leave in out, r the variables and the lines to come.
Power(r) ==
  IF r.lines = <<>> THEN r.out
  ELSE LET line    == Head(r.lines)
           squared == SquaredTimes(<<r[line[2]], line[3]>>)
           value   == IF line[4] = "none" THEN squared ELSE fe_mul(squared, r[line[4]])
       IN  Power([r EXCEPT !.lines = Tail(@), ![line[1]] = value])

Given(z, lines) == [t0 |-> fe_0, t1 |-> fe_0, t2 |-> fe_0, out |-> fe_0, z |-> z, lines |-> lines]

fe_invert(z)   == Power(Given(z, InvertLines(ChainLength)))
fe_pow22523(z) == Power(Given(z, Pow22523Lines(ChainLength)))

RECURSIVE Exponent(_, _)

\* The power of z in out, as the set of its bits; {-1} if two of them ever met.
Exponent(lines, r) ==
  IF lines = <<>> THEN r.out
  ELSE LET line    == Head(lines)
           squared == {b + line[3] : b \in r[line[2]]}
           factor  == IF line[4] = "none" THEN {} ELSE r[line[4]]
           value   == IF squared \cap factor = {} THEN squared \cup factor ELSE {-1}
       IN  Exponent(Tail(lines), [r EXCEPT ![line[1]] = value])

OfZ == [t0 |-> {}, t1 |-> {}, t2 |-> {}, out |-> {}, z |-> {0}]
=============================================================================
