---------------------------- MODULE QcborNumbers ----------------------------
(***************************************************************************)
(* Conversion of decoded numbers to the integer or double the caller asked  *)
(* for (QCBOR/src/qcbor_decode.c): big numbers, decimal fractions, big      *)
(* floats, integers and floating point to int64_t, uint64_t and double.     *)
(* int64_t has W bits, a byte has ByteBits.  An item is a record with its   *)
(* uDataType in type and its val: a number, the bytes of a string, or       *)
(* [mant, exp].  A double is the triple of an exact number <<m, b, e>>,     *)
(* m * b^e; the rounding of a double is left out.  An item of type DOUBLE   *)
(* has the number of its halves as val, NaN is a type of its own.           *)
(***************************************************************************)
EXTENDS Integers, Sequences

CONSTANTS
  W,        \* bits of int64_t and uint64_t
  ByteBits, \* bits of a byte
  Slack     \* 0x7ff, what double cannot tell apart below the largest integer

ASSUME WidthAssumption ==
  W \in Nat /\ ByteBits \in 1..(W - 1) /\ W % ByteBits = 0 /\ Slack \in Nat

\* b to the power of n, as a function of n.
Pow(b, n) ==
  LET power[i \in Nat] == IF i = 0 THEN 1 ELSE power[i - 1] * b
  IN  power[n]

INT_MAX  == Pow(2, W - 1) - 1
INT_MIN  == -Pow(2, W - 1)
UINT_MAX == Pow(2, W) - 1
BYTE     == Pow(2, ByteBits)

\* What a conversion returns.
Gives(v)  == [err |-> "SUCCESS", v |-> v]
Fails(e)  == [err |-> e, v |-> 0]
UnderOver == "CONVERSION_UNDER_OVER_FLOW"

Then(r, Op(_)) == IF r.err = "SUCCESS" THEN Op(r.v) ELSE r

-----------------------------------------------------------------------------
(* Exponentiation on positive numbers                                       *)

\* One round of a loop that stops with an error when cond does not hold.
Round(r, cond, v) ==
  IF r.err # "SUCCESS" THEN r
  ELSE IF cond THEN Gives(v) ELSE Fails(UnderOver)

\* With base 10 a result of 0 is an error, with base 2 only to go on from 0.
RoundUp(b, r)   == Round(r, r.v <= UINT_MAX \div b, r.v * b)
RoundDown(b, r) == Round(r, IF b = 10 THEN r.v >= 10 ELSE r.v # 0, r.v \div b)

\* Their n rounds.
Up(b, m, n) ==
  LET up[i \in Nat] == IF i = 0 THEN Gives(m) ELSE RoundUp(b, up[i - 1])
  IN  up[n]

Down(b, m, n) ==
  LET down[i \in Nat] == IF i = 0 THEN Gives(m) ELSE RoundDown(b, down[i - 1])
  IN  down[n]

Exponentitate10(m, e) ==
  IF m = 0 THEN Gives(0) ELSE IF e >= 0 THEN Up(10, m, e) ELSE Down(10, m, -e)

Exponentitate2(m, e) == IF e >= 0 THEN Up(2, m, e) ELSE Down(2, m, -e)

Exponentitate(b, m, e) == IF b = 10 THEN Exponentitate10(m, e) ELSE Exponentitate2(m, e)

Magnitude(n) == IF n < 0 THEN -n ELSE n
Signed(n, u) == IF n > 0 THEN u ELSE -u

FitsSignedEither(n, r) ==
  IF r.err = "SUCCESS" /\ r.v > INT_MAX + 1 THEN Fails(UnderOver) ELSE [r EXCEPT !.v = Signed(n, @)]

\* The bound is one more for a mantissa that is not positive, for INT64_MIN.
FitsSigned(n, r) ==
  IF r.err = "SUCCESS" /\ r.v > (IF n > 0 THEN INT_MAX ELSE INT_MAX + 1)
  THEN Fails(UnderOver)
  ELSE [r EXCEPT !.v = Signed(n, @)]

ExponentiateNN(b, m, e) == FitsSigned(m, Exponentitate(b, Magnitude(m), e))

ExponentitateNU(b, m, e) ==
  IF m < 0 THEN Fails("NUMBER_SIGN_CONVERSION") ELSE Exponentitate(b, m, e)

-----------------------------------------------------------------------------
(* Big numbers: sequences of bytes                                          *)

Shifted(r, byte, max) ==
  IF r.err # "SUCCESS" THEN r
  ELSE IF r.v > max \div BYTE THEN Fails(UnderOver) ELSE Gives(r.v * BYTE + byte)

ConvertBigNumToUnsigned(big, max) ==
  LET f[i \in 0..Len(big)] == IF i = 0 THEN Gives(0) ELSE Shifted(f[i - 1], big[i], max)
  IN  f[Len(big)]

ConvertPositiveBigNumToSigned(big) == ConvertBigNumToUnsigned(big, INT_MAX)

ConvertNegativeBigNumToSigned(big) ==
  LET Negated(n) == Gives(-n - 1)
  IN  Then(ConvertBigNumToUnsigned(big, INT_MAX), Negated)

ConvertBigNumToDouble(big) ==
  LET f[i \in 0..Len(big)] == IF i = 0 THEN 0 ELSE f[i - 1] * BYTE + big[i]
  IN  f[Len(big)]

\* ConvertIntToBigNum: the number is shifted to the top and its bytes are
\* appended until what is left of it is 0.  A zero never gets to the top.
Never == <<-1>>

ConvertIntToBigNum(n) ==
  LET len == CHOOSE k \in 1..(W \div ByteBits) : Pow(BYTE, k - 1) <= n /\ n < Pow(BYTE, k)
      all == [i \in 1..len |-> (n \div Pow(BYTE, len - i)) % BYTE]
      end == CHOOSE k \in 1..len : all[k] # 0 /\ \A i \in (k+1)..len : all[i] = 0
  IN  IF n = 0 THEN Never ELSE SubSeq(all, 1, end)

-----------------------------------------------------------------------------
(* To int64_t                                                               *)

\* llround() and round(): the nearest integer, halves away from zero.
Rounded(halves) == IF halves >= 0 THEN (halves + 1) \div 2 ELSE -((1 - halves) \div 2)

Unexpected == Fails("UNEXPECTED_TYPE")
If(wanted, types, r) == IF wanted \in types THEN r ELSE Unexpected

ConvertInt64(it, types) ==
  CASE it.type = "NAN" -> If("FLOAT", types, Fails("FLOAT_EXCEPTION"))
    [] it.type = "DOUBLE" ->
         If("FLOAT", types, IF Rounded(it.val) \in INT_MIN..INT_MAX THEN Gives(Rounded(it.val))
                            ELSE Fails("FLOAT_EXCEPTION"))
    [] it.type = "INT64" -> If("XINT64", types, Gives(it.val))
    [] it.type = "UINT64" ->
         If("XINT64", types, IF it.val < INT_MAX THEN Gives(it.val) ELSE Fails(UnderOver))
    [] OTHER -> Unexpected

\* The base a type of fraction stands for, and the type its conversion asks
\* for: big floats with a big number ask for that of a decimal fraction.
FractionBase(type) ==
  IF type \in {"DECIMAL_FRACTION", "DECIMAL_FRACTION_POS_BIGNUM", "DECIMAL_FRACTION_NEG_BIGNUM"}
  THEN 10 ELSE 2

FractionFlag(type) == IF type = "BIGFLOAT" THEN "BIGFLOAT" ELSE "DECIMAL_FRACTION"

Int64ConvertAll(it, types) ==
  LET Power(m) == ExponentiateNN(FractionBase(it.type), m, it.val.exp)
  IN  CASE it.type = "POSBIGNUM" ->
             If("BIG_NUM", types, ConvertPositiveBigNumToSigned(it.val))
        [] it.type = "NEGBIGNUM" ->
             If("BIG_NUM", types, ConvertNegativeBigNumToSigned(it.val))
        [] it.type \in {"DECIMAL_FRACTION", "BIGFLOAT"} ->
             If(FractionFlag(it.type), types, Power(it.val.mant))
        [] it.type \in {"DECIMAL_FRACTION_POS_BIGNUM", "BIGFLOAT_POS_BIGNUM"} ->
             If(FractionFlag(it.type), types,
                Then(ConvertPositiveBigNumToSigned(it.val.mant), Power))
        [] it.type \in {"DECIMAL_FRACTION_NEG_BIGNUM", "BIGFLOAT_NEG_BIGNUM"} ->
             If(FractionFlag(it.type), types,
                Then(ConvertNegativeBigNumToSigned(it.val.mant), Power))
        [] OTHER -> Unexpected

-----------------------------------------------------------------------------
(* To uint64_t                                                              *)

ConvertUInt64(it, types) ==
  CASE it.type = "NAN" -> If("FLOAT", types, Fails("FLOAT_EXCEPTION"))
    [] it.type = "DOUBLE" ->
         If("FLOAT", types, IF it.val < 0 THEN Fails("NUMBER_SIGN_CONVERSION")
                            ELSE IF Rounded(it.val) > UINT_MAX - Slack THEN Fails(UnderOver)
                            ELSE Gives(Rounded(it.val)))
    [] it.type = "INT64" ->
         If("XINT64", types, IF it.val >= 0 THEN Gives(it.val)
                             ELSE Fails("NUMBER_SIGN_CONVERSION"))
    [] it.type = "UINT64" -> If("XINT64", types, Gives(it.val))
    [] OTHER -> Unexpected

UInt64ConvertAll(it, types) ==
  LET Power(m) == Exponentitate(FractionBase(it.type), m, it.val.exp)
      negative == Fails("NUMBER_SIGN_CONVERSION")
  IN  CASE it.type = "POSBIGNUM" ->
             If("BIG_NUM", types, ConvertBigNumToUnsigned(it.val, UINT_MAX))
        [] it.type = "NEGBIGNUM" -> If("BIG_NUM", types, negative)
        [] it.type \in {"DECIMAL_FRACTION", "BIGFLOAT"} ->
             If(FractionFlag(it.type), types,
                ExponentitateNU(FractionBase(it.type), it.val.mant, it.val.exp))
        [] it.type \in {"DECIMAL_FRACTION_POS_BIGNUM", "BIGFLOAT_POS_BIGNUM"} ->
             If(FractionFlag(it.type), types,
                Then(ConvertBigNumToUnsigned(it.val.mant, UINT_MAX), Power))
        [] it.type \in {"DECIMAL_FRACTION_NEG_BIGNUM", "BIGFLOAT_NEG_BIGNUM"} ->
             If(FractionFlag(it.type), types, negative)
        [] OTHER -> Unexpected

-----------------------------------------------------------------------------
(* To double                                                                *)

Unwritten == <<"unwritten">>   \* *pdValue keeps what it had
Whole(n)  == <<n, 1, 0>>

ConvertDouble(it, types) ==
  CASE it.type = "NAN" -> Gives(IF "FLOAT" \in types THEN <<"NaN">> ELSE Unwritten)
    [] it.type = "DOUBLE" -> Gives(IF "FLOAT" \in types THEN <<it.val, 2, -1>> ELSE Unwritten)
    [] it.type \in {"INT64", "UINT64"} -> If("XINT64", types, Gives(Whole(it.val)))
    [] OTHER -> Unexpected

DoubleConvertAll(it, types) ==
  LET Times(m) == Gives(<<m, FractionBase(it.type), it.val.exp>>)
      flag     == IF FractionBase(it.type) = 10 THEN "DECIMAL_FRACTION" ELSE "BIGFLOAT"
  IN  CASE it.type \in {"DECIMAL_FRACTION", "BIGFLOAT"} -> If(flag, types, Times(it.val.mant))
        [] it.type = "POSBIGNUM" ->
             If("BIG_NUM", types, Gives(Whole(ConvertBigNumToDouble(it.val))))
        [] it.type = "NEGBIGNUM" ->
             If("BIG_NUM", types, Gives(Whole(-1 - ConvertBigNumToDouble(it.val))))
        [] it.type \in {"DECIMAL_FRACTION_POS_BIGNUM", "BIGFLOAT_POS_BIGNUM"} ->
             If(flag, types, Times(ConvertBigNumToDouble(it.val.mant)))
        [] it.type = "DECIMAL_FRACTION_NEG_BIGNUM" ->
             If(flag, types, Times(-ConvertBigNumToDouble(it.val.mant)))
        [] it.type = "BIGFLOAT_NEG_BIGNUM" ->
             If(flag, types, Times(-1 - ConvertBigNumToDouble(it.val.mant)))
        [] OTHER -> Unexpected
=============================================================================
