----------------------------- MODULE CborFloat -----------------------------
(***************************************************************************)
(* IEEE 754 numbers at their real widths: addDouble() of D-CBOR in both of  *)
(* its builds, QCBOR's IEEE754_DoubleToSmallest() and FloatToSmallest(),    *)
(* and IEEE754_HalfToDouble(), which QCBOR's decoder applies to what either *)
(* encoder wrote.                                                           *)
(*                                                                          *)
(* The reference is the standard's own: a finite number is a sign and the   *)
(* set of the powers of two it is the sum of.  That set is unique, so two   *)
(* patterns of any two formats are the same number iff their sets are       *)
(* equal.                                                                   *)
(***************************************************************************)
EXTENDS Words

CONSTANTS Doubles, Singles
ASSUME DoublesAssumption == Doubles \subseteq Word
ASSUME SinglesAssumption == Singles \subseteq SUBSET (0..31)

Half   == [sig |-> 10, exp |-> 5,  bias |-> 15,   size |-> 2]
Single == [sig |-> 23, exp |-> 8,  bias |-> 127,  size |-> 4]
Double == [sig |-> 52, exp |-> 11, bias |-> 1023, size |-> 8]

Significand(w, f)   == Field(w, 0, f.sig)
ExponentField(w, f) == ValueOf(Field(w, f.sig, f.exp))
SignBit(f)          == f.sig + f.exp
Sign(w, f)          == w \cap {SignBit(f)} # {}
AllOnes(f)          == 2 * f.bias + 1

Pack(sign, exponent, significand, f) ==
  significand \cup ShiftLeft(WordOf(exponent), f.sig)
    \cup (IF sign THEN {SignBit(f)} ELSE {})

-----------------------------------------------------------------------------
(* Reference: what a pattern means, and which meanings a format has.       *)

IsNaN(w, f) == ExponentField(w, f) = AllOnes(f) /\ Significand(w, f) # {}
IsInf(w, f) == ExponentField(w, f) = AllOnes(f) /\ Significand(w, f) = {}

\* The weights of the one bits, the implicit one of a normal number included.
Weights(w, f) ==
  LET e == ExponentField(w, f)
  IN  IF e = 0 THEN {b + 1 - f.bias - f.sig : b \in Significand(w, f)}
               ELSE {b + e - f.bias - f.sig : b \in Significand(w, f) \cup {f.sig}}

Number(w, f) ==
  CASE IsNaN(w, f) -> [kind |-> "NaN", sign |-> FALSE, weights |-> {}]
    [] IsInf(w, f) -> [kind |-> "Inf", sign |-> Sign(w, f), weights |-> {}]
    [] OTHER       -> [kind |-> "finite", sign |-> Sign(w, f), weights |-> Weights(w, f)]

Representable(x, f) ==
  \/ x.kind # "finite"
  \/ x.weights = {}
  \/ /\ Max(x.weights) <= f.bias
     /\ Min(x.weights) >= 1 - f.bias - f.sig
     /\ Max(x.weights) - Min(x.weights) <= f.sig

\* The pattern of a representable finite number.
PatternOf(x, f) ==
  LET top == IF x.weights = {} THEN 1 - f.bias ELSE Max(x.weights)
  IN  IF top < 1 - f.bias \/ x.weights = {}
      THEN Pack(x.sign, 0, {b - (1 - f.bias - f.sig) : b \in x.weights}, f)
      ELSE Pack(x.sign, top + f.bias, {b - (top - f.sig) : b \in x.weights \ {top}}, f)

-----------------------------------------------------------------------------
(* addDouble()                                                             *)

DoesNotFit == [fits |-> FALSE, exponent |-> 0, significand |-> {}]

\* Mutants of Narrow: the last bit below the significand is not looked at; the
\* bits a subnormal loses are not looked at; the range of exponents stops at the
\* normal numbers.
NarrowLossy(exponent, significand, from, to) ==
  LET dropped == from.sig - to.sig
      short   == ShiftRight(significand, dropped)
      full    == short \cup {to.sig}
  IN  IF \/ exponent < -to.sig \/ exponent > 2 * to.bias
         \/ \E b \in significand : b < dropped - 1
      THEN DoesNotFit
      ELSE IF exponent > 0
      THEN [fits |-> TRUE, exponent |-> exponent, significand |-> short]
      ELSE IF ShiftLeft(ShiftRight(full, 1 - exponent), 1 - exponent) # full
      THEN DoesNotFit
      ELSE [fits |-> TRUE, exponent |-> 0, significand |-> ShiftRight(full, 1 - exponent)]

NarrowNormal(exponent, significand, from, to) ==
  LET dropped == from.sig - to.sig
  IN  IF \/ exponent < 1 \/ exponent > 2 * to.bias
         \/ \E b \in significand : b < dropped
      THEN DoesNotFit
      ELSE [fits |-> TRUE, exponent |-> exponent, significand |-> ShiftRight(significand, dropped)]

\* One narrowing of addDouble(), from 64 to 32 bits and again from 32 to 16: the
\* exponent, already in the bias of the target, must be in range, no significand
\* bit may be dropped, and an exponent below 1 makes the implicit one explicit.
Narrow(exponent, significand, from, to) ==
  LET dropped == from.sig - to.sig
      short   == ShiftRight(significand, dropped)
      full    == short \cup {to.sig}
  IN  IF \/ exponent < -to.sig \/ exponent > 2 * to.bias
         \/ \E b \in significand : b < dropped
      THEN DoesNotFit
      ELSE IF exponent > 0
      THEN [fits |-> TRUE, exponent |-> exponent, significand |-> short]
      ELSE IF ShiftLeft(ShiftRight(full, 1 - exponent), 1 - exponent) # full
      THEN DoesNotFit
      ELSE [fits |-> TRUE, exponent |-> 0, significand |-> ShiftRight(full, 1 - exponent)]

Encoded(f, bits) == [format |-> f, bits |-> bits]

\* Zeroes, infinities and NaNs, in 16 bits; every NaN becomes the quiet one.
IsSpecial(d) == ExponentField(d, Double) = AllOnes(Double) \/ d \subseteq {63}

Special(d) ==
  IF IsNaN(d, Double)
  THEN Encoded(Half, Pack(FALSE, AllOnes(Half), {9}, Half))
  ELSE Encoded(Half, Pack(63 \in d, IF d \subseteq {63} THEN 0 ELSE AllOnes(Half), {}, Half))

\* From a 32-bit result on to 16 bits, if it fits.
ToHalf(sign, exponent, significand) ==
  LET h == Narrow(exponent - (Single.bias - Half.bias), significand, Single, Half)
  IN  IF h.fits THEN Encoded(Half, Pack(sign, h.exponent, h.significand, Half))
                ELSE Encoded(Single, Pack(sign, exponent, significand, Single))

\* The build that uses integer operations only.
AddDouble(d) ==
  IF IsSpecial(d) THEN Special(d)
  ELSE LET s == Narrow(ExponentField(d, Double) - (Double.bias - Single.bias),
                       Significand(d, Double), Double, Single)
       IN  IF s.fits THEN ToHalf(63 \in d, s.exponent, s.significand)
                     ELSE Encoded(Double, d)

\* The build with PLATFORM_SUPPORTS_FLOAT_CAST: (float)d equals d iff d is a
\* number of the 32-bit format, and then has its pattern.
AddDoubleCast(d) ==
  LET x == Number(d, Double)
      f == PatternOf(x, Single)
  IN  IF IsSpecial(d) THEN Special(d)
      ELSE IF ~Representable(x, Single) THEN Encoded(Double, d)
      ELSE ToHalf(63 \in d, ExponentField(f, Single), Significand(f, Single))

-----------------------------------------------------------------------------
(* QCBOR's ieee754.c                                                       *)

\* The part of a NaN's significand that goes to half precision: the low bits, the
\* quiet bit, or a one where nothing would be left.
NaNToHalf(significand, from) ==
  LET payload == significand \cap (0..8)
  IN  IF from.sig - 1 \in significand THEN payload \cup {9}
      ELSE IF payload = {} THEN {0} ELSE payload

\* IEEE754_FloatToHalf() and IEEE754_DoubleToHalf().
DownToHalf(w, from) ==
  LET e    == ExponentField(w, from) - from.bias
      sig  == Significand(w, from)
      sign == Sign(w, from)
  IN  CASE e = from.bias + 1 ->
             Pack(sign, AllOnes(Half), IF sig = {} THEN {} ELSE NaNToHalf(sig, from), Half)
        [] e # from.bias + 1 /\ e > Half.bias -> Pack(sign, AllOnes(Half), {}, Half)
        [] e < 1 - Half.bias -> Pack(sign, 0, {}, Half)
        [] e \in (1 - Half.bias)..Half.bias ->
             Pack(sign, e + Half.bias, ShiftRight(sig, from.sig - Half.sig), Half)

\* Exponent in range for a normal number of f, and no significand bit dropped.
FitsNormal(w, from, f) ==
  /\ ExponentField(w, from) - from.bias \in (1 - f.bias)..f.bias
  /\ Significand(w, from) \cap (0..(from.sig - f.sig - 1)) = {}

\* IEEE754_DoubleToSmallest()
DoubleToSmallest(d) ==
  IF \/ d \subseteq {63}
     \/ ExponentField(d, Double) = AllOnes(Double)
     \/ FitsNormal(d, Double, Half)
  THEN Encoded(Half, DownToHalf(d, Double))
  ELSE IF FitsNormal(d, Double, Single)
  THEN Encoded(Single, PatternOf(Number(d, Double), Single))
  ELSE Encoded(Double, d)

\* IEEE754_FloatToSmallest(): only the zero without a sign is a special case.
FloatToSmallest(s) ==
  IF s = {} \/ ExponentField(s, Single) = AllOnes(Single) \/ FitsNormal(s, Single, Half)
  THEN Encoded(Half, DownToHalf(s, Single))
  ELSE Encoded(Single, s)

\* Mutant of HalfToDouble: a subnormal keeps the exponent it starts with.
HalfToDoubleFlat(h) ==
  LET e    == ExponentField(h, Half)
      sig  == Significand(h, Half)
      wide(x) == ShiftLeft(x, Double.sig - Half.sig)
  IN  CASE e = 0 /\ sig = {} -> Pack(Sign(h, Half), 0, {}, Double)
        [] e = 0 /\ sig # {} -> Pack(Sign(h, Half), Double.bias - Half.bias, wide(sig), Double)
        [] e = AllOnes(Half) -> Pack(Sign(h, Half), AllOnes(Double), sig, Double)
        [] e \in 1..(2 * Half.bias) -> Pack(Sign(h, Half), e - Half.bias + Double.bias, wide(sig), Double)

\* IEEE754_HalfToDouble(): a subnormal is shifted left until its first one is the
\* implicit one, Half.sig - Max(sig) times.
HalfToDouble(h) ==
  LET e    == ExponentField(h, Half)
      sig  == Significand(h, Half)
      sign == Sign(h, Half)
      wide(x) == ShiftLeft(x, Double.sig - Half.sig)
      n    == Half.sig - Max(sig)
  IN  CASE e = 0 /\ sig = {} -> Pack(sign, 0, {}, Double)
        [] e = 0 /\ sig # {} ->
             Pack(sign, 1 - Half.bias + Double.bias - n,
                  wide(ShiftLeft(sig, n) \ {Half.sig}), Double)
        [] e = AllOnes(Half) ->
             Pack(sign, AllOnes(Double),
                  (sig \ {9}) \cup (IF 9 \in sig THEN {51} ELSE {}), Double)
        [] e \in 1..(2 * Half.bias) ->
             Pack(sign, e - Half.bias + Double.bias, wide(sig), Double)

\* DecodeType7(): every float is returned as a double, a 32-bit one by the cast.
Decode(item) ==
  CASE item.format = Half   -> HalfToDouble(item.bits)
    [] item.format = Single -> IF Number(item.bits, Single).kind = "finite"
                               THEN PatternOf(Number(item.bits, Single), Double)
                               ELSE Pack(Sign(item.bits, Single), AllOnes(Double),
                                         ShiftLeft(Significand(item.bits, Single), 29), Double)
    [] item.format = Double -> item.bits

-----------------------------------------------------------------------------
(* One number goes through the encoders, and what they wrote through the   *)
(* decoder.                                                                *)

VARIABLES
  pc,       \* "encode", "decode", "done"
  input,    \* the number given, in its format
  dcbor,    \* what addDouble() hands to encodeTagAndValue()
  cast,     \* the same, built with PLATFORM_SUPPORTS_FLOAT_CAST
  qcbor,    \* what QCBOREncode_AddDouble() or AddFloat() hands to AddType7()
  decoded   \* the doubles QCBOR's decoder returns for dcbor and qcbor

vars == <<pc, input, dcbor, cast, qcbor, decoded>>

Init ==
  /\ pc = "encode"
  /\ input \in {Encoded(Double, d) : d \in Doubles} \cup {Encoded(Single, s) : s \in Singles}
  /\ dcbor = input /\ cast = input /\ qcbor = input
  /\ decoded = <<>>

\* addDouble() twice and QCBOREncode_AddDouble().
EncodeDouble ==
  /\ pc = "encode"
  /\ input.format = Double
  /\ dcbor' = AddDouble(input.bits)
  /\ cast' = AddDoubleCast(input.bits)
  /\ qcbor' = DoubleToSmallest(input.bits)
  /\ pc' = "decode"
  /\ UNCHANGED <<input, decoded>>

\* QCBOREncode_AddFloat(); D-CBOR has no call for 32-bit numbers.
EncodeFloat ==
  /\ pc = "encode"
  /\ input.format = Single
  /\ qcbor' = FloatToSmallest(input.bits)
  /\ pc' = "decode"
  /\ UNCHANGED <<input, dcbor, cast, decoded>>

\* DecodeType7()
DecodeBoth ==
  /\ pc = "decode"
  /\ decoded' = <<Decode(dcbor), Decode(qcbor)>>
  /\ pc' = "done"
  /\ UNCHANGED <<input, dcbor, cast, qcbor>>

Next == EncodeDouble \/ EncodeFloat \/ DecodeBoth

Spec == Init /\ [][Next]_vars

-----------------------------------------------------------------------------
(* Properties                                                              *)

Given      == Number(input.bits, input.format)
Meaning(x) == Number(x.bits, x.format)

\* addDouble() loses nothing: the item it writes is the number it was given, the
\* sign of a zero and of an infinity included, and a NaN stays a NaN.  So does
\* QCBOR's encoder; its item may be longer than D-CBOR's, but not where the number
\* is normal in the format D-CBOR chose.  One NaN is as good as another here: QCBOR
\* cuts the payload to what fits (ieee754.c:214), and D-CBOR writes just one NaN.
Lossless ==
  /\ Meaning(dcbor) = Given /\ Meaning(qcbor) = Given
  /\ pc = "decode" /\ input.format = Double =>
       /\ dcbor.format.size <= qcbor.format.size
       /\ dcbor.format # qcbor.format => ExponentField(dcbor.bits, dcbor.format) = 0

\* addDouble() is deterministic CBOR: no shorter format has the number, down to
\* the last subnormal of 16 and of 32 bits, and a platform that has the float cast
\* and one that has not write the same bytes.
Deterministic ==
  /\ cast = dcbor
  /\ pc = "decode" /\ input.format = Double =>
       \A f \in {Half, Single} : f.size < dcbor.format.size => ~Representable(Given, f)

\* What either encoder wrote, QCBOR's decoder returns as the number that was given.
DecoderReturnsIt ==
  pc = "done" => \A n \in 1..2 : Number(decoded[n], Double) = Given

=============================================================================
