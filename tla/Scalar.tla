-------------------------------- MODULE Scalar --------------------------------
(***************************************************************************)
(* ed25519/src/sc.c: numbers modulo the order l of the base point, in       *)
(* digits that may get negative on the way.  l is a little more than        *)
(* 2^(DigitBits * Digits), in the code 2^(21 * 12).  64 bytes are the two   *)
(* halves <<low, high>>.                                                    *)
(***************************************************************************)
EXTENDS Integers, Sequences

CONSTANTS
  DigitBits,
  Digits,
  FoldDigits, \* 2^(DigitBits * Digits) modulo l: six digits, 666643, 470296...
  KeyBits     \* bits of 32 bytes

DigitSize == 2 ^ DigitBits

RECURSIVE DigitsSum(_, _, _)

DigitsSum(f, from, to) == IF from > to THEN 0 ELSE f[from] + DigitsSum(f, from + 1, to)

Order == 2 ^ (DigitBits * Digits)
       - DigitsSum([i \in 1..Len(FoldDigits) |-> FoldDigits[i] * DigitSize ^ (i - 1)], 1, Len(FoldDigits))

ASSUME DigitsAssumption ==
  /\ DigitBits \in Nat \ {0} /\ Digits \in Nat \ {0} /\ KeyBits \in Nat
  /\ KeyBits % DigitBits = 0 /\ KeyBits < 2 * Digits * DigitBits
  /\ Digits * DigitBits = KeyBits - 4
  /\ FoldDigits \in Seq(Int) /\ Len(FoldDigits) <= Digits

RECURSIVE FoldedDown(_, _, _), CarriedOver(_, _, _), CarriedFloor(_, _, _)

Last == 2 * Digits - 1

\* Digit i of a number; the last one has all bits that are left.
LoadDigit(a, i, last) ==
  IF i = last THEN a \div DigitSize ^ i ELSE (a \div DigitSize ^ i) % DigitSize

\* The digits of 64 bytes, and a place for a last carry.  The bytes are two numbers,
\* and a digit comes from one of them: KeyBits is a multiple of DigitBits.  In sc.c
\* digit 12 has bits of both; it is put together there from its bytes.
LoadHash(s) ==
  LET low == KeyBits \div DigitBits IN
    [i \in 0..(Last + 1) |-> IF i > Last THEN 0
                             ELSE IF i < low THEN (s[1] \div DigitSize ^ i) % DigitSize
                             ELSE LoadDigit(s[2], i - low, Last - low)]

\* Mutant: the last line of a fold is left out.
FoldDigitShort(s, i) ==
  [j \in DOMAIN s |->
     IF j = i THEN 0
     ELSE IF j - (i - Digits) \in 0..(Len(FoldDigits) - 2)
          THEN s[j] + s[i] * FoldDigits[j - (i - Digits) + 1] ELSE s[j]]

\* Digit i, which stands for FoldDigits that many places lower.
FoldDigit(s, i) ==
  [j \in DOMAIN s |->
     IF j = i THEN 0
     ELSE IF j - (i - Digits) \in 0..(Len(FoldDigits) - 1)
          THEN s[j] + s[i] * FoldDigits[j - (i - Digits) + 1] ELSE s[j]]

\* The digits from high down to low.
FoldedDown(s, high, low) == IF high < low THEN s ELSE FoldedDown(FoldDigit(s, high), high - 1, low)

Carry(s, i, carry) == [s EXCEPT ![i] = @ - carry * DigitSize, ![i + 1] = @ + carry]

\* Every second digit from i to end is rounded.
CarriedOver(s, i, end) ==
  IF i > end THEN s
  ELSE CarriedOver(Carry(s, i, (s[i] + DigitSize \div 2) \div DigitSize), i + 2, end)

\* Every digit from i to end is brought to 0..(DigitSize - 1).
CarriedFloor(s, i, end) ==
  IF i > end THEN s ELSE CarriedFloor(Carry(s, i, s[i] \div DigitSize), i + 1, end)

Middle == Digits + Len(FoldDigits)

\* The last steps, on which the result is between 0 and l - 1: Digits is folded
\* twice, as the first time may leave a negative number or one from l on.
Finish(s) ==
  LET once == CarriedFloor(FoldedDown(s, Digits, Digits), 0, Digits - 1)
  IN  CarriedFloor(FoldedDown(once, Digits, Digits), 0, Digits - 2)

\* What sc_reduce() and sc_muladd() have in common.
Reduced(s) ==
  LET high == FoldedDown(s, Last, Middle)
      even == CarriedOver(high, Len(FoldDigits), Middle - 2)
      odd  == CarriedOver(even, Len(FoldDigits) + 1, Middle - 2)
      low  == FoldedDown(odd, Middle - 1, Digits)
      lowE == CarriedOver(low, 0, Digits - 2)
      lowO == CarriedOver(lowE, 1, Digits - 2)
      done == Finish(CarriedOver(lowO, Digits - 1, Digits - 1))
  IN  DigitsSum([i \in 0..(Digits - 1) |-> done[i] * DigitSize ^ i], 0, Digits - 1) % 2 ^ KeyBits

sc_reduce(s) == Reduced(LoadHash(s))

\* a * b + c
sc_muladd(a, b, c) ==
  LET A(i) == LoadDigit(a, i, Digits - 1)
      B(i) == LoadDigit(b, i, Digits - 1)
      products == [k \in 0..(Last + 1) |->
                     DigitsSum([i \in 0..(Digits - 1) |->
                                  IF k - i \in 0..(Digits - 1) THEN A(i) * B(k - i) ELSE 0], 0, Digits - 1)
                       + IF k < Digits THEN LoadDigit(c, k, Digits - 1) ELSE 0]
      even == CarriedOver(products, 0, Last - 1)
  IN  Reduced(CarriedOver(even, 1, Last - 1))
=============================================================================
