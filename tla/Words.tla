------------------------------- MODULE Words -------------------------------
(***************************************************************************)
(* Unsigned 64-bit words as the set of their one bits.  Masks, shifts and   *)
(* | are set operations, + of words without a common bit is their union,    *)
(* and no arithmetic leaves TLC's 32-bit integers.                          *)
(***************************************************************************)
EXTENDS Integers, FiniteSetsExt

Word    == SUBSET (0..63)
OneByte == SUBSET (0..7)

ShiftRight(w, s) == {b - s : b \in {x \in w : x >= s}}
ShiftLeft(w, s)  == {b + s : b \in {x \in w : x + s <= 63}}
Field(w, low, width) == ShiftRight(w \cap (low..(low + width - 1)), low)
Complement(w)    == (0..63) \ w

\* The number a word below 2^31 stands for, and the word of such a number.
ValueOf(w) == MapThenSumSet(LAMBDA b : 2 ^ b, w)
WordOf(n)  == {b \in 0..30 : (n \div (2 ^ b)) % 2 = 1}

\* The last count bytes of a word, most significant first.
BytesOf(w, count) == [j \in 1..count |-> Field(w, 8 * (count - j), 8)]
=============================================================================
