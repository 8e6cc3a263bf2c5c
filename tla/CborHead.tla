------------------------------ MODULE CborHead ------------------------------
(***************************************************************************)
(* The head of a CBOR item at its real width: the shift loop of D-CBOR's    *)
(* encodeTagAndN(), the byte loop of QCBOREncode_EncodeHead(), and          *)
(* QCBOR's DecodeHead() and DecodeInteger(), which read what either wrote.  *)
(*                                                                          *)
(* One behaviour takes one argument through D-CBOR, then QCBOR, then the    *)
(* decoder; an iteration of a loop is a step.                               *)
(***************************************************************************)
EXTENDS Words, Sequences

CONSTANTS Ints,     \* values given to addInt() and QCBOREncode_AddInt64()
          Floats    \* [bits, size]: patterns given to encodeTagAndValue() and
                    \* QCBOREncode_AddType7() with a fixed size in bytes

ASSUME IntsAssumption == Ints \subseteq Word
ASSUME FloatsAssumption ==
  \A f \in Floats : f.size \in {2, 4, 8} /\ f.bits \subseteq 0..(8 * f.size - 1)

VARIABLES
  pc,         \* the code that runs next
  item,       \* what is encoded: [kind, bits, size]
  arg,        \* uint64_t the loops consume
  modifier,   \* D-CBOR: additional information
  length,     \* D-CBOR: four times the number of argument bytes
  dBytes,     \* D-CBOR: the argument bytes, most significant first
  i,          \* QCBOR: outer loop counter
  nMinLen,    \* QCBOR: bytes still to be written for a float
  addInfo,    \* QCBOR: nAdditionalInfo
  qBytes,     \* QCBOR: the argument bytes
  left,       \* decoder: argument bytes still to be read
  decoded     \* decoder: uArgument, and in the end the value

vars == <<pc, item, arg, modifier, length, dBytes, i, nMinLen, addInfo, qBytes, left, decoded>>

-----------------------------------------------------------------------------
Negative(w) == 63 \in w
Above23(w)  == {3, 4} \subseteq w \/ \E b \in w : b > 4

\* (MASK_LOWER_32 << shift)
Mask32(shift) == shift..(shift + 31)

\* The argument of the head of an integer: ~value, or -value - 1, of a negative.
Argument(it) ==
  IF it.kind = "int" /\ Negative(it.bits) THEN Complement(it.bits) ELSE it.bits

-----------------------------------------------------------------------------
Init ==
  /\ pc = "dcbor"
  /\ item \in {[kind |-> "int", bits |-> w, size |-> 0] : w \in Ints}
              \cup {[kind |-> "float", bits |-> f.bits, size |-> f.size] : f \in Floats}
  /\ arg = Argument(item)
  /\ modifier = 0
  /\ length = 0
  /\ dBytes = <<>>
  /\ i = 0
  /\ nMinLen = 0
  /\ addInfo = 0
  /\ qBytes = <<>>
  /\ left = 0
  /\ decoded = {}

\* addDouble() gives encodeTagAndValue() its tag and length.
DFloat ==
  /\ pc = "dcbor"
  /\ item.kind = "float"
  /\ modifier' = CASE item.size = 2 -> 25 [] item.size = 4 -> 26 [] item.size = 8 -> 27
  /\ length' = 4 * item.size
  /\ pc' = "dvalue"
  /\ UNCHANGED <<item, arg, dBytes, i, nMinLen, addInfo, qBytes, left, decoded>>

\* encodeTagAndN() up to its loop.
DStart ==
  /\ pc = "dcbor"
  /\ item.kind = "int"
  /\ IF Above23(arg)
     THEN modifier' = 27 /\ length' = 32 /\ pc' = "dloop"
     ELSE modifier' = ValueOf(arg) /\ length' = 0 /\ pc' = "dvalue"
  /\ UNCHANGED <<item, arg, dBytes, i, nMinLen, addInfo, qBytes, left, decoded>>

\* Mutant of DLoop: one bit more is shifted in before the width is halved.
DLoopWide ==
  /\ pc = "dloop"
  /\ IF (Mask32(length) \cup {length - 1}) \cap arg = {}
     THEN modifier' = modifier - 1 /\ length' = length \div 2 /\ pc' = pc
     ELSE pc' = "dvalue" /\ UNCHANGED <<modifier, length>>
  /\ UNCHANGED <<item, arg, dBytes, i, nMinLen, addInfo, qBytes, left, decoded>>

\* One test of the loop condition, with the body when it holds.
DLoop ==
  /\ pc = "dloop"
  /\ IF Mask32(length) \cap arg = {}
     THEN modifier' = modifier - 1 /\ length' = length \div 2 /\ pc' = pc
     ELSE pc' = "dvalue" /\ UNCHANGED <<modifier, length>>
  /\ UNCHANGED <<item, arg, dBytes, i, nMinLen, addInfo, qBytes, left, decoded>>

\* encodeTagAndValue() with length >> 2.
DValue ==
  /\ pc = "dvalue"
  /\ dBytes' = BytesOf(arg, length \div 4)
  /\ pc' = "qcbor"
  /\ UNCHANGED <<item, arg, modifier, length, i, nMinLen, addInfo, qBytes, left, decoded>>

\* Iterations of the inner loop: static const uint8_t aIterate[]
EncodeIterate == <<1, 1, 2, 4>>

\* QCBOREncode_EncodeHead() up to its loop; uMinLen is the size of a float.
QStart ==
  /\ pc = "qcbor"
  /\ IF Above23(arg) \/ item.size # 0
     THEN /\ nMinLen' = item.size
          /\ pc' = "qloop"
          /\ UNCHANGED <<addInfo, left>>
     ELSE /\ addInfo' = ValueOf(arg)
          /\ pc' = "decode"
          /\ UNCHANGED <<nMinLen, left>>
  /\ UNCHANGED <<item, arg, modifier, length, dBytes, i, qBytes, decoded>>

\* One round of the outer loop: n more bytes in front of those written.
QLoop ==
  /\ pc = "qloop"
  /\ IF arg # {} \/ nMinLen > 0
     THEN LET n == EncodeIterate[i + 1]
          IN  /\ qBytes' = BytesOf(arg, n) \o qBytes
              /\ arg' = ShiftRight(arg, 8 * n)
              /\ nMinLen' = nMinLen - n
              /\ i' = i + 1
              /\ UNCHANGED <<addInfo, pc>>
     ELSE /\ addInfo' = 23 + i
          /\ pc' = "decode"
          /\ UNCHANGED <<qBytes, arg, nMinLen, i>>
  /\ UNCHANGED <<item, modifier, length, dBytes, left, decoded>>

DecodeIterate == <<1, 2, 4, 8>>

\* DecodeHead() up to its loop, on the head D-CBOR wrote.
KStart ==
  /\ pc = "decode"
  /\ IF modifier \in 24..27
     THEN decoded' = {} /\ left' = DecodeIterate[modifier - 23] /\ pc' = "kloop"
     ELSE decoded' = WordOf(modifier) /\ left' = 0 /\ pc' = "kvalue"
  /\ UNCHANGED <<item, arg, modifier, length, dBytes, i, nMinLen, addInfo, qBytes>>

\* Mutant of KLoop: the bytes are taken from the other end.
KLoopSwapped ==
  /\ pc = "kloop"
  /\ IF left > 0
     THEN /\ decoded' = ShiftLeft(decoded, 8) \cup dBytes[left]
          /\ left' = left - 1
          /\ pc' = pc
     ELSE pc' = "kvalue" /\ UNCHANGED <<decoded, left>>
  /\ UNCHANGED <<item, arg, modifier, length, dBytes, i, nMinLen, addInfo, qBytes>>

\* Mutant of KLoop: the bytes left are not counted down.
KLoopEndless ==
  /\ pc = "kloop"
  /\ IF left > 0
     THEN /\ decoded' = ShiftLeft(decoded, 8) \cup dBytes[Len(dBytes) - left + 1]
          /\ UNCHANGED <<left, pc>>
     ELSE pc' = "kvalue" /\ UNCHANGED <<decoded, left>>
  /\ UNCHANGED <<item, arg, modifier, length, dBytes, i, nMinLen, addInfo, qBytes>>

\* uArgument = (uArgument << 8) + UsefulInputBuf_GetByte()
KLoop ==
  /\ pc = "kloop"
  /\ IF left > 0
     THEN /\ decoded' = ShiftLeft(decoded, 8) \cup dBytes[Len(dBytes) - left + 1]
          /\ left' = left - 1
          /\ pc' = pc
     ELSE pc' = "kvalue" /\ UNCHANGED <<decoded, left>>
  /\ UNCHANGED <<item, arg, modifier, length, dBytes, i, nMinLen, addInfo, qBytes>>

\* DecodeInteger(): the major type says whether the value is negative.  An int64_t
\* never has an argument above INT64_MAX, so its two other branches do not run.
KValue ==
  /\ pc = "kvalue"
  /\ decoded' = IF item.kind = "int" /\ Negative(item.bits)
                THEN Complement(decoded) ELSE decoded
  /\ pc' = "done"
  /\ UNCHANGED <<item, arg, modifier, length, dBytes, i, nMinLen, addInfo, qBytes, left>>

Next ==
  \/ DFloat \/ DStart \/ DLoop \/ DValue
  \/ QStart \/ QLoop
  \/ KStart \/ KLoop \/ KValue

Fairness == WF_vars(Next)

Spec == Init /\ [][Next]_vars /\ Fairness

-----------------------------------------------------------------------------
(* Properties                                                              *)

\* The argument bytes encodeTagAndN() announces are the fewest CBOR allows: none
\* up to 23, else the first of 1, 2, 4, 8 bytes the argument fits in.
Shortest ==
  pc = "qcbor" /\ item.kind = "int" =>
    LET fits(count) == Argument(item) \subseteq 0..(8 * count - 1)
    IN  /\ Len(dBytes) \in {0, 1, 2, 4, 8}
        /\ Len(dBytes) = 0 <=> ~Above23(Argument(item))
        /\ fits(Len(dBytes)) \/ Len(dBytes) = 0
        /\ \A count \in {1, 2, 4} : count < Len(dBytes) => ~fits(count)

\* The two encoders in this repository produce the same head, and what they wrote
\* QCBOR decodes to the value that was given, the most negative int64_t included.
RoundTrip ==
  /\ pc = "decode" => modifier = addInfo /\ dBytes = qBytes
  /\ pc = "done" => decoded = item.bits

\* The shift loop, whose width reaches 0 if it is entered with too small a
\* number, and the byte loops all end.
EveryCallReturns == <>(pc = "done")
=============================================================================
