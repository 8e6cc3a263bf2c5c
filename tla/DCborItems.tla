----------------------------- MODULE DCborItems -----------------------------
(***************************************************************************)
(* What each add...() function of lib/d-cbor.c asks putByte() to store: the *)
(* bytes of one CBOR item, as a sequence.  Bytes are numbers 0..255 and a   *)
(* C string is the sequence of its bytes.                                   *)
(*                                                                          *)
(* EncodeTagAndN states what the shift loop of encodeTagAndN() computes;    *)
(* module CborHead models that loop bit by bit on 64-bit words.             *)
(***************************************************************************)
EXTENDS Integers, Sequences

Byte == 0..255

MT_UNSIGNED    == 0
MT_NEGATIVE    == 32
MT_BYTE_STRING == 64
MT_TEXT_STRING == 96
MT_ARRAY       == 128
MT_MAP         == 160
MT_FALSE       == 244
MT_TRUE        == 245

\* The bytes of value, most significant first.
BigEndian(value, length) ==
  [i \in 1..length |-> (value \div (256 ^ (length - i))) % 256]

EncodeTagAndValue(tag, length, value) == <<tag>> \o BigEndian(value, length)

\* How many argument bytes follow the initial byte, and the additional
\* information that announces them.  65536 * 65536 is out of TLC's reach,
\* hence the division.
ArgumentLength(n) ==
  CASE n <= 23                                   -> 0
    [] n > 23 /\ n < 256                         -> 1
    [] n >= 256 /\ n < 65536                     -> 2
    [] n >= 65536 /\ n \div 65536 < 65536        -> 4
    [] OTHER                                     -> 8

Modifier(n) ==
  CASE ArgumentLength(n) = 0 -> n
    [] ArgumentLength(n) = 1 -> 24
    [] ArgumentLength(n) = 2 -> 25
    [] ArgumentLength(n) = 4 -> 26
    [] OTHER                 -> 27

EncodeTagAndN(majorType, n) ==
  EncodeTagAndValue(majorType + Modifier(n), ArgumentLength(n), n)

AddInt(value) ==
  IF value < 0 THEN EncodeTagAndN(MT_NEGATIVE, -value - 1)
               ELSE EncodeTagAndN(MT_UNSIGNED, value)

AddTstr(utf8String) ==
  EncodeTagAndN(MT_TEXT_STRING, Len(utf8String)) \o utf8String

AddBstr(byteString) ==
  EncodeTagAndN(MT_BYTE_STRING, Len(byteString)) \o byteString

AddArray(elements) == EncodeTagAndN(MT_ARRAY, elements)

AddBool(value) == EncodeTagAndN(IF value THEN MT_TRUE ELSE MT_FALSE, 0)

AddMap(keys) == EncodeTagAndN(MT_MAP, keys)

AddMappedInt(key, value) == AddInt(key) \o AddInt(value)

AddMappedTstr(key, utf8String) == AddInt(key) \o AddTstr(utf8String)

AddMappedBstr(key, byteString) == AddInt(key) \o AddBstr(byteString)
=============================================================================
