----------------------------- MODULE QcborTags ------------------------------
(***************************************************************************)
(* Values that CBOR expresses with tags: how the encoder writes them        *)
(* (the inline functions of QCBOR/inc/qcbor/qcbor_encode.h) and how the     *)
(* decoder turns an item with tag numbers into one with a type of its own   *)
(* (QCBORDecode_GetNextTagContent() in QCBOR/src/qcbor_decode.c).           *)
(*                                                                          *)
(* An encoding is a sequence of tokens [tags, kind, val, lev, label]: the   *)
(* tag numbers from the inside out as in uTags, what the head says, and the *)
(* nesting level and label of the item.                                     *)
(***************************************************************************)
EXTENDS QcborNumbers, SequencesExt

Token(kind, val) == [tags |-> <<>>, kind |-> kind, val |-> val, lev |-> 1, label |-> "none"]

-----------------------------------------------------------------------------
(* Adding.  asTag is QCBOR_ENCODE_AS_TAG, otherwise the content is borrowed *)

AddInt64(n)  == <<Token("int", n)>>
AddBytes(s)  == <<Token("bytes", s)>>
AddText(s)   == <<Token("text", s)>>
AddSimple(v) == <<Token(v, 0)>>

AddTag(t, toks) == [toks EXCEPT ![1].tags = Append(@, t)]
Tagged(asTag, t, toks) == IF asTag THEN AddTag(t, toks) ELSE toks

AddTDateEpoch(asTag, n)      == Tagged(asTag, 1, AddInt64(n))
AddTDaysEpoch(asTag, n)      == Tagged(asTag, 100, AddInt64(n))
AddTBinaryUUID(asTag, s)     == Tagged(asTag, 37, AddBytes(s))
AddTPositiveBignum(asTag, s) == Tagged(asTag, 2, AddBytes(s))
AddTNegativeBignum(asTag, s) == Tagged(asTag, 3, AddBytes(s))
AddTURI(asTag, s)            == Tagged(asTag, 32, AddText(s))
AddTB64Text(asTag, s)        == Tagged(asTag, 34, AddText(s))
AddTB64URLText(asTag, s)     == Tagged(asTag, 33, AddText(s))
AddTRegex(asTag, s)          == Tagged(asTag, 35, AddText(s))
AddTMIMEData(asTag, s)       == Tagged(asTag, 257, AddBytes(s))
AddTDateString(asTag, s)     == Tagged(asTag, 0, AddText(s))
AddTDaysString(asTag, s)     == Tagged(asTag, 1004, AddText(s))

\* An array of the exponent and the mantissa, an integer or a big number.
Element(toks) == [toks[1] EXCEPT !.lev = 2]

AddMantissaAndExponent(asTag, t, mantissa, e) ==
  Tagged(asTag, t, <<Token("array", 2)>>) \o <<Element(mantissa), Element(AddInt64(e))>>

AddExponentAndMantissa(asTag, t, mantissa, e) ==
  Tagged(asTag, t, <<Token("array", 2)>>) \o <<Element(AddInt64(e)), Element(mantissa)>>

BigMantissa(neg, s) ==
  IF neg THEN AddTNegativeBignum(TRUE, s) ELSE AddTPositiveBignum(TRUE, s)

AddTDecimalFraction(asTag, m, e)            == AddExponentAndMantissa(asTag, 4, AddInt64(m), e)
AddTDecimalFractionBigNum(asTag, neg, s, e) ==
  AddExponentAndMantissa(asTag, 4, BigMantissa(neg, s), e)
AddTBigFloat(asTag, m, e)                   == AddExponentAndMantissa(asTag, 5, AddInt64(m), e)
AddTBigFloatBigNum(asTag, neg, s, e)        ==
  AddExponentAndMantissa(asTag, 5, BigMantissa(neg, s), e)

-----------------------------------------------------------------------------
(* Items.  at is the token the cursor is on when the item has been read.    *)

Bad(e, at) == [err |-> e, type |-> "NONE", val |-> 0, tags |-> <<>>, lev |-> 0, at |-> at]
AsType(it, type) == [it EXCEPT !.type = type]
AsError(it, e)   == [it EXCEPT !.err = e]

BasicType(tok) ==
  CASE tok.kind = "int"   -> IF tok.val > INT_MAX THEN "UINT64" ELSE "INT64"
    [] tok.kind = "float" -> "DOUBLE"
    [] tok.kind = "nan"   -> "NAN"
    [] tok.kind = "bytes" -> "BYTE_STRING"
    [] tok.kind = "text"  -> "TEXT_STRING"
    [] tok.kind = "array" -> "ARRAY"
    [] OTHER -> tok.kind      \* TRUE, FALSE, NULL, UNDEF

\* QCBORDecode_GetNextMapOrArray() on the tokens of an entered map.
GetNextMapOrArray(in, at) ==
  IF at > Len(in) THEN Bad("NO_MORE_ITEMS", at)
  ELSE IF in[at].kind = "int" /\ in[at].val < INT_MIN THEN Bad("INT_OVERFLOW", at + 1)
  ELSE [err |-> "SUCCESS", type |-> BasicType(in[at]), val |-> in[at].val,
        tags |-> in[at].tags, lev |-> in[at].lev, at |-> at + 1]

NextNestLevel(in, at) == IF at > Len(in) THEN 1 ELSE in[at].lev

DecodeDateEpoch(it) ==
  CASE it.type = "INT64" -> AsType(it, "DATE_EPOCH")
    [] it.type \in {"UINT64", "NAN"} -> AsError(it, "DATE_OVERFLOW")
    [] it.type = "DOUBLE" ->
         IF it.val > 2 * (INT_MAX - Slack) \/ it.val < 2 * (INT_MIN + Slack)
         THEN AsError(it, "DATE_OVERFLOW")
         ELSE [AsType(it, "DATE_EPOCH") EXCEPT !.val = Signed(@, Magnitude(@) \div 2)]
    [] OTHER -> AsError(it, "BAD_TAG_CONTENT")

DecodeDaysEpoch(it) ==
  CASE it.type = "INT64"  -> AsType(it, "DAYS_EPOCH")
    [] it.type = "UINT64" -> AsError(it, "DATE_OVERFLOW")
    [] OTHER -> AsError(it, "BAD_TAG_CONTENT")

DecodeMIME(it) ==
  CASE it.type = "TEXT_STRING" -> AsType(it, "MIME")
    [] it.type = "BYTE_STRING" -> AsType(it, "BINARY_MIME")
    [] OTHER -> AsError(it, "BAD_OPT_TAG")

StringTagMap ==
  {[tag |-> 0,    type |-> "DATE_STRING", of |-> "TEXT_STRING"],
   [tag |-> 1004, type |-> "DAYS_STRING", of |-> "TEXT_STRING"],
   [tag |-> 2,    type |-> "POSBIGNUM",   of |-> "BYTE_STRING"],
   [tag |-> 3,    type |-> "NEGBIGNUM",   of |-> "BYTE_STRING"],
   [tag |-> 24,   type |-> "WRAPPED_CBOR", of |-> "BYTE_STRING"],
   [tag |-> 32,   type |-> "URI",         of |-> "TEXT_STRING"],
   [tag |-> 33,   type |-> "BASE64URL",   of |-> "TEXT_STRING"],
   [tag |-> 34,   type |-> "BASE64",      of |-> "TEXT_STRING"],
   [tag |-> 35,   type |-> "REGEX",       of |-> "TEXT_STRING"],
   [tag |-> 37,   type |-> "UUID",        of |-> "BYTE_STRING"],
   [tag |-> 63,   type |-> "WRAPPED_CBOR_SEQUENCE", of |-> "BYTE_STRING"]}

ProcessTaggedString(it, t) ==
  IF \A m \in StringTagMap : m.tag # t THEN AsError(it, "UNSUPPORTED")
  ELSE LET m == CHOOSE m \in StringTagMap : m.tag = t
       IN  IF it.type = m.of THEN AsType(it, m.type) ELSE AsError(it, "BAD_OPT_TAG")

\* A tag that is not a fraction's.
ProcessTag(it, t) ==
  CASE t = 1           -> DecodeDateEpoch(it)
    [] t = 100         -> DecodeDaysEpoch(it)
    [] t \in {36, 257} -> DecodeMIME(it)
    [] OTHER           -> ProcessTaggedString(it, t)

ShiftTags(it) == IF it.err = "SUCCESS" THEN [it EXCEPT !.tags = Tail(@)] ELSE it

\* The first tag that is not known, and those around it, stay with the item.
UpToUnknown(it) == IF it.err = "UNSUPPORTED" THEN AsError(it, "SUCCESS") ELSE it

\* The exponent and the mantissa are the next two items.  The mantissa is read
\* with its tags; one that is itself a fraction is never a good mantissa and is
\* not followed any deeper.
MantissaTag(i, t) ==
  IF i.err # "SUCCESS" THEN i
  ELSE IF t \in {4, 5} THEN AsError(i, "BAD_EXP_AND_MANTISSA")
  ELSE ShiftTags(ProcessTag(i, t))

MantissaContent(in, at) ==
  LET m       == GetNextMapOrArray(in, at)
      f[k \in 0..Len(m.tags)] == IF k = 0 THEN m ELSE MantissaTag(f[k - 1], m.tags[k])
  IN  UpToUnknown(f[Len(m.tags)])

\* The type of a fraction, from its base and the type of its mantissa.
FractionType(base, mantissa) ==
  CASE mantissa = "INT64" -> base
    [] mantissa = "POSBIGNUM" ->
         IF base = "BIGFLOAT" THEN "BIGFLOAT_POS_BIGNUM" ELSE "DECIMAL_FRACTION_POS_BIGNUM"
    [] mantissa = "NEGBIGNUM" ->
         IF base = "BIGFLOAT" THEN "BIGFLOAT_NEG_BIGNUM" ELSE "DECIMAL_FRACTION_NEG_BIGNUM"

WithMantissa(in, it, base, e, m) ==
  IF m.err # "SUCCESS" THEN [it EXCEPT !.err = m.err, !.at = m.at]
  ELSE IF \/ m.lev # it.lev + 1
          \/ m.type \notin {"INT64", "POSBIGNUM", "NEGBIGNUM"}
          \/ NextNestLevel(in, m.at) = it.lev + 1
       THEN [it EXCEPT !.err = "BAD_EXP_AND_MANTISSA", !.at = m.at]
       ELSE [it EXCEPT !.type = FractionType(base, m.type),
                       !.val = [mant |-> m.val, exp |-> e], !.at = m.at]

MantissaAndExponentOf(in, it, base, e) ==
  IF e.err # "SUCCESS" THEN [it EXCEPT !.err = e.err, !.at = e.at]
  ELSE IF e.lev # it.lev + 1 \/ e.type # "INT64"
       THEN [it EXCEPT !.err = "BAD_EXP_AND_MANTISSA", !.at = e.at]
       ELSE WithMantissa(in, it, base, e.val, MantissaContent(in, e.at))

\* An array that is not tagged as a decimal fraction is taken for a big float.
MantissaAndExponent(in, it, at) ==
  IF it.type # "ARRAY" THEN AsError(it, "BAD_EXP_AND_MANTISSA")
  ELSE MantissaAndExponentOf(in, it,
         IF 4 \in ToSet(it.tags) THEN "DECIMAL_FRACTION" ELSE "BIGFLOAT",
         GetNextMapOrArray(in, at))

\* Mutant: the tag of big floats is forgotten, and the array is left as it is.
ContentTagOfTen(in, i, t) ==
  IF i.err # "SUCCESS" THEN i
  ELSE ShiftTags(IF t = 4 THEN MantissaAndExponent(in, i, i.at) ELSE ProcessTag(i, t))

\* Tags are processed from the inside out.
ContentTag(in, i, t) ==
  IF i.err # "SUCCESS" THEN i
  ELSE ShiftTags(IF t \in {4, 5} THEN MantissaAndExponent(in, i, i.at) ELSE ProcessTag(i, t))

GetNextTagContent(in, at) ==
  LET it      == GetNextMapOrArray(in, at)
      f[k \in 0..Len(it.tags)] == IF k = 0 THEN it ELSE ContentTag(in, f[k - 1], it.tags[k])
  IN  UpToUnknown(f[Len(it.tags)])
=============================================================================
