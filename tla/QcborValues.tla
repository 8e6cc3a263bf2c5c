---------------------------- MODULE QcborValues -----------------------------
(***************************************************************************)
(* From the number or string one program adds to the value another one      *)
(* gets: a map written with the functions of QcborTags and read with the    *)
(* getters of qcbor_decode.c and qcbor_spiffy_decode.h, which take the next *)
(* item or search the map for a label, check the tag requirement and        *)
(* convert.  The map is entered, and ends the input.                        *)
(***************************************************************************)
EXTENDS QcborTags, FiniteSets

CONSTANTS
  Adds,       \* [fn, arg, tag, extra]: the first value the writer adds
  MoreAdds,   \* values it adds after that
  UnknownTag, \* a tag number the decoder does not know
  Labels,     \* the labels of the map, in order
  TextLabels, \* those that are text
  Calls,      \* [fn, req, more, types, by]: what the reader may call first
  Again,      \* and after that
  MaxCalls

ASSUME ValuesAssumption ==
  /\ IsInjective(Labels) /\ Labels \in Seq(ToSet(Labels)) /\ "none" \notin ToSet(Labels)
  /\ TextLabels \subseteq ToSet(Labels) /\ MaxCalls \in Nat

\* A tag that neither QCBORDecode_GetNextTagContent() nor StringTagMap has.
ASSUME TagAssumption ==
  UnknownTag \notin {1, 4, 5, 36, 100, 257} \cup {m.tag : m \in StringTagMap}

\* The arguments have the types of the functions' parameters; another encoder
\* may write an integer that int64_t does not hold.
ArgumentsOf(fn) ==
  CASE fn = "AddInt64" -> (-UINT_MAX - 1)..UINT_MAX
    [] fn \in {"AddTDateEpoch", "AddTDaysEpoch"} -> INT_MIN..INT_MAX
    [] fn = "AddDouble" -> Int
    [] fn = "AddSimple" -> {"TRUE", "FALSE", "NULL", "UNDEF"}
    [] fn \in {"AddTPositiveBignum", "AddTNegativeBignum"} -> Seq(0..(BYTE - 1))
    [] fn \in {"AddTDecimalFraction", "AddTBigFloat"} ->
         [mant : INT_MIN..INT_MAX, exp : INT_MIN..INT_MAX]
    [] fn \in {"AddTDecimalFractionBigNum", "AddTBigFloatBigNum"} ->
         [mant : Seq(0..(BYTE - 1)), neg : BOOLEAN, exp : INT_MIN..INT_MAX]

StringAdders ==
  {"AddText", "AddBytes", "AddTURI", "AddTB64Text", "AddTB64URLText", "AddTRegex",
   "AddTDateString", "AddTDaysString", "AddTBinaryUUID", "AddTMIMEData"}
NumberAdders ==
  {"AddInt64", "AddTDateEpoch", "AddTDaysEpoch", "AddDouble", "AddSimple", "AddTPositiveBignum",
   "AddTNegativeBignum", "AddTDecimalFraction", "AddTBigFloat", "AddTDecimalFractionBigNum",
   "AddTBigFloatBigNum"}
Untagged == {"AddInt64", "AddDouble", "AddSimple", "AddNaN", "AddText", "AddBytes"}

ASSUME AddsAssumption ==
  \A a \in Adds \cup MoreAdds :
    /\ a = [fn |-> a.fn, arg |-> a.arg, tag |-> a.tag, extra |-> a.extra]
    /\ a.fn \in StringAdders \cup {"AddNaN"} \/ (a.fn \in NumberAdders /\ a.arg \in ArgumentsOf(a.fn))
    /\ a.tag \in BOOLEAN /\ a.extra \in BOOLEAN /\ (a.fn \in Untagged => ~a.tag)

Getters ==
  {"GetBool", "GetNull", "GetUndefined", "GetEpochDate", "GetEpochDays", "GetBignum", "GetMIMEMessage",
   "GetByteString", "GetTextString", "GetDateString", "GetDaysString", "GetURI", "GetB64", "GetB64URL",
   "GetRegex", "GetBinaryUUID", "GetDecimalFraction", "GetDecimalFractionBig", "GetBigFloat",
   "GetBigFloatBig", "GetInt64", "GetUInt64", "GetDouble", "GetInt64Convert", "GetInt64ConvertAll",
   "GetUInt64Convert", "GetUInt64ConvertAll", "GetDoubleConvert", "GetDoubleConvertAll"}

ASSUME CallsAssumption == \A c \in Calls \cup Again : c.fn \in Getters /\ c.more \in BOOLEAN

VARIABLES
  in,      \* the tokens of the map
  added,   \* history: what was added, [fn, arg, at], in order
  pos,     \* the cursor of the reader, 0 while the map is being written
  err,     \* uLastError
  last,    \* history: the last call, the entry it is for and what came of it
  calls    \* calls so far

vars == <<in, added, pos, err, last, calls>>

NoCall == [fn |-> "none"]

Init ==
  /\ in = <<>> /\ added = <<>> /\ pos = 0 /\ err = "SUCCESS"
  /\ last = NoCall /\ calls = 0

-----------------------------------------------------------------------------
(* The tag requirement                                                      *)

\* A list shorter than QCBOR_TAGSPEC_NUM_TYPES ends with QCBOR_TYPE_NONE.
TypeList(types) == IF Cardinality(types) < 4 THEN types \cup {"NONE"} ELSE types

CheckTypeList(type, list) == IF type \in TypeList(list) THEN "SUCCESS" ELSE "UNEXPECTED_TYPE"

CheckTagRequirementAnyMore(spec, it) ==
  CASE spec.req = "TAG" -> CheckTypeList(it.type, spec.tagged)
    [] spec.req = "NOT_A_TAG" -> CheckTypeList(it.type, spec.content)
    [] OTHER -> CheckTypeList(it.type, TypeList(spec.content) \cup spec.tagged)

CheckTagRequirement(spec, it) ==
  IF ~spec.more /\ it.tags # <<>> THEN "UNEXPECTED_TYPE"
  ELSE CASE spec.req = "TAG" -> CheckTypeList(it.type, spec.tagged)
         [] spec.req = "NOT_A_TAG" -> CheckTypeList(it.type, spec.content)
         [] OTHER -> CheckTypeList(it.type, TypeList(spec.content) \cup spec.tagged)

TagSpec(c, tagged, content) ==
  [req |-> c.req, more |-> c.more, tagged |-> tagged, content |-> content]

-----------------------------------------------------------------------------
(* Finding the item a call is for                                           *)

LabelOf(i) == in[i].label
Entry(label) == {i \in DOMAIN in : LabelOf(i) = label}

\* GetItemInMapN and SZ.  The search ends behind the map, or behind the
\* entry if that one has an error.
GetItemInMap(label) ==
  IF Entry(label) = {} THEN Bad("LABEL_NOT_FOUND", Len(in) + 1)
  ELSE LET it == GetNextTagContent(in, CHOOSE i \in Entry(label) : TRUE)
       IN  IF it.err = "SUCCESS" THEN [it EXCEPT !.at = Len(in) + 1] ELSE it

Item(c) == IF c.by = "next" THEN GetNextTagContent(in, pos) ELSE GetItemInMap(c.by)

-----------------------------------------------------------------------------
(* Getters: what a call gives for an item it got without an error           *)

Unless(e, r) == IF e = "SUCCESS" THEN r ELSE Fails(e)
Checked(spec, it, r) == Unless(CheckTagRequirement(spec, it), r)

ProcessBool(c, it) ==
  CASE it.type = "TRUE"  -> Gives(TRUE)
    [] it.type = "FALSE" -> Gives(FALSE)
    [] OTHER -> Unexpected

GetNull(it)      == IF it.type = "NULL" THEN Gives("NULL") ELSE Unexpected
GetUndefined(it) == IF it.type = "UNDEF" THEN Gives("UNDEF") ELSE Unexpected

DateResult(it) == Unless(it.err, Gives(it.val))

ProcessEpochDate(c, it) ==
  Checked(TagSpec(c, {"DATE_EPOCH"}, {"INT64", "DOUBLE", "FLOAT", "UINT64"}),
          [it EXCEPT !.type = IF @ = "NAN" THEN "DOUBLE" ELSE @],
          IF it.type = "DATE_EPOCH" THEN Gives(it.val) ELSE DateResult(DecodeDateEpoch(it)))

ProcessEpochDays(c, it) ==
  Checked(TagSpec(c, {"DAYS_EPOCH"}, {"INT64", "UINT64"}), it,
          IF it.type = "DAYS_EPOCH" THEN Gives(it.val) ELSE DateResult(DecodeDaysEpoch(it)))

\* The sign is not written for content that is borrowed.
ProcessBigNum(c, it) ==
  Checked(TagSpec(c, {"POSBIGNUM", "NEGBIGNUM"}, {"BYTE_STRING"}), it,
          Gives([digits |-> it.val,
                 neg |-> CASE it.type = "POSBIGNUM" -> FALSE
                           [] it.type = "NEGBIGNUM" -> TRUE
                           [] OTHER -> "unwritten"]))

GetMIMEInternal(c, it) ==
  IF \/ CheckTagRequirement(TagSpec(c, {"MIME"}, {"TEXT_STRING"}), it) = "SUCCESS"
     \/ CheckTagRequirement(TagSpec(c, {"BINARY_MIME"}, {"BYTE_STRING"}), it) = "SUCCESS"
  THEN Gives(it.val) ELSE Unexpected

GetMIMEMessage(c, it) == GetMIMEInternal(c, it)

GetTaggedString(spec, it) == Checked(spec, it, Gives(it.val))

GetByteString(c, it) == GetTaggedString(TagSpec(c, {"BYTE_STRING"}, {"BYTE_STRING"}), it)
GetTextString(c, it) == GetTaggedString(TagSpec(c, {"TEXT_STRING"}, {"TEXT_STRING"}), it)
GetDateString(c, it) == GetTaggedString(TagSpec(c, {"DATE_STRING"}, {"TEXT_STRING"}), it)
GetDaysString(c, it) == GetTaggedString(TagSpec(c, {"DAYS_STRING"}, {"TEXT_STRING"}), it)
GetURI(c, it)        == GetTaggedString(TagSpec(c, {"URI"}, {"TEXT_STRING"}), it)
GetB64(c, it)        == GetTaggedString(TagSpec(c, {"BASE64"}, {"TEXT_STRING"}), it)
GetB64URL(c, it)     == GetTaggedString(TagSpec(c, {"BASE64URL"}, {"TEXT_STRING"}), it)
GetRegex(c, it)      == GetTaggedString(TagSpec(c, {"REGEX"}, {"TEXT_STRING"}), it)
GetBinaryUUID(c, it) == GetTaggedString(TagSpec(c, {"UUID"}, {"BYTE_STRING"}), it)

-----------------------------------------------------------------------------
(* Decimal fractions and big floats                                         *)

\* An array is decoded where the cursor is now, and must then have the type.
MantissaAndExponentTypeHandler(spec, it) ==
  LET Second(i) == IF i.err # "SUCCESS" THEN i
                   ELSE AsError(i, CheckTagRequirement([spec EXCEPT !.req = "TAG", !.more = FALSE], i))
  IN  IF CheckTagRequirement(spec, it) # "SUCCESS" THEN AsError(it, "UNEXPECTED_TYPE")
      ELSE IF it.type # "ARRAY" THEN it
      ELSE Second(MantissaAndExponent(in, it, it.at))

Fraction(base) == {FractionType(base, t) : t \in {"INT64", "POSBIGNUM", "NEGBIGNUM"}}
FractionSpec(c, base) == TagSpec(c, Fraction(base), {"ARRAY"})

ProcessMantissaAndExponent(it) ==
  LET Both(m) == Gives([mant |-> m, exp |-> it.val.exp])
  IN  IF it.err # "SUCCESS" THEN Fails(it.err)
      ELSE CASE it.type \in {"DECIMAL_FRACTION", "BIGFLOAT"} -> Both(it.val.mant)
             [] it.type \in {"DECIMAL_FRACTION_POS_BIGNUM", "BIGFLOAT_POS_BIGNUM"} ->
                  Then(ConvertPositiveBigNumToSigned(it.val.mant), Both)
             [] it.type \in {"DECIMAL_FRACTION_NEG_BIGNUM", "BIGFLOAT_NEG_BIGNUM"} ->
                  Then(ConvertNegativeBigNumToSigned(it.val.mant), Both)
             [] OTHER -> Unexpected

ProcessMantissaAndExponentBig(it) ==
  LET Both(digits, neg) == IF digits = Never THEN Fails("never")
                           ELSE Gives([digits |-> digits, neg |-> neg, exp |-> it.val.exp])
  IN  IF it.err # "SUCCESS" THEN Fails(it.err)
      ELSE CASE it.type \in {"DECIMAL_FRACTION", "BIGFLOAT"} ->
                  Both(ConvertIntToBigNum(Magnitude(it.val.mant)), it.val.mant < 0)
             [] it.type \in {"DECIMAL_FRACTION_POS_BIGNUM", "BIGFLOAT_POS_BIGNUM"} ->
                  Both(it.val.mant, FALSE)
             [] it.type \in {"DECIMAL_FRACTION_NEG_BIGNUM", "BIGFLOAT_NEG_BIGNUM"} ->
                  Both(it.val.mant, TRUE)
             [] OTHER -> Unexpected

GetDecimalFraction(c, it) ==
  ProcessMantissaAndExponent(MantissaAndExponentTypeHandler(FractionSpec(c, "DECIMAL_FRACTION"), it))
GetDecimalFractionBig(c, it) ==
  ProcessMantissaAndExponentBig(MantissaAndExponentTypeHandler(FractionSpec(c, "DECIMAL_FRACTION"), it))
GetBigFloat(c, it) ==
  ProcessMantissaAndExponent(MantissaAndExponentTypeHandler(FractionSpec(c, "BIGFLOAT"), it))
GetBigFloatBig(c, it) ==
  ProcessMantissaAndExponentBig(MantissaAndExponentTypeHandler(FractionSpec(c, "BIGFLOAT"), it))

\* Decoding an array moves the cursor behind its two items.
CursorAfter(c, it, base) ==
  IF it.type = "ARRAY" /\ CheckTagRequirement(FractionSpec(c, base), it) = "SUCCESS"
  THEN MantissaAndExponent(in, it, it.at).at ELSE it.at

FractionGetters == {"GetDecimalFraction", "GetDecimalFractionBig", "GetBigFloat", "GetBigFloatBig"}

-----------------------------------------------------------------------------
(* Numbers                                                                  *)

\* The wider conversions are tried on what the first one refused.
Widened(r, all) == IF r.err = "UNEXPECTED_TYPE" THEN all ELSE r

GetInt64Convert(c, it)     == ConvertInt64(it, c.types)
GetInt64ConvertAll(c, it)  == Widened(ConvertInt64(it, c.types), Int64ConvertAll(it, c.types))
GetUInt64Convert(c, it)    == ConvertUInt64(it, c.types)
GetUInt64ConvertAll(c, it) == Widened(ConvertUInt64(it, c.types), UInt64ConvertAll(it, c.types))
GetDoubleConvert(c, it)    == ConvertDouble(it, c.types)
GetDoubleConvertAll(c, it) == Widened(ConvertDouble(it, c.types), DoubleConvertAll(it, c.types))

GetInt64(it)  == ConvertInt64(it, {"XINT64"})
GetUInt64(it) == ConvertUInt64(it, {"XINT64"})
GetDouble(it) == ConvertDouble(it, {"FLOAT"})

ConvertAll == {"GetInt64ConvertAll", "GetUInt64ConvertAll", "GetDoubleConvertAll"}

Result(c, it) ==
  CASE c.fn = "GetBool"               -> ProcessBool(c, it)
    [] c.fn = "GetNull"               -> GetNull(it)
    [] c.fn = "GetUndefined"          -> GetUndefined(it)
    [] c.fn = "GetEpochDate"          -> ProcessEpochDate(c, it)
    [] c.fn = "GetEpochDays"          -> ProcessEpochDays(c, it)
    [] c.fn = "GetBignum"             -> ProcessBigNum(c, it)
    [] c.fn = "GetMIMEMessage"        -> GetMIMEMessage(c, it)
    [] c.fn = "GetByteString"         -> GetByteString(c, it)
    [] c.fn = "GetTextString"         -> GetTextString(c, it)
    [] c.fn = "GetDateString"         -> GetDateString(c, it)
    [] c.fn = "GetDaysString"         -> GetDaysString(c, it)
    [] c.fn = "GetURI"                -> GetURI(c, it)
    [] c.fn = "GetB64"                -> GetB64(c, it)
    [] c.fn = "GetB64URL"             -> GetB64URL(c, it)
    [] c.fn = "GetRegex"              -> GetRegex(c, it)
    [] c.fn = "GetBinaryUUID"         -> GetBinaryUUID(c, it)
    [] c.fn = "GetDecimalFraction"    -> GetDecimalFraction(c, it)
    [] c.fn = "GetDecimalFractionBig" -> GetDecimalFractionBig(c, it)
    [] c.fn = "GetBigFloat"           -> GetBigFloat(c, it)
    [] c.fn = "GetBigFloatBig"        -> GetBigFloatBig(c, it)
    [] c.fn = "GetInt64"              -> GetInt64(it)
    [] c.fn = "GetUInt64"             -> GetUInt64(it)
    [] c.fn = "GetDouble"             -> GetDouble(it)
    [] c.fn = "GetInt64Convert"       -> GetInt64Convert(c, it)
    [] c.fn = "GetInt64ConvertAll"    -> GetInt64ConvertAll(c, it)
    [] c.fn = "GetUInt64Convert"      -> GetUInt64Convert(c, it)
    [] c.fn = "GetUInt64ConvertAll"   -> GetUInt64ConvertAll(c, it)
    [] c.fn = "GetDoubleConvert"      -> GetDoubleConvert(c, it)
    [] c.fn = "GetDoubleConvertAll"   -> GetDoubleConvertAll(c, it)

After(c, it) ==
  CASE c.fn \in {"GetDecimalFraction", "GetDecimalFractionBig"} ->
         CursorAfter(c, it, "DECIMAL_FRACTION")
    [] c.fn \in {"GetBigFloat", "GetBigFloatBig"} -> CursorAfter(c, it, "BIGFLOAT")
    [] OTHER -> it.at

\* In the two functions for a decimal fraction in a map nobody looks at the error
\* of the search; the ones for big floats and for big numbers do.  With a label
\* that is a number the item is then one of type NONE, with one that is text it
\* is whatever is on the stack: 0 stands for the value that is then returned.
Garbage == {Gives(0), Unexpected}

Outcomes(c, it) ==
  CASE it.err = "SUCCESS" -> {Result(c, it)}
    [] it.err # "SUCCESS" /\ c.fn = "GetDecimalFraction" /\ c.by \in ToSet(Labels) \ TextLabels ->
         {Unexpected}
    [] it.err # "SUCCESS" /\ c.fn = "GetDecimalFraction" /\ c.by \in TextLabels -> Garbage
    [] OTHER -> {Fails(it.err)}

\* A call with an error already set does nothing, except that the three
\* ...ConvertAll() take QCBOR_ERR_UNEXPECTED_TYPE for their own and convert
\* an item nobody read.
OutcomesAfterError(c) ==
  IF err = "UNEXPECTED_TYPE" /\ c.fn \in ConvertAll THEN Garbage ELSE {Fails(err)}

-----------------------------------------------------------------------------
(* The writer and the reader                                                *)

TokensOf(a) ==
  CASE a.fn = "AddInt64"           -> AddInt64(a.arg)
    [] a.fn = "AddDouble"          -> <<Token("float", a.arg)>>
    [] a.fn = "AddNaN"             -> <<Token("nan", 0)>>
    [] a.fn = "AddSimple"          -> AddSimple(a.arg)
    [] a.fn = "AddText"            -> AddText(a.arg)
    [] a.fn = "AddBytes"           -> AddBytes(a.arg)
    [] a.fn = "AddTDateEpoch"      -> AddTDateEpoch(a.tag, a.arg)
    [] a.fn = "AddTDaysEpoch"      -> AddTDaysEpoch(a.tag, a.arg)
    [] a.fn = "AddTBinaryUUID"     -> AddTBinaryUUID(a.tag, a.arg)
    [] a.fn = "AddTPositiveBignum" -> AddTPositiveBignum(a.tag, a.arg)
    [] a.fn = "AddTNegativeBignum" -> AddTNegativeBignum(a.tag, a.arg)
    [] a.fn = "AddTURI"            -> AddTURI(a.tag, a.arg)
    [] a.fn = "AddTB64Text"        -> AddTB64Text(a.tag, a.arg)
    [] a.fn = "AddTB64URLText"     -> AddTB64URLText(a.tag, a.arg)
    [] a.fn = "AddTRegex"          -> AddTRegex(a.tag, a.arg)
    [] a.fn = "AddTMIMEData"       -> AddTMIMEData(a.tag, a.arg)
    [] a.fn = "AddTDateString"     -> AddTDateString(a.tag, a.arg)
    [] a.fn = "AddTDaysString"     -> AddTDaysString(a.tag, a.arg)
    [] a.fn = "AddTDecimalFraction" -> AddTDecimalFraction(a.tag, a.arg.mant, a.arg.exp)
    [] a.fn = "AddTBigFloat"        -> AddTBigFloat(a.tag, a.arg.mant, a.arg.exp)
    [] a.fn = "AddTDecimalFractionBigNum" ->
         AddTDecimalFractionBigNum(a.tag, a.arg.neg, a.arg.mant, a.arg.exp)
    [] a.fn = "AddTBigFloatBigNum" ->
         AddTBigFloatBigNum(a.tag, a.arg.neg, a.arg.mant, a.arg.exp)

\* What is written with a label.  extra: the writer put another tag number
\* around the value, one the decoder does not know.
Written(a, label) ==
  [(IF a.extra THEN AddTag(UnknownTag, TokensOf(a)) ELSE TokensOf(a)) EXCEPT ![1].label = label]

Add(a) ==
  /\ pos = 0 /\ Len(added) < Len(Labels)
  /\ a \in IF added = <<>> THEN Adds ELSE MoreAdds
  /\ in' = in \o Written(a, Labels[Len(added) + 1])
  /\ added' = Append(added, [fn |-> a.fn, arg |-> a.arg, tag |-> a.tag, extra |-> a.extra,
                             at |-> Len(in) + 1])
  /\ UNCHANGED <<pos, err, last, calls>>

EnterMap ==
  /\ pos = 0 /\ added # <<>>
  /\ pos' = 1
  /\ UNCHANGED <<in, added, err, last, calls>>

\* The entry a call is for: that of the label, or the one at the cursor.
For(c) == IF c.by = "next" THEN {i \in DOMAIN added : added[i].at = pos}
          ELSE {i \in DOMAIN added : LabelOf(added[i].at) = c.by}

Called(c, r, at) ==
  /\ err' = r.err /\ pos' = at
  /\ last' = [fn |-> c.fn, call |-> c, for |-> For(c), result |-> r, before |-> err]
  /\ calls' = calls + 1
  /\ UNCHANGED <<in, added>>

Get(c) ==
  /\ pos > 0 /\ calls < MaxCalls /\ err # "never"
  /\ c \in IF calls = 0 THEN Calls ELSE Again
  /\ IF err # "SUCCESS"
     THEN \E r \in OutcomesAfterError(c) : Called(c, r, pos)
     ELSE \E it \in {Item(c)} : \E r \in Outcomes(c, it) : Called(c, r, After(c, it))

\* QCBORDecode_GetAndResetError()
GetAndResetError ==
  /\ err \notin {"SUCCESS", "never"}
  /\ err' = "SUCCESS" /\ last' = NoCall
  /\ UNCHANGED <<in, added, pos, calls>>

Next ==
  \/ \E a \in Adds \cup MoreAdds : Add(a)
  \/ EnterMap
  \/ \E c \in Calls \cup Again : Get(c)
  \/ GetAndResetError

Spec == Init /\ [][Next]_vars

-----------------------------------------------------------------------------
(* What was meant: from what was added, without the code                    *)

Digits(s) ==
  LET n[i \in 0..Len(s)] == IF i = 0 THEN 0 ELSE n[i - 1] * BYTE + s[i]
  IN  n[Len(s)]
BigNumber(neg, s) == IF neg THEN -1 - Digits(s) ELSE Digits(s)

Fractions == {"AddTDecimalFraction", "AddTBigFloat"}
BigFractions == {"AddTDecimalFractionBigNum", "AddTBigFloatBigNum"}
BaseOf(a) == IF a.fn \in {"AddTDecimalFraction", "AddTDecimalFractionBigNum"} THEN 10 ELSE 2

\* The number that was added, m * b^e.
NumberOf(a) ==
  CASE a.fn = "AddInt64"            -> <<a.arg, 1, 0>>
    [] a.fn = "AddDouble"           -> <<a.arg, 2, -1>>
    [] a.fn = "AddTPositiveBignum"  -> <<BigNumber(FALSE, a.arg), 1, 0>>
    [] a.fn = "AddTNegativeBignum"  -> <<BigNumber(TRUE, a.arg), 1, 0>>
    [] a.fn \in Fractions           -> <<a.arg.mant, BaseOf(a), a.arg.exp>>
    [] a.fn \in BigFractions        -> <<BigNumber(a.arg.neg, a.arg.mant), BaseOf(a), a.arg.exp>>

IsNumber(a) ==
  \/ a.fn \in {"AddInt64", "AddDouble"}
  \/ a.tag /\ a.fn \in Fractions \cup BigFractions \cup {"AddTPositiveBignum", "AddTNegativeBignum"}

\* An exponent beyond this one takes every number but 0 out of range or below 1.
EnoughExp(b) == IF b = 10 THEN W \div 3 + 1 ELSE W + 2
Capped(b, e) ==
  IF e > EnoughExp(b) THEN EnoughExp(b) ELSE IF e < -EnoughExp(b) THEN -EnoughExp(b) ELSE e
Scaled(m, b, e) ==
  IF e >= 0 THEN m * Pow(b, e) ELSE Signed(m, Magnitude(m) \div Pow(b, -e))

\* A double is rounded to the nearest integer, a fraction loses what is
\* behind the point.
IntegerOf(a) ==
  IF a.fn = "AddDouble" THEN Rounded(a.arg)
  ELSE Scaled(NumberOf(a)[1], NumberOf(a)[2], Capped(NumberOf(a)[2], NumberOf(a)[3]))

\* The option a conversion of it has to be given, by what the options are for:
\* QCBOR/inc/qcbor/qcbor_spiffy_decode.h:168-182.
OptionFor(a) ==
  CASE a.fn = "AddInt64" -> "XINT64"
    [] a.fn = "AddDouble" -> "FLOAT"
    [] a.fn \in {"AddTPositiveBignum", "AddTNegativeBignum"} -> "BIG_NUM"
    [] a.fn \in {"AddTDecimalFraction", "AddTDecimalFractionBigNum"} -> "DECIMAL_FRACTION"
    [] a.fn \in {"AddTBigFloat", "AddTBigFloatBigNum"} -> "BIGFLOAT"

\* The last call was for the entry i, with no error before it.
IsFor(i) == last.fn # "none" /\ last.before = "SUCCESS" /\ last.for = {i}
Got      == last.result.err = "SUCCESS"

IntegerGetters ==
  {"GetInt64", "GetInt64Convert", "GetInt64ConvertAll",
   "GetUInt64", "GetUInt64Convert", "GetUInt64ConvertAll"}
DoubleGetters == {"GetDouble", "GetDoubleConvert", "GetDoubleConvertAll"}
OptionsOf(c) ==
  CASE c.fn \in {"GetInt64", "GetUInt64"} -> {"XINT64"}
    [] c.fn = "GetDouble" -> {"FLOAT"}
    [] OTHER -> c.types
RangeOf(fn) ==
  IF fn \in {"GetInt64", "GetInt64Convert", "GetInt64ConvertAll"} THEN INT_MIN..INT_MAX ELSE 0..UINT_MAX

-----------------------------------------------------------------------------
(* Properties                                                               *)

\* An integer that a conversion returns is the number that was added, and the
\* caller gave the option for that kind of number; a conversion that says overflow
\* was of a number that does not fit, or whose mantissa does not, or that is below
\* 1; one that complains about the sign was of a negative number.  Nothing is said
\* of the option for a big float with a big number, for which the conversions to
\* integers ask for that of decimal fractions (OptionIsAsDocumented).
IntegersAreRight ==
  \A i \in DOMAIN added :
    IsFor(i) /\ IsNumber(added[i]) /\ last.fn \in IntegerGetters =>
      LET n == IntegerOf(added[i])
          r == last.result
      IN  /\ Got => /\ n \in RangeOf(last.fn) /\ r.v = n
                    /\ added[i].fn # "AddTBigFloatBigNum" => OptionFor(added[i]) \in OptionsOf(last.call)
          /\ r.err = UnderOver =>
               \/ n \notin RangeOf(last.fn) \/ n = 0
               \/ NumberOf(added[i])[1] \notin RangeOf(last.fn)
               \/ added[i].fn = "AddDouble" /\ n > UINT_MAX - Slack
          /\ r.err = "NUMBER_SIGN_CONVERSION" => NumberOf(added[i])[1] < 0

\* A double is the number that was added, and the caller gave the option for it,
\* big floats with big numbers included.  Left out are the two cases in
\* which it is not: a negative big number as the mantissa of a decimal
\* fraction is one unit off, and without the option for it a floating-point
\* number is not written at all.
DoublesAreRight ==
  \A i \in DOMAIN added :
    /\ IsFor(i) /\ IsNumber(added[i]) /\ last.fn \in DoubleGetters
    /\ Got
    /\ ~(added[i].fn = "AddTDecimalFractionBigNum" /\ added[i].arg.neg)
    /\ ~(added[i].fn = "AddDouble" /\ "FLOAT" \notin OptionsOf(last.call))
    => /\ last.result.v = NumberOf(added[i])
       /\ OptionFor(added[i]) \in OptionsOf(last.call)

\* Whatever the type, the options and the width, no conversion gives another
\* number than the one that was added, or one the caller did not ask for.
NumbersAreRight == IntegersAreRight /\ DoublesAreRight

\* What is added with a function and as what its content would be without one.
StringPairs ==
  {[add |-> "AddTURI", get |-> "GetURI", of |-> "AddText"],
   [add |-> "AddTB64Text", get |-> "GetB64", of |-> "AddText"],
   [add |-> "AddTB64URLText", get |-> "GetB64URL", of |-> "AddText"],
   [add |-> "AddTRegex", get |-> "GetRegex", of |-> "AddText"],
   [add |-> "AddTDateString", get |-> "GetDateString", of |-> "AddText"],
   [add |-> "AddTDaysString", get |-> "GetDaysString", of |-> "AddText"],
   [add |-> "AddTBinaryUUID", get |-> "GetBinaryUUID", of |-> "AddBytes"],
   [add |-> "AddTMIMEData", get |-> "GetMIMEMessage", of |-> "AddBytes"]}
PlainAs(a) ==
  CASE a.fn \in {"AddText", "AddBytes", "AddInt64", "AddDouble"} -> a.fn
    [] \E p \in StringPairs : p.add = a.fn -> (CHOOSE p \in StringPairs : p.add = a.fn).of
    [] a.fn \in {"AddTPositiveBignum", "AddTNegativeBignum"} -> "AddBytes"
    [] a.fn \in {"AddTDateEpoch", "AddTDaysEpoch"} -> "AddInt64"
    [] OTHER -> "none"

\* Whether the tag requirement of call c lets value a through: with its tag,
\* or as the borrowed content of what was added with the function add.
Satisfies(a, c, add, content) ==
  /\ a.extra => c.more
  /\ IF a.tag THEN a.fn \in add /\ c.req # "NOT_A_TAG"
     ELSE PlainAs(a) \in content /\ c.req # "TAG"

\* A string that was added as a URI, a date and so on, is got as such exactly
\* if the tag requirement allows it, and is the same.
StringsAreGot ==
  \A i \in DOMAIN added : \A p \in StringPairs :
    IsFor(i) /\ last.fn = p.get =>
      LET content == IF p.get = "GetMIMEMessage" THEN {"AddText", "AddBytes"} ELSE {p.of}
      IN  IF Satisfies(added[i], last.call, {p.add}, content)
          THEN Got /\ last.result.v = added[i].arg
          ELSE ~Got

DateOf(a)   == IF a.fn = "AddDouble" THEN Scaled(a.arg, 2, -1) ELSE a.arg
SafeDates   == (INT_MIN + Slack + 1)..(INT_MAX - Slack - 1)
BigAdders   == {"AddTPositiveBignum", "AddTNegativeBignum"}

\* The same for dates, days and big numbers.  A date is refused only if the
\* requirement does not let it through or if it does not fit in int64_t.
DatesAreGot ==
  \A i \in DOMAIN added :
    LET a == added[i]
        c == last.call
    IN  IsFor(i) =>
        /\ last.fn = "GetEpochDate" =>
             /\ Got => /\ Satisfies(a, c, {"AddTDateEpoch"}, {"AddInt64", "AddDouble"})
                       /\ last.result.v = DateOf(a)
             /\ Satisfies(a, c, {"AddTDateEpoch"}, {"AddInt64", "AddDouble"}) /\ ~Got =>
                  DateOf(a) \notin SafeDates
        /\ last.fn = "GetEpochDays" =>
             /\ Got => last.result.v = a.arg
             /\ Got <=> Satisfies(a, c, {"AddTDaysEpoch"}, {"AddInt64"}) /\ a.arg \in INT_MIN..INT_MAX
        /\ last.fn = "GetBignum" =>
             /\ Got <=> Satisfies(a, c, BigAdders, {"AddBytes"})
             /\ Got => last.result.v.digits = a.arg
             /\ Got /\ a.tag => last.result.v.neg = (a.fn = "AddTNegativeBignum")

\* Strings, dates, days and big numbers, with every tag requirement.
ContentsAreGot == StringsAreGot /\ DatesAreGot

\* The getter for the fractions with mantissas as int64_t, as big numbers.
FractionGetter(a, big) ==
  IF BaseOf(a) = 10 THEN IF big THEN "GetDecimalFractionBig" ELSE "GetDecimalFraction"
  ELSE IF big THEN "GetBigFloatBig" ELSE "GetBigFloat"

FractionArg(a, c) == a.extra => c.more

\* A fraction added with its tag is got with its mantissa and exponent where
\* the requirement is that it has one or may have; a big number mantissa that
\* int64_t cannot hold is refused by the getters for int64_t.
FractionsAreGot ==
  \A i \in DOMAIN added :
    LET a == added[i]
        r == last.result
    IN  IsFor(i) /\ a.fn \in Fractions \cup BigFractions /\ a.tag
          /\ last.call.req # "NOT_A_TAG" /\ FractionArg(a, last.call) =>
        /\ last.fn = FractionGetter(a, FALSE) =>
             IF NumberOf(a)[1] \in INT_MIN..INT_MAX
             THEN Got /\ r.v = [mant |-> NumberOf(a)[1], exp |-> a.arg.exp]
             ELSE r.err = UnderOver
        /\ last.fn = FractionGetter(a, TRUE) /\ a.fn \in BigFractions =>
             Got /\ r.v = [digits |-> a.arg.mant, neg |-> a.arg.neg, exp |-> a.arg.exp]

\* QCBOR/inc/qcbor/qcbor_spiffy_decode.h:1246: the mantissa may be an integer
\* or a big number, "This implementation will convert all these to a big
\* number": what is got of an integer stands for the number that was added.
BigMantissaIsTheNumber ==
  \A i \in DOMAIN added :
    /\ IsFor(i) /\ added[i].fn \in Fractions /\ added[i].tag /\ added[i].arg.mant >= 0
    /\ last.fn = FractionGetter(added[i], TRUE) /\ Got
    => Digits(last.result.v.digits) = added[i].arg.mant

\* QCBOR/inc/qcbor/qcbor_spiffy_decode.h:180-182: QCBOR_CONVERT_TYPE_BIGFLOAT is
\* the option for "a big float (tag 5)", with a mantissa of either kind.
OptionIsAsDocumented ==
  \A i \in DOMAIN added :
    IsFor(i) /\ IsNumber(added[i]) /\ last.fn \in IntegerGetters /\ Got =>
      OptionFor(added[i]) \in OptionsOf(last.call)

\* Where the entry behind entry i is, or the end.
Behind(i) == IF i < Len(added) THEN added[i + 1].at ELSE Len(in) + 1

\* A getter by position takes one entry, whatever it makes of it: a fraction is
\* three items for the walk and one for the caller, be it tagged or read where a
\* tag may be missing, and nothing of it is left for the next call, also if the
\* getter was for something else or the number did not fit.  Only an untagged
\* fraction is an array like others and may be left, with an error, at its first
\* item.
EntryByEntry ==
  [][\A i \in DOMAIN added :
       /\ err = "SUCCESS" /\ pos = added[i].at
       /\ calls' # calls /\ last'.call.by = "next"
       => \/ pos' = Behind(i)
          \/ added[i].fn \in Fractions \cup BigFractions /\ ~added[i].tag /\ err' # "SUCCESS"]_vars

=============================================================================
