---------------------------- MODULE MCQcborValues ---------------------------
(* Integers of six bits in bytes of two: three bytes make an int64_t.  -33   *)
(* is an integer that only another encoder writes.                          *)
EXTENDS QcborValues

Ints    == {-33, -32, -31, -5, -1, 0, 1, 4, 16, 17, 30, 31, 32, 33, 63}
Dates   == {-32, -31, -1, 0, 5, 31}
Bigs    == {<<>>, <<0>>, <<1>>, <<0, 2, 3>>, <<1, 0>>, <<1, 3, 3>>, <<2, 0, 0>>, <<3, 3, 3>>, <<1, 0, 0, 0>>}
Halves  == {-200, -66, -65, -64, -63, -3, -1, 0, 1, 3, 60, 61, 62, 63, 64, 122, 124, 125, 126, 127, 200}
Mants   == {-32, -10, -1, 0, 16, 25, 31}
Exps    == {-2, -1, 0, 1, 31}
BigMants == {<<1>>, <<1, 3, 2>>, <<1, 3, 3>>, <<2, 0, 0>>, <<3, 3, 3>>}

A(fn, arg, tag) == [fn |-> fn, arg |-> arg, tag |-> tag, extra |-> FALSE]
WithExtra(adds) == adds \cup {[a EXCEPT !.extra = TRUE] : a \in adds}
Either(fn, args) == {A(fn, arg, tag) : arg \in args, tag \in BOOLEAN}
Always(fn, args) == {A(fn, arg, FALSE) : arg \in args}

Texts == WithExtra(
  Always("AddText", {"s"}) \cup Always("AddBytes", {"s"})
  \cup UNION {Either(fn, {"s"}) : fn \in StringAdders \ Untagged})

Numbers ==
  Always("AddInt64", Ints) \cup Always("AddDouble", Halves)
  \cup Either("AddTPositiveBignum", Bigs) \cup Either("AddTNegativeBignum", Bigs)

FractionAdds ==
  LET small == [mant : Mants, exp : Exps]
      big   == [mant : BigMants, neg : BOOLEAN, exp : {-1, 0, 1}]
  IN  Either("AddTDecimalFraction", small) \cup Either("AddTBigFloat", small)
      \cup Either("AddTDecimalFractionBigNum", big) \cup Either("AddTBigFloatBigNum", big)

Others ==
  Always("AddSimple", {"TRUE", "FALSE", "NULL", "UNDEF"}) \cup Always("AddNaN", {"nan"})
  \cup Either("AddTDateEpoch", Dates) \cup Either("AddTDaysEpoch", Dates)

FewExtras ==
  {a \in WithExtra(FractionAdds) :
     a.extra => a.arg.exp = -1 /\ a.fn \in {"AddTDecimalFraction", "AddTBigFloatBigNum"}}

MCAdds     == Texts \cup Numbers \cup FewExtras \cup Others
MCMoreAdds == Always("AddInt64", {4})
MCLabels   == <<"s2", "n1">>

All == {"XINT64", "FLOAT", "BIG_NUM", "DECIMAL_FRACTION", "BIGFLOAT"}
C(fn, req, more, types, by) == [fn |-> fn, req |-> req, more |-> more, types |-> types, by |-> by]
Reqs == {"TAG", "NOT_A_TAG", "OPTIONAL_TAG"}

Wheres == {"next", "s2"}

MoreOrNext == {<<TRUE, "next">>, <<FALSE, "next">>, <<FALSE, "s2">>}

PlainGetters   == {"GetInt64", "GetUInt64", "GetDouble"}
ConvertGetters == (IntegerGetters \cup DoubleGetters) \ PlainGetters

MCCalls ==
     {C(fn, r, mw[1], {}, mw[2]) : fn \in {p.get : p \in StringPairs} \cup FractionGetters
        \cup {"GetEpochDate", "GetEpochDays", "GetBignum"}, r \in Reqs, mw \in MoreOrNext}
  \cup {C(fn, "TAG", TRUE, {}, "n1") : fn \in FractionGetters}
  \cup {C(fn, "NOT_A_TAG", FALSE, {}, w) : fn \in {"GetByteString", "GetTextString", "GetBool",
        "GetNull", "GetUndefined"}, w \in Wheres}
  \cup {C(fn, "none", FALSE, ty, "next") : fn \in ConvertGetters,
        ty \in {All, {"XINT64"}, {"DECIMAL_FRACTION"}, {"BIGFLOAT"}, All \ {"FLOAT"}}}
  \cup {C(fn, "none", FALSE, All, "s2") : fn \in ConvertGetters \cup PlainGetters}

MCAgain == {C("GetInt64ConvertAll", "none", FALSE, All, "next")}
=============================================================================
