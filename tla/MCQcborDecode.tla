---------------------------- MODULE MCQcborDecode ----------------------------
(* Encodings for the decoder: every tree of a few tokens, some larger ones,   *)
(* what is left of them when they are cut off, and what is no tree at all.    *)
EXTENDS QcborDecode

T(t) == [t |-> t, n |-> 0]
N(t, n) == [t |-> t, n |-> n]
I(n) == N("int", n)
X(n) == N("text", n)
Break == T("break")

LookedUp == {<<"int", 1>>, <<"text", 1>>}

WalkCalls == {"VGetNext", "VPeekNext", "Enter", "EnterBstrWrapped", "ExitBstrWrapped", "Rewind",
              "Finish"}
AllCalls == WalkCalls \cup {"VGetNextConsume", "EnterFromMap", "EnterBstrWrappedFromMap", "Exit",
                            "GetItemInMap", "GetItemsInMap", "GetAndResetError"}

RECURSIVE ItemsOf(_), RunOf(_, _)

\* The items of size tokens, and the sequences of count of them.
ItemsOf(size) ==
  IF size < 1 THEN {}
  ELSE IF size = 1 THEN {<<I(1)>>, <<N("array", 0)>>, <<N("map", 0)>>}
  ELSE UNION {{<<N("array", k)>> \o r : r \in RunOf(size - 1, k)} : k \in 1..(size - 1)}
       \cup UNION {{<<T("openArray")>> \o r \o <<Break>> : r \in RunOf(size - 2, k)} :
                   k \in 0..(size - 2)}
       \cup {<<N("bstr", size - 1)>> \o r : r \in RunOf(size - 1, 1)}
       \cup {<<N("map", 1), I(1)>> \o r : r \in RunOf(size - 2, 1)}
       \cup {<<T("openMap"), X(1)>> \o r \o <<Break>> : r \in RunOf(size - 3, 1)}

RunOf(size, count) ==
  IF count = 0 THEN IF size = 0 THEN {<<>>} ELSE {}
  ELSE UNION {{a \o b : a \in ItemsOf(s), b \in RunOf(size - s, count - 1)} : s \in 1..size}

SmallTrees == UNION {ItemsOf(size) : size \in 1..3}

\* Entries of every type, in another order than they are asked for, two with one label.
Entries4 == <<I(2), N("array", 1), I(7), X(1), N("bstr", 2), I(8), I(9),
              I(1), N("map", 1), I(1), I(5), I(3), X(0)>>
Twice == <<I(1), I(5), X(1), I(6), I(1), N("array", 0)>>

LargeTrees ==
  {<<T("openMap")>> \o Entries4 \o <<Break>>,
   <<N("array", 2), N("map", 4)>> \o Entries4 \o <<I(4)>>,
   <<N("map", 3)>> \o Twice,
   <<T("openMap")>> \o Twice \o <<Break, I(4)>>,
   \* all levels end at once, by a count and by a break
   <<N("array", 1), T("openArray"), N("map", 1), I(1), I(2), Break, I(4)>>,
   <<T("openMap"), I(1), T("openArray"), T("openArray"), Break, Break, Break>>,
   \* a label that is refused, and labels of all kinds
   <<N("map", 3), T("simple"), I(1), X(1), I(2), N("bstr", 1), I(0), I(3)>>,
   \* encoded CBOR in encoded CBOR, that ends where what is around it ends
   <<N("array", 2), N("bstr", 3), I(1), N("bstr", 1), I(2), N("bstr", 2), I(3), I(4)>>,
   <<N("map", 1), I(1), N("bstr", 4), N("array", 2), I(1), N("bstr", 1), I(2)>>,
   \* tags, on labels too
   <<N("tag", 1), N("tag", 5), N("array", 1), N("tag", 5), I(1)>>,
   <<N("map", 2), N("tag", 1), I(1), N("tag", 6), N("bstr", 1), I(1), X(1), N("tag", 2), N("tag", 2), I(3)>>}

AllTrees == SmallTrees \cup LargeTrees
\* Maps of indefinite length are not read as arrays.
ClosedMaps == {s \in AllTrees \cup {<<N("map", 4)>> \o Entries4} : T("openMap") \notin Range(s)}

\* Every encoding, and every part of it that is left when it is cut off.
CutOff == UNION {{SubSeq(s, 1, n) : n \in 0..Len(s)} : s \in LargeTrees}

\* Tags with large numbers, of which there are more than can be kept.
FullTagMap == {<<N("tag", 5), I(1), N("tag", 6), N("array", 0)>>}

\* Any few tokens, whether they make sense or not.
SomeTokens ==
  {I(1), T("bad"), N("array", 1), N("array", 2), T("openArray"), Break, N("map", 1), N("bstr", 1),
   N("tag", 1)}
AnyTokens == CutOff \cup FullTagMap \cup UNION {[1..n -> SomeTokens] : n \in 0..4}
ManyTags == {<<N("tag", 5), I(1), N("tag", 6), N("tag", 1), I(1)>>}

InMode(mode, encodings) == {[tokens |-> s, mode |-> mode] : s \in encodings}

TreesInModes ==
  InMode("normal", AllTrees) \cup InMode("stringsOnly", LargeTrees) \cup InMode("mapAsArray", ClosedMaps)
NormalTrees  == InMode("normal", AllTrees)
NormalCutOff == InMode("normal", CutOff)
NormalTokens == InMode("normal", AnyTokens)
NormalTags   == InMode("normal", ManyTags)

\* For the runs of single questions.
Brief == {"VGetNext", "Enter", "Exit", "Finish"}
BriefMap == Brief \cup {"GetItemInMap", "GetItemsInMap"}
=============================================================================
