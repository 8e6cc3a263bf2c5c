---------------------------- MODULE NestedItems ----------------------------
(***************************************************************************)
(* What an encoder of nested CBOR items promises: the items of an open      *)
(* array, map or wrapped byte string are collected apart, and closing it    *)
(* puts one head in front of them and the whole, as one item, in the level  *)
(* around it.  Nothing is inserted into bytes already written, no position  *)
(* is remembered, and no level is left unless it was opened.  The encoding  *)
(* may break down at any time, and then for good.                           *)
(***************************************************************************)
EXTENDS Naturals, SequencesExt

CONSTANT ItemHead(_, _)   \* the bytes of a head: its major type and argument

VARIABLES levels,     \* open levels, outermost first: [major, count, items]
          broken,     \* the encoding failed
          delivered   \* what the last call returned as finished output, or <<>>

vars == <<levels, broken, delivered>>

Init ==
  /\ levels = <<[major |-> "array", count |-> 0, items |-> <<>>]>>
  /\ broken = FALSE
  /\ delivered = <<>>

Extended(lv, n, bytes) ==
  [lv EXCEPT ![Len(lv)].count = @ + n, ![Len(lv)].items = @ \o bytes]

\* Bytes that are one more item of the current level, or none (a tag).
Add ==
  /\ \E n \in {0, 1} :
       /\ Len(levels') = Len(levels)
       /\ LET more == SubSeq(Last(levels').items, Len(Last(levels).items) + 1,
                             Len(Last(levels').items))
          IN  levels' = Extended(levels, n, more)
  /\ UNCHANGED broken
  /\ delivered' = <<>>

\* A new level, one item of the level around it; marker is the head of an
\* indefinite length, which is written at once.
Open(major, marker) ==
  /\ levels' = Append(Extended(levels, 1, marker),
                      [major |-> major, count |-> 0, items |-> <<>>])
  /\ UNCHANGED broken
  /\ delivered' = <<>>

Argument(level) ==
  CASE level.major = "array" -> level.count
    [] level.major = "map"   -> level.count \div 2
    [] level.major = "bstr"  -> Len(level.items)

Enclosed(level) == ItemHead(level.major, Argument(level)) \o level.items

Close ==
  /\ Len(levels) > 1
  /\ Last(levels).major \in {"array", "map", "bstr"}
  /\ levels' = Extended(Front(levels), 0, Enclosed(Last(levels)))
  /\ UNCHANGED broken
  /\ delivered' = <<>>

CloseIndefinite ==
  /\ Len(levels) > 1
  /\ Last(levels).major \in {"openArray", "openMap"}
  /\ levels' = Extended(Front(levels), 0, Last(levels).items \o ItemHead("break", 0))
  /\ UNCHANGED broken
  /\ delivered' = <<>>

\* As if the innermost level had never been opened.
Cancel ==
  /\ Len(levels) > 1
  /\ Last(levels).major = "bstr"
  /\ Last(levels).items = <<>>
  /\ levels' = [Front(levels) EXCEPT ![Len(levels) - 1].count = @ - 1]
  /\ UNCHANGED broken
  /\ delivered' = <<>>

Finish ==
  /\ UNCHANGED <<levels, broken>>
  /\ delivered' \in {<<>>} \cup (IF Len(levels) = 1 THEN {levels[1].items} ELSE {})

Break ==
  /\ broken' = TRUE
  /\ delivered' = <<>>

Next ==
  \/ ~broken /\ \/ Add \/ Close \/ CloseIndefinite \/ Cancel \/ Finish
                \/ \E major \in {"array", "map", "bstr"} : Open(major, <<>>)
                \/ \E major \in {"openArray", "openMap"} : Open(major, ItemHead(major, 0))
  \/ Break

Spec == Init /\ [][Next]_vars
=============================================================================
