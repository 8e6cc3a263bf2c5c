------------------------------ MODULE CborTree ------------------------------
(***************************************************************************)
(* Encoded CBOR as a tree, read off its grammar.  An encoding is a sequence *)
(* of tokens, one for each head with the bytes of its string:               *)
(*                                                                          *)
(*   [t |-> "int" | "text" | "simple" | "bad", n]   an item of one token    *)
(*   [t |-> "array" | "map", n]       the head of n elements or entries     *)
(*   [t |-> "openArray" | "openMap", n]  indefinite length, up to a "break" *)
(*   [t |-> "bstr", n]                a byte string; its content is the n   *)
(*                                    tokens that follow                    *)
(*   [t |-> "tag", n]                 a tag number, part of the item after  *)
(*                                                                          *)
(* Offsets count tokens from 0.  A visit is one item of the pre-order walk: *)
(* with its label and tags it begins at start, its own head is at at, its   *)
(* content from body up to bodyEnd, and the item behind it at end.          *)
(***************************************************************************)
EXTENDS Integers, Sequences, SequencesExt

Malformed == -1

Closed == {"array", "map"}
Open   == {"openArray", "openMap"}

Token(s, p) == s[p + 1]
ItemsPerEntry(token) == IF token.t \in {"map", "openMap"} THEN 2 ELSE 1

RECURSIVE After(_, _, _), AfterBreak(_, _, _)

\* The offset behind n items that begin at p, or Malformed.
After(s, p, n) ==
  IF n = 0 \/ p = Malformed THEN p
  ELSE IF p >= Len(s) THEN Malformed
  ELSE LET token == Token(s, p) IN
       CASE token.t = "tag"   -> After(s, p + 1, n)
         [] token.t = "break" -> Malformed
         [] token.t = "bstr"  -> IF p + 1 + token.n > Len(s) THEN Malformed
                                 ELSE After(s, p + 1 + token.n, n - 1)
         [] token.t \in Closed -> After(s, After(s, p + 1, token.n * ItemsPerEntry(token)), n - 1)
         [] token.t \in Open   -> After(s, AfterBreak(s, p + 1, ItemsPerEntry(token)), n - 1)
         [] OTHER              -> After(s, p + 1, n - 1)

\* The offset behind the break that ends entries of k items each.
AfterBreak(s, p, k) ==
  IF p = Malformed \/ p >= Len(s) THEN Malformed
  ELSE IF Token(s, p).t = "break" THEN p + 1
  ELSE AfterBreak(s, After(s, p, k), k)

\* Any number of complete items, the CBOR sequence of RFC 8742.
WellFormed(s) == \E n \in 0..Len(s) : After(s, 0, n) = Len(s)

RECURSIVE PastTags(_, _), Entries(_, _, _, _), Walk(_, _, _, _)

PastTags(s, p) == IF Token(s, p).t = "tag" THEN PastTags(s, p + 1) ELSE p

NoLabel == <<"none", 0>>
LabelOf(token) == <<token.t, token.n>>

\* The item whose tags and head begin at q, in an entry that begins at p.
Visit(s, p, q, label, depth) ==
  LET at    == PastTags(s, q)
      token == Token(s, at)
      end   == After(s, at, 1)
  IN  [start |-> p, tagged |-> at > q, at |-> at, end |-> end, label |-> label, depth |-> depth,
       type    |-> CASE token.t = "openArray" -> "array"
                     [] token.t = "openMap"   -> "map"
                     [] OTHER                 -> token.t,
       body    |-> at + 1,
       bodyEnd |-> IF token.t \in Open THEN end - 1 ELSE end]

\* The items from p up to end, each with its label if they are entries of a map.
Entries(s, p, end, visitOf) ==
  IF p >= end THEN <<>>
  ELSE LET v == IF visitOf.labelled
                THEN Visit(s, p, After(s, p, 1), LabelOf(Token(s, PastTags(s, p))), visitOf.depth)
                ELSE Visit(s, p, p, NoLabel, visitOf.depth)
       IN  <<v>> \o Entries(s, v.end, end, visitOf)

Content(s, v, labels) ==
  Entries(s, v.body, v.bodyEnd,
          [labelled |-> labels /\ v.type = "map", depth |-> v.depth + 1])

TopLevel(s) == Entries(s, 0, Len(s), [labelled |-> FALSE, depth |-> 0])

\* Entries and, behind each of a type in into, what is in it.
Walk(s, entries, labels, into) ==
  IF entries = <<>> THEN <<>>
  ELSE LET v == Head(entries)
       IN  <<v>> \o (IF v.type \in into THEN Walk(s, Content(s, v, labels), labels, into) ELSE <<>>)
                 \o Walk(s, Tail(entries), labels, into)

Outside == -1

\* What can be a scope of the walk: the whole encoding, and what is inside of each item, by
\* the offset of the item; its entries, and the walk of it, for which a byte string is one
\* item whatever it holds.
ScopesOf(s, labels) ==
  LET all == Walk(s, TopLevel(s), labels, Closed \cup {"bstr"})
      scope(type, end, entries) ==
        [type |-> type, end |-> end, entries |-> entries,
         walk |-> Walk(s, entries, labels, Closed)]
      visit(p) == all[CHOOSE i \in DOMAIN all : all[i].at = p]
  IN  [p \in {Outside} \cup {all[i].at : i \in DOMAIN all} |->
         [open |-> p # Outside /\ Token(s, p).t \in Open] @@
         IF p = Outside THEN scope("sequence", Len(s), TopLevel(s))
         ELSE scope(visit(p).type, visit(p).end, Content(s, visit(p), labels))]
=============================================================================
