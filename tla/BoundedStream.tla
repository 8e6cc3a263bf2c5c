--------------------------- MODULE BoundedStream ---------------------------
(***************************************************************************)
(* What lib/d-cbor.c promises its client: an append-only store of Capacity  *)
(* bytes in which every call is all or nothing.  A call either appears in   *)
(* out as a whole or the store is full for good.                            *)
(***************************************************************************)
EXTENDS Integers, Sequences

CONSTANTS
  Capacity,
  Calls,        \* byte sequences that can be appended
  Heads         \* byte sequences that can be put in front of earlier ones

VARIABLES out, full

vars == <<out, full>>

Init == out = <<>> /\ full = FALSE

Fits(bytes) == Len(out) + Len(bytes) <= Capacity

AppendBytes(bytes) ==
  /\ ~full
  /\ Fits(bytes)
  /\ out' = out \o bytes
  /\ UNCHANGED full

InsertHead(head, p) ==
  /\ ~full
  /\ Fits(head)
  /\ out' = SubSeq(out, 1, p) \o head \o SubSeq(out, p + 1, Len(out))
  /\ UNCHANGED full

Overflow(bytes) ==
  /\ ~full
  /\ ~Fits(bytes)
  /\ out' = <<>>
  /\ full' = TRUE

Next ==
  \/ \E bytes \in Calls : AppendBytes(bytes) \/ Overflow(bytes)
  \/ \E head \in Heads : Overflow(head) \/ \E p \in 0..Len(out) : InsertHead(head, p)

Spec == Init /\ [][Next]_vars
=============================================================================
