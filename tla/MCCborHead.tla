----------------------------- MODULE MCCborHead -----------------------------
(* Every run of ones, alone and with one more bit, every number below 64,   *)
(* and the complements: all boundaries of the head's five forms.            *)
EXTENDS CborHead

Runs == {a..b : a \in 0..63, b \in 0..63}

MCInts ==
  LET some == Runs \cup {r \cup {b} : r \in {0..7, 0..15, 0..31, 8..15, {16}, {32}, {62}}, b \in 0..63}
              \cup SUBSET (0..5)
  IN  some \cup {Complement(w) : w \in some}

MCFloats ==
  {[bits |-> r, size |-> 8] : r \in Runs}
    \cup {[bits |-> r \cap (0..31), size |-> 4] : r \in Runs}
    \cup {[bits |-> r \cap (0..15), size |-> 2] : r \in Runs}
=============================================================================
