--------------------------- MODULE MCCsfSignature ---------------------------
(* Up to two entries of the application, one with a map for its value, in   *)
(* buffers of every size up to the shortest message, and of the longest.    *)
EXTENDS CsfSignature

Entry(label, value) == [label |-> label, value |-> value]

One == {Entry(Num(1), <<Str("text")>>), Entry(Num(1), <<Map(1), Num(1), Num(6)>>)}
Two == {Entry(Num(2), <<Num(6)>>), Entry(Num(2), <<Map(2), Num(1), Map(0), Num(4), Str("key")>>)}

MCContents == {<<>>} \cup {<<e>> : e \in One} \cup {<<e, f>> : e \in One, f \in Two}

MCLengths == (1..15) \cup {25}
=============================================================================
