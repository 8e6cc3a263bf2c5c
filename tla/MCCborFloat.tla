---------------------------- MODULE MCCborFloat ----------------------------
(* Every exponent at which a format begins or ends, with its neighbours,    *)
(* against significands that end at, before and after every boundary.       *)
EXTENDS CborFloat

Around(x, n) == (x - n)..(x + n)

DoubleExponents ==
  {0, 1, 2, 1023, 2045, 2046, 2047}
    \cup (872..876) \cup {885} \cup Around(1023 - 126, 2)
    \cup (997..1011) \cup Around(1023 + 15, 1) \cup Around(1023 + 127, 1)

DoubleSignificands ==
  {{}, {0}, {51}, {50}, {0, 51}} \cup {b..51 : b \in 0..51} \cup {{b} : b \in 20..51}
    \cup {{b, 51} : b \in 25..50} \cup {{41, 43}, {28, 30}, {29, 42}}

MCDoubles ==
  {Pack(s, e, g, Double) : s \in BOOLEAN, e \in DoubleExponents, g \in DoubleSignificands}

SingleExponents == {0, 1, 2, 127, 253, 254, 255} \cup (100..114) \cup Around(127 + 15, 2)

SingleSignificands == {{}, {0}, {22}, {0, 22}} \cup {b..22 : b \in 0..22} \cup {{b} : b \in 0..22}

MCSingles ==
  {Pack(s, e, g, Single) : s \in BOOLEAN, e \in SingleExponents, g \in SingleSignificands}
=============================================================================
