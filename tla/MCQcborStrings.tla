---------------------------- MODULE MCQcborStrings ----------------------------
(* Every input of a few tokens; the cells of a token's content tell which    *)
(* token and which cell of it they are.                                      *)
EXTENDS QcborStrings

Shapes == {<<"bytes", 0>>, <<"bytes", 1>>, <<"bytes", 2>>, <<"text", 1>>, <<"openBytes", 0>>,
           <<"openText", 0>>, <<"break", 0>>, <<"other", 0>>}

Filled(shapes) ==
  [i \in DOMAIN shapes |-> [t |-> shapes[i][1], s |-> [j \in 1..shapes[i][2] |-> 100 * i + j]]]

O == <<"openBytes", 0>>
B(n) == <<"bytes", n>>
E == <<"break", 0>>

Long == {<<O, B(1), B(2), E, B(1)>>, <<O, B(1), B(0), B(1), E>>, <<O, B(1), B(2), <<"text", 1>>, B(1)>>,
         <<B(1), O, B(1), B(1), E>>, <<O, B(1), E, O, B(1), E>>, <<O, B(0), B(1), E>>}

MCInputs == {Filled(shapes) : shapes \in UNION {[1..n -> Shapes] : n \in 1..3} \cup Long}
=============================================================================
