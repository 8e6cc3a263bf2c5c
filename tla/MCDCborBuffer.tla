--------------------------- MODULE MCDCborBuffer ---------------------------
(* Calls of at most three bytes against a buffer of five, emulated arrays    *)
(* with a one and a two byte head.                                          *)
EXTENDS DCborBuffer

MCCalls == {AddBool(FALSE), AddMap(1), AddMappedInt(1, -25), AddMappedTstr(2, <<104>>),
            AddMappedBstr(3, <<>>), <<>>}

MCElements == {1, 24}
=============================================================================
