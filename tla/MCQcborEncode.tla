--------------------------- MODULE MCQcborEncode ---------------------------
(* Every sequence of calls into a buffer of four bytes up to the first error, *)
(* and into one of two with three calls after it.                             *)
EXTENDS QcborEncode

MCLate == 2 :> 3 @@ 4 :> 0
OneSize == 4 :> 1
=============================================================================
