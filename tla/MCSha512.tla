------------------------------- MODULE MCSha512 -------------------------------
(* Blocks of five bytes, the length in the last; the counter of one byte     *)
(* comes round after 32 bytes of message.  One message tells its bytes       *)
(* apart, two look like padding.                                             *)
EXTENDS Sha512

MCMessages == {[i \in 1..22 |-> i], [i \in 1..12 |-> 128], [i \in 1..36 |-> 0]}
=============================================================================
