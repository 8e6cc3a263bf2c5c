------------------------------- MODULE MCEd25519 -------------------------------
(* A curve over the numbers modulo 2^15 - 19, with the code's fold of 19 and    *)
(* a base point of order 4127 = 2^12 + 31.                                      *)
EXTENDS Ed25519

Seq1 == INSTANCE SequencesExt

MCLoadAt     == <<0, 9>>
MCFoldDigits == <<1, -2>>

\* 64 bytes that depend on all strings and their order.
MCHash(strings) ==
  <<Seq1!FoldLeft(LAMBDA h, s : (h * 9301 + s * 4523 + 9) % 65536, 1, strings),
    Seq1!FoldLeft(LAMBDA h, s : (h * 6121 + s * 7213 + 5) % 65536, 2, strings)>>

\* Around 0, the limbs' sizes, the prime and the highest bit.
MCSamples == {0, 1, 19, 127, 128, 255, 256, 511, 16374, 16375, 16384, 20008, 32748, 32749, 32767, 65535}
=============================================================================
