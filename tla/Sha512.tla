-------------------------------- MODULE Sha512 --------------------------------
(***************************************************************************)
(* The streaming part of ed25519/src/sha512.c: a message arrives in pieces, *)
(* whole blocks are compressed, from the input or from the buffer, and the  *)
(* rest is padded at the end.  The compression is not looked into: fed is   *)
(* the sequence of all bytes it was given, of which the state is a          *)
(* function.  The sizes are 128, 112 and 120 in the code.                   *)
(***************************************************************************)
EXTENDS Integers, Sequences

CONSTANTS
  BlockSize,  \* bytes compressed at a time
  PadEnd,     \* where the length begins, its upper half always 0
  LengthAt,   \* where the lower half begins
  LengthLimit, \* where the counter of bits comes round: 2^64
  Messages    \* messages, which the caller cuts into pieces as it likes

ASSUME SizesAssumption ==
  /\ BlockSize \in Nat /\ PadEnd \in Nat /\ LengthAt \in Nat
  /\ 0 < PadEnd /\ PadEnd <= LengthAt /\ LengthAt < BlockSize
  /\ LengthLimit \in Nat /\ 8 * BlockSize <= LengthLimit
ASSUME MessagesAssumption == \A m \in Messages : m \in Seq(0..255)

VARIABLES
  length, curlen, buf, \* sha512_context
  fed,     \* the bytes given to sha512_compress()
  in,      \* the rest of the piece in sha512_update()
  pc,      \* "none", "ready", "update" in its loop, or "done"
  message,
  stream,  \* history: what of it was passed so far
  ret      \* what the last call returned

context == <<length, curlen, buf, fed>>
vars    == <<context, in, pc, message, stream, ret>>

LengthBytes == BlockSize - LengthAt

\* Addition of two unsigned integers.
Plus(a, b) == IF a + b < LengthLimit THEN a + b ELSE a + b - LengthLimit

Buffer == [0..(BlockSize - 1) -> 0..255]

\* The first n cells of the buffer, and the buffer with s from off on.
Front(b, n)     == [i \in 1..n |-> b[i - 1]]
Put(b, off, s) ==
  [i \in 0..(BlockSize - 1) |-> IF i \in off..(off + Len(s) - 1) THEN s[i - off + 1] ELSE b[i]]

Zeros(n) == [i \in 1..n |-> 0]

\* STORE64H
BigEndian(n) == [i \in 1..LengthBytes |-> (n \div 256 ^ (LengthBytes - i)) % 256]

-----------------------------------------------------------------------------
\* The callers' contexts are local variables: the buffer is not initialised.
Fresh == {[i \in 0..(BlockSize - 1) |-> garbage] : garbage \in {0, 255}}

Init ==
  /\ pc = "none" /\ message \in Messages /\ in = <<>> /\ stream = <<>> /\ ret = 0 /\ fed = <<>>
  /\ length = 0 /\ curlen = 0 /\ buf \in Fresh

sha512_init ==
  /\ pc \in {"none", "ready", "done"}
  /\ pc' = "ready" /\ ret' = 0
  /\ length' = 0 /\ curlen' = 0 /\ fed' = <<>> /\ buf' \in Fresh
  /\ message' \in Messages /\ stream' = <<>>
  /\ in' = in

sha512_update(piece) ==
  IF curlen > BlockSize
  THEN ret' = 1 /\ UNCHANGED <<pc, in>>
  ELSE pc' = "update" /\ in' = piece /\ UNCHANGED ret

\* A call with the next bytes of the message.
Update ==
  /\ pc = "ready"
  /\ \E end \in Len(stream)..Len(message) :
       /\ sha512_update(SubSeq(message, Len(stream) + 1, end))
       /\ stream' = SubSeq(message, 1, end)
  /\ UNCHANGED <<context, message>>

\* Nothing to hash, as NULL.
UpdateNull ==
  /\ pc = "ready"
  /\ ret' = 1
  /\ UNCHANGED <<context, in, pc, message, stream>>

-----------------------------------------------------------------------------
(* The loop                                                                 *)

WholeBlock == curlen = 0 /\ Len(in) >= BlockSize

Rest(n) == SubSeq(in, n + 1, Len(in))

\* Mutant: a whole block is taken from the input while the buffer has bytes.
CompressInputAhead ==
  /\ pc = "update" /\ Len(in) >= BlockSize
  /\ fed' = fed \o SubSeq(in, 1, BlockSize)
  /\ length' = Plus(length, BlockSize * 8)
  /\ in' = Rest(BlockSize)
  /\ UNCHANGED <<curlen, buf, pc, message, stream, ret>>

CompressInput ==
  /\ pc = "update" /\ WholeBlock
  /\ fed' = fed \o SubSeq(in, 1, BlockSize)
  /\ length' = Plus(length, BlockSize * 8)
  /\ in' = Rest(BlockSize)
  /\ UNCHANGED <<curlen, buf, pc, message, stream, ret>>

\* Mutant: the last byte of the buffer is never filled.
TakenShort == IF Len(in) < BlockSize - curlen - 1 THEN Len(in) ELSE BlockSize - curlen - 1

Taken == IF Len(in) < BlockSize - curlen THEN Len(in) ELSE BlockSize - curlen

FillBuffer ==
  /\ pc = "update" /\ in # <<>> /\ ~WholeBlock
  /\ buf' = Put(buf, curlen, SubSeq(in, 1, Taken))
  /\ in' = Rest(Taken)
  /\ IF curlen + Taken = BlockSize
     THEN /\ fed' = fed \o Front(buf', BlockSize)
          /\ length' = Plus(length, 8 * BlockSize)
          /\ curlen' = 0
     ELSE curlen' = curlen + Taken /\ UNCHANGED <<fed, length>>
  /\ UNCHANGED <<pc, message, stream, ret>>

UpdateReturns ==
  /\ pc = "update" /\ in = <<>>
  /\ pc' = "ready" /\ ret' = 0
  /\ UNCHANGED <<context, in, message, stream>>

UpdateLoop == CompressInput \/ FillBuffer \/ UpdateReturns

-----------------------------------------------------------------------------
\* The buffer with the first padding byte, and with zeros from off to end.
Marked(b, n)        == Put(b, n, <<128>>)
ZeroFrom(b, n, end) == Put(b, n, Zeros(end - n))

\* Mutant: the test for a second block looks at the lower half of the length.
\* What does not fit is filled and compressed, and a new buffer begun.
SpilledLate(b, n) ==
  IF n > LengthAt THEN [fed |-> Front(ZeroFrom(b, n, BlockSize), BlockSize),
                        buf |-> ZeroFrom(b, n, BlockSize), n |-> 0]
  ELSE [fed |-> <<>>, buf |-> b, n |-> n]

Spilled(b, n) ==
  IF n > PadEnd THEN [fed |-> Front(ZeroFrom(b, n, BlockSize), BlockSize),
                      buf |-> ZeroFrom(b, n, BlockSize), n |-> 0]
  ELSE [fed |-> <<>>, buf |-> b, n |-> n]

LastBlock(b, n, bits) == Put(ZeroFrom(b, n, LengthAt), LengthAt, BigEndian(bits))

sha512_final ==
  /\ pc = "ready"
  /\ IF curlen >= BlockSize
     THEN ret' = 1 /\ UNCHANGED <<context, pc>>
     ELSE \E spilled \in {Spilled(Marked(buf, curlen), curlen + 1)} :
            /\ length' = Plus(length, curlen * 8)
            /\ buf' = LastBlock(spilled.buf, spilled.n, length')
            /\ fed' = fed \o spilled.fed \o Front(buf', BlockSize)
            /\ curlen' = LengthAt
            /\ pc' = "done" /\ ret' = 0
  /\ UNCHANGED <<in, message, stream>>

Next ==
  sha512_init \/ Update \/ UpdateNull \/ UpdateLoop \/ sha512_final

Spec == Init /\ [][Next]_vars

\* A call runs on until it returns.
FairSpec == Spec /\ WF_vars(UpdateLoop)

-----------------------------------------------------------------------------
(* Properties                                                               *)

\* r is n modulo b.
IsMod(r, n, b) == r \in 0..(b - 1) /\ \E q \in 0..n : n = q * b + r

\* However a message is cut into pieces: what was compressed, what is in the
\* buffer and what is left of the piece are the message, in this order, whole
\* blocks are compressed and the counter tells how much.
NothingLost ==
  pc \in {"ready", "update"} =>
    /\ fed \o Front(buf, curlen) \o in = stream
    /\ IsMod(0, Len(fed), BlockSize) /\ IsMod(length, 8 * Len(fed), LengthLimit)

\* What was compressed in the end is the message and its padding: a bit, the
\* fewest zeros that leave room for the length, and the length in bits.
PaddedRight ==
  pc = "done" =>
    /\ IsMod(length, 8 * Len(stream), LengthLimit)
    /\ \E z \in 0..(BlockSize - 1) :
         /\ IsMod(0, Len(stream) + 1 + z + (BlockSize - PadEnd), BlockSize)
         /\ fed = stream \o <<128>> \o Zeros(z + (LengthAt - PadEnd)) \o BigEndian(length)

\* sha512_update() returns.
UpdateEnds == pc = "update" ~> pc = "ready"
=============================================================================
