---------------------------- MODULE DCborBuffer ----------------------------
(***************************************************************************)
(* The output buffer of lib/d-cbor.c: CBOR_BUFFER, putByte() and the calls  *)
(* built on it.  A step is one run of putByte(), or the straight-line code  *)
(* between two of them, so a call is seen in every half-written state.      *)
(*                                                                          *)
(* A call is the sequence of bytes it hands to putByte() (DCborItems); k of *)
(* them have been handed over.  insertArray() also remembers its locals     *)
(* savePos and lastPos while its array head is being put.                   *)
(*                                                                          *)
(* stream is a history variable: every byte the client has asked for, in    *)
(* the order a buffer without limit would hold them.                        *)
(***************************************************************************)
EXTENDS DCborItems

CONSTANTS
  Capacity,     \* the length the client gives its buffer
  Calls,        \* the byte sequences of the calls the client makes
  Elements,     \* the element counts it passes to insertArray()
  Uninit,       \* content of memory nothing was stored in
  MaxStream,    \* bound: no new call once this much was asked for
  MaxSaves      \* bound: nesting depth of emulated indefinite arrays

ASSUME CapacityAssumption == Capacity \in Nat \ {0}
ASSUME CallsAssumption    == Calls \subseteq Seq(Byte)
\* The parameter of insertArray() is an int.
ASSUME ElementsAssumption == \A n \in Elements : n \in Nat /\ n \div 65536 < 32768
ASSUME BoundsAssumption   == MaxStream \in Nat /\ MaxSaves \in Nat

VARIABLES
  length,   \* CBOR_BUFFER.length: Capacity, or 0 after an overflow
  pos,      \* CBOR_BUFFER.pos
  data,     \* CBOR_BUFFER.data
  call,     \* the bytes of the current or last call
  k,        \* how many of them putByte() has been given
  ins,      \* locals of insertArray(), or NoInsert
  saves,    \* values of pos the client saved for insertArray(), innermost last
  stream    \* history: all bytes asked for

buffer == <<length, pos, data>>

vars == <<length, pos, data, call, k, ins, saves, stream>>

NoInsert == [savePos |-> -1, lastPos |-> -1]

Returned == k = Len(call) /\ ins = NoInsert

-----------------------------------------------------------------------------
Init ==
  /\ length = Capacity
  /\ pos = 0
  /\ data = [i \in 0..(Capacity - 1) |-> Uninit]
  /\ call = <<>>
  /\ k = 0
  /\ ins = NoInsert
  /\ saves = <<>>
  /\ stream = <<>>

\* The client calls an add...() function.
Add(bytes) ==
  /\ Returned
  /\ Len(stream) <= MaxStream
  /\ call' = bytes
  /\ k' = 0
  /\ stream' = stream \o bytes
  /\ UNCHANGED <<buffer, ins, saves>>

\* Mutants of PutByte: the overflow is noticed one byte late; the byte is
\* dropped silently; the flag is taken back by the next byte.
PutByteLate ==
  /\ k < Len(call)
  /\ k' = k + 1
  /\ \/ /\ pos > length
        /\ length' = 0
        /\ UNCHANGED <<pos, data>>
     \/ /\ pos <= length
        /\ data' = [data EXCEPT ![pos] = call[k + 1]]
        /\ pos' = pos + 1
        /\ UNCHANGED length
  /\ UNCHANGED <<call, ins, saves, stream>>

PutByteSilent ==
  /\ k < Len(call)
  /\ k' = k + 1
  /\ \/ /\ pos >= length
        /\ UNCHANGED <<pos, data>>
     \/ /\ pos < length
        /\ data' = [data EXCEPT ![pos] = call[k + 1]]
        /\ pos' = pos + 1
  /\ UNCHANGED <<length, call, ins, saves, stream>>

PutByteForget ==
  /\ k < Len(call)
  /\ k' = k + 1
  /\ \/ /\ pos >= length
        /\ length' = IF length = 0 THEN Capacity ELSE 0
        /\ UNCHANGED <<pos, data>>
     \/ /\ pos < length
        /\ data' = [data EXCEPT ![pos] = call[k + 1]]
        /\ pos' = pos + 1
        /\ UNCHANGED length
  /\ UNCHANGED <<call, ins, saves, stream>>

\* putByte() gets the next byte of the running call.
PutByte ==
  /\ k < Len(call)
  /\ k' = k + 1
  /\ \/ /\ pos >= length
        /\ length' = 0
        /\ UNCHANGED <<pos, data>>
     \/ /\ pos < length
        /\ data' = [data EXCEPT ![pos] = call[k + 1]]
        /\ pos' = pos + 1
        /\ UNCHANGED length
  /\ UNCHANGED <<call, ins, saves, stream>>

\* int savePos = cborBuffer.pos;
SavePos ==
  /\ Returned
  /\ Len(saves) < MaxSaves
  /\ saves' = Append(saves, pos)
  /\ UNCHANGED <<buffer, call, k, ins, stream>>

\* Mutant of InsertArray: the head's length is measured from the saved position.
InsertArrayStale(elements) ==
  /\ Returned
  /\ Len(stream) <= MaxStream
  /\ saves # <<>>
  /\ ins' = [savePos |-> saves[Len(saves)], lastPos |-> saves[Len(saves)]]
  /\ saves' = SubSeq(saves, 1, Len(saves) - 1)
  /\ call' = AddArray(elements)
  /\ k' = 0
  /\ stream' = stream \o AddArray(elements)
  /\ UNCHANGED buffer

\* insertArray() up to the puts of addArray().
InsertArray(elements) ==
  /\ Returned
  /\ Len(stream) <= MaxStream
  /\ saves # <<>>
  /\ ins' = [savePos |-> saves[Len(saves)], lastPos |-> pos]
  /\ saves' = SubSeq(saves, 1, Len(saves) - 1)
  /\ call' = AddArray(elements)
  /\ k' = 0
  /\ stream' = stream \o AddArray(elements)
  /\ UNCHANGED buffer

\* Mutants of MoveHead: the head goes one byte before the saved position; the
\* elements are moved without making room for all of the head.
MoveHeadEarly(d, savePos, lastPos, end) ==
  LET q == end - lastPos
  IN  [i \in DOMAIN d |->
         IF i \in (savePos - 1)..(savePos + q - 2) THEN d[lastPos + (i - savePos + 1)]
         ELSE d[i]]

MoveHeadShort(d, savePos, lastPos, end) ==
  LET q == end - lastPos
  IN  [i \in DOMAIN d |->
         IF i \in savePos..(savePos + q - 1) THEN d[lastPos + (i - savePos)]
         ELSE IF i \in (savePos + 1)..(end - 1) THEN d[i - 1]
         ELSE d[i]]

\* The three memmove()s: the q bytes from lastPos on go in front of those from
\* savePos on.
MoveHead(d, savePos, lastPos, end) ==
  LET q == end - lastPos
  IN  [i \in DOMAIN d |->
         IF i \in savePos..(savePos + q - 1) THEN d[lastPos + (i - savePos)]
         ELSE IF i \in (savePos + q)..(end - 1) THEN d[i - q]
         ELSE d[i]]

\* Putting a head that ends the stream s in front of what follows savePos.
MoveStream(s, savePos, head) ==
  SubSeq(s, 1, savePos) \o head \o SubSeq(s, savePos + 1, Len(s) - Len(head))

\* insertArray() after addArray() returned.
InsertArrayMove ==
  /\ k = Len(call)
  /\ ins # NoInsert
  /\ data' = IF length # 0 THEN MoveHead(data, ins.savePos, ins.lastPos, pos) ELSE data
  /\ ins' = NoInsert
  /\ stream' = MoveStream(stream, ins.savePos, call)
  /\ UNCHANGED <<length, pos, call, k, saves>>

Next ==
  \/ \E bytes \in Calls : Add(bytes)
  \/ PutByte
  \/ SavePos
  \/ \E elements \in Elements : InsertArray(elements)
  \/ InsertArrayMove

Spec == Init /\ [][Next]_vars

-----------------------------------------------------------------------------
(* Properties                                                              *)

TypeOK ==
  /\ length \in {0, Capacity}
  /\ pos \in 0..Capacity
  /\ data \in [0..(Capacity - 1) -> Byte \cup {Uninit}]
  /\ call \in Seq(Byte)
  /\ k \in 0..Len(call)
  /\ ins \in [savePos : Nat, lastPos : Nat] \cup {NoInsert}
  /\ saves \in Seq(Nat)
  /\ stream \in Seq(Byte)

\* Whenever a call has returned and length is not 0, the buffer holds exactly
\* the bytes asked for, arrays put in front of their elements included: the
\* client may use data[0..pos-1] after one look at length at the very end.
CompleteOrFlagged ==
  Returned /\ length # 0 =>
    /\ Len(stream) = pos
    /\ \A i \in 0..(pos - 1) : data[i] = stream[i + 1]

\* The overflow indication is exact: it is there once more was asked for than
\* fits, and a stream that fills the buffer to the last byte does not set it.
OverflowReported ==
  Returned => (length = 0 <=> Len(stream) > Capacity)

\* After an overflow no call touches the buffer again, so that no later and
\* shorter item, nor insertArray(), can hide the loss.
OverflowIsFinal == [][length = 0 => UNCHANGED buffer]_vars

\* The memmove()s of insertArray() stay inside its 5 byte temporary and inside
\* data[0..pos-1], whatever was saved, added and inserted before.
MovesInBounds ==
  k = Len(call) /\ ins # NoInsert /\ length # 0 =>
    LET q == pos - ins.lastPos
    IN  /\ q \in 1..5
        /\ ins.savePos \in 0..ins.lastPos
        /\ q = Len(call)

\* A saved position is where the client left it: the bytes in front of it are
\* never moved by an insertArray() that uses a later one.
SavedBytesStay ==
  [][\A p \in 1..Len(saves') : \A i \in 0..(saves'[p] - 1) :
       i < pos => data'[i] = data[i]]_vars

\* The client's view: what completed calls have put into the buffer.
Committed ==
  LET n == IF Returned THEN pos ELSE pos - k
  IN  IF length = 0 THEN <<>> ELSE [i \in 1..n |-> data[i - 1]]

Stream == INSTANCE BoundedStream
  WITH Heads <- {AddArray(n) : n \in Elements},
       out   <- Committed,
       full  <- (length = 0)

\* Byte by byte, the code implements the all-or-nothing store.
ImplementsStream == Stream!Spec
=============================================================================
