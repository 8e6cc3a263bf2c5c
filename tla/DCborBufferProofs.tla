------------------------- MODULE DCborBufferProofs -------------------------
(***************************************************************************)
(* For every Capacity, every set of calls and every element count:         *)
(* DCborBuffer keeps its type, a finished stream is complete or flagged,    *)
(* the flag is exact, the memmove()s of insertArray() are in bounds, the    *)
(* bytes in front of a saved position stay where they are, and the          *)
(* byte-by-byte code of lib/d-cbor.c implements the all-or-nothing store of *)
(* BoundedStream.                                                           *)
(***************************************************************************)
EXTENDS DCborBuffer, SequenceTheorems, TLAPS

(***************************************************************************)
(* The inductive invariant.  CompleteOrFlagged speaks of calls that have    *)
(* returned; a step needs to know how far a running call has got, so        *)
(* Progress relates buffer, running call and stream in every state.         *)
(***************************************************************************)
Progress ==
  length # 0 =>
    /\ Len(stream) = pos - k + Len(call)
    /\ \A i \in 0..(pos - 1) : data[i] = stream[i + 1]
    /\ k <= pos
    /\ \A i \in (k + 1)..Len(call) : call[i] = stream[pos - k + i]

Overflowed == length = 0 => Len(stream) > Capacity

SavedInside ==
  /\ pos <= Len(stream)
  /\ \A p \in 1..Len(saves) : saves[p] <= pos

Inserting ==
  ins # NoInsert =>
    /\ ins.savePos <= ins.lastPos
    /\ ins.savePos <= Len(stream) - Len(call)
    /\ Len(call) \in 1..5
    /\ length # 0 =>
         /\ ins.lastPos = pos - k
         /\ \A i \in 1..Len(call) : call[i] = stream[ins.lastPos + i]

IInv == TypeOK /\ Progress /\ Overflowed /\ SavedInside /\ Inserting

-----------------------------------------------------------------------------
\* The array head of insertArray() is one to five bytes: the element count is an
\* int, so encodeTagAndN() never needs its eight byte form.
LEMMA ArrayHead ==
  ASSUME NEW n \in Elements
  PROVE  AddArray(n) \in Seq(Byte) /\ Len(AddArray(n)) \in 1..5
<1>1. n \in Nat /\ n \div 65536 < 32768
  BY ElementsAssumption
<1>2. ArgumentLength(n) \in {0, 1, 2, 4} /\ (ArgumentLength(n) = 0 => n <= 23)
  BY <1>1 DEF ArgumentLength
<1>3. MT_ARRAY + Modifier(n) \in Byte
  BY <1>1, <1>2 DEF Modifier, Byte, MT_ARRAY
<1>4. BigEndian(n, ArgumentLength(n)) \in Seq(Byte)
      /\ Len(BigEndian(n, ArgumentLength(n))) = ArgumentLength(n)
  <2> DEFINE len == ArgumentLength(n)
  <2>1. len \in Nat /\ \A i \in 1..len : len - i \in 0..3
    BY <1>2
  <2>2. 256 ^ 0 = 1 /\ 256 ^ 1 = 256 /\ 256 ^ 2 = 65536 /\ 256 ^ 3 = 16777216
    BY SMT
  <2>3. \A m \in 0..3 : 256 ^ m \in Nat \ {0}
    <3>1. TAKE m \in 0..3
    <3>2. CASE m = 0
      BY <2>2, <3>2
    <3>3. CASE m = 1
      BY <2>2, <3>3
    <3>4. CASE m = 2
      BY <2>2, <3>4
    <3>5. CASE m = 3
      BY <2>2, <3>5
    <3> QED
      BY <3>2, <3>3, <3>4, <3>5
  <2>4. \A d \in Nat \ {0} : (n \div d) % 256 \in Byte
    BY <1>1 DEF Byte
  <2>5. ASSUME NEW i \in 1..len PROVE (n \div 256 ^ (len - i)) % 256 \in Byte
    <3>1. 256 ^ (len - i) \in Nat \ {0}
      BY <2>1, <2>3
    <3> QED
      BY ONLY <2>4, <3>1
  <2>6. BigEndian(n, len) \in [1..len -> Byte]
    BY <2>5 DEF BigEndian
  <2> QED
    BY <2>1, <2>6
<1> QED
  BY <1>2, <1>3, <1>4 DEF AddArray, EncodeTagAndN, EncodeTagAndValue

-----------------------------------------------------------------------------
LEMMA InitInvariant == Init => IInv
<1> SUFFICES ASSUME Init PROVE IInv
  OBVIOUS
<1> USE CapacityAssumption DEF Init
<1>1. TypeOK
  BY DEF TypeOK
<1>2. Progress /\ Overflowed /\ SavedInside /\ Inserting
  BY DEF Progress, Overflowed, SavedInside, Inserting
<1> QED
  BY <1>1, <1>2 DEF IInv

\* The bytes of a call stand behind those of the stream so far.
LEMMA AppendedBytes ==
  ASSUME NEW s \in Seq(Byte), NEW t \in Seq(Byte), NEW n, n = Len(s)
  PROVE  \A i \in 1..Len(t) : t[i] = (s \o t)[n + i]
OBVIOUS

\* A call begins: the stream grows by exactly the bytes that are still to be put.
LEMMA BeginCall ==
  ASSUME IInv, Returned, NEW bytes \in Seq(Byte),
         call' = bytes, k' = 0, stream' = stream \o bytes, UNCHANGED buffer
  PROVE  /\ call' \in Seq(Byte) /\ k' \in 0..Len(call') /\ stream' \in Seq(Byte)
         /\ Progress'
         /\ Overflowed'
         /\ pos' <= Len(stream)
         /\ Len(stream') = Len(stream) + Len(bytes)
         /\ length # 0 => \A i \in 1..Len(bytes) : bytes[i] = stream'[pos + i]
<1> USE DEF IInv, TypeOK, buffer
<1>1. call' \in Seq(Byte) /\ k' \in 0..Len(call') /\ stream' \in Seq(Byte)
  OBVIOUS
<1>2. Len(stream') = Len(stream) + Len(bytes)
  OBVIOUS
<1>3. length # 0 => \A i \in 1..Len(bytes) : bytes[i] = stream'[pos + i]
  <2>1. length # 0 => Len(stream) = pos
    BY DEF Progress, Returned
  <2>2. stream \in Seq(Byte) /\ stream' = stream \o bytes
    OBVIOUS
  <2> HIDE DEF IInv, TypeOK, buffer
  <2> QED
    BY <2>1, <2>2, AppendedBytes
<1>4. Progress'
  <2> SUFFICES ASSUME length' # 0
               PROVE  /\ Len(stream') = pos' - k' + Len(call')
                      /\ \A i \in 0..(pos' - 1) : data'[i] = stream'[i + 1]
                      /\ k' <= pos'
                      /\ \A i \in (k' + 1)..Len(call') : call'[i] = stream'[pos' - k' + i]
    BY DEF Progress
  <2>1. Len(stream) = pos
    BY DEF Progress, Returned
  <2>2. \A i \in 0..(pos - 1) : data[i] = stream'[i + 1]
    BY <2>1 DEF Progress
  <2>3. \A i \in 1..Len(bytes) : bytes[i] = stream'[pos + i]
    BY <1>3
  <2>4. pos' - k' = pos /\ k' + 1 = 1
    OBVIOUS
  <2>5. Len(stream') = pos' - k' + Len(call') /\ k' <= pos'
    BY <1>2, <2>1, <2>4
  <2>6. \A i \in (k' + 1)..Len(call') : call'[i] = stream'[pos' - k' + i]
    BY <2>3, <2>4
  <2> QED
    BY <2>2, <2>5, <2>6
<1>5. Overflowed'
  BY <1>2, CapacityAssumption DEF Overflowed
<1> QED
  BY <1>1, <1>2, <1>3, <1>4, <1>5 DEF SavedInside

LEMMA AddStep ==
  ASSUME IInv, NEW bytes \in Calls, Add(bytes)
  PROVE  IInv'
<1> USE DEF Add, buffer
<1>1. bytes \in Seq(Byte)
  BY CallsAssumption
<1>2. /\ call' \in Seq(Byte) /\ k' \in 0..Len(call') /\ stream' \in Seq(Byte)
      /\ Progress' /\ Overflowed'
      /\ pos' <= Len(stream)
      /\ Len(stream') = Len(stream) + Len(bytes)
  BY <1>1, BeginCall
<1>3. TypeOK'
  BY <1>2 DEF IInv, TypeOK
<1>4. SavedInside'
  BY <1>1, <1>2 DEF IInv, TypeOK, SavedInside
<1>5. Inserting'
  BY DEF Inserting, Returned
<1> QED
  BY <1>2, <1>3, <1>4, <1>5 DEF IInv

LEMMA PutByteStep ==
  ASSUME IInv, PutByte
  PROVE  IInv'
<1> USE CapacityAssumption DEF IInv, TypeOK, PutByte
<1>1. call[k + 1] \in Byte
  OBVIOUS
<1>2. CASE pos >= length
  <2>1. length' = 0 /\ pos' = pos /\ data' = data
    BY <1>2
  <2>2. TypeOK'
    BY <2>1
  <2>3. Overflowed'
    <3>1. CASE length = 0
      BY <3>1, <2>1 DEF Overflowed
    <3>2. CASE length # 0
      BY <3>2, <1>2 DEF Overflowed, Progress
    <3> QED
      BY <3>1, <3>2
  <2>4. Progress' /\ SavedInside' /\ Inserting'
    BY <2>1 DEF Progress, SavedInside, Inserting
  <2> QED
    BY <2>2, <2>3, <2>4
<1>3. CASE pos < length
  <2>2. length = Capacity /\ pos \in 0..(Capacity - 1)
    BY <1>3
  <2>3. /\ length' = length /\ pos' = pos + 1
        /\ data' = [data EXCEPT ![pos] = call[k + 1]]
    BY <1>3
  <2>4. TypeOK'
    BY <2>2, <2>3, <1>1
  <2>5. Progress'
    <3>1. Len(stream) = (pos + 1) - (k + 1) + Len(call)
      <4>1. Len(stream) = pos - k + Len(call)
        BY <2>2 DEF Progress
      <4> QED
        BY <4>1
    <3>2. call[k + 1] = stream[pos + 1]
      <4>1. k + 1 \in (k + 1)..Len(call) /\ pos - k + (k + 1) = pos + 1
        OBVIOUS
      <4>2. call[k + 1] = stream[pos - k + (k + 1)]
        BY <4>1, <2>2 DEF Progress
      <4> QED
        BY <4>1, <4>2
    <3>3. \A i \in 0..pos : data'[i] = stream[i + 1]
      BY <2>2, <2>3, <3>2 DEF Progress
    <3>4. \A i \in (k' + 1)..Len(call') : call'[i] = stream'[pos' - k' + i]
      <4>1. pos' - k' = pos - k /\ \A i \in (k' + 1)..Len(call') : i \in (k + 1)..Len(call)
        BY <2>3
      <4>2. \A i \in (k + 1)..Len(call) : call[i] = stream[pos - k + i]
        BY <2>2 DEF Progress
      <4> QED
        BY <4>1, <4>2
    <3>5. Len(stream') = pos' - k' + Len(call') /\ k' <= pos'
      BY <2>2, <2>3, <3>1 DEF Progress
    <3>6. \A i \in 0..(pos' - 1) : data'[i] = stream'[i + 1]
      <4>1. pos' - 1 = pos /\ stream' = stream
        BY <2>3
      <4> HIDE DEF IInv, TypeOK, PutByte
      <4> QED
        BY <4>1, <3>3
    <3> QED
      BY <3>4, <3>5, <3>6 DEF Progress
  <2>6. Overflowed' /\ Inserting'
    BY <2>2, <2>3 DEF Overflowed, Inserting
  <2>7. SavedInside'
    <3>1. pos + 1 <= Len(stream)
      BY <2>2 DEF Progress
    <3>2. \A p \in 1..Len(saves) : saves[p] \in Nat /\ saves[p] <= pos
      BY DEF SavedInside
    <3>3. pos \in Nat /\ pos' = pos + 1 /\ stream' = stream /\ saves' = saves
      BY <2>2, <2>3
    <3> HIDE DEF IInv, TypeOK, PutByte
    <3> QED
      BY <3>1, <3>2, <3>3 DEF SavedInside
  <2> QED
    BY <2>4, <2>5, <2>6, <2>7
<1> QED
  BY <1>2, <1>3

LEMMA SavePosStep ==
  ASSUME IInv, SavePos
  PROVE  IInv'
<1> USE DEF IInv, TypeOK, SavePos, buffer
<1>1. TypeOK'
  OBVIOUS
<1>2. Progress' /\ Overflowed' /\ Inserting'
  BY DEF Progress, Overflowed, Inserting
<1>3. SavedInside'
  <2>1. Len(saves') = Len(saves) + 1 /\ saves'[Len(saves) + 1] = pos
        /\ \A p \in 1..Len(saves) : saves'[p] = saves[p]
    OBVIOUS
  <2> QED
    BY <2>1 DEF SavedInside
<1> QED
  BY <1>1, <1>2, <1>3

\* The innermost saved position is taken off.
LEMMA DropLast ==
  ASSUME NEW s \in Seq(Nat), s # <<>>
  PROVE  /\ SubSeq(s, 1, Len(s) - 1) \in Seq(Nat)
         /\ Len(s) \in Nat \ {0} /\ Len(SubSeq(s, 1, Len(s) - 1)) = Len(s) - 1
         /\ \A p \in 1..(Len(s) - 1) : SubSeq(s, 1, Len(s) - 1)[p] = s[p]
<1> DEFINE n == Len(s) - 1
<1>1. n \in Nat /\ Len(s) = n + 1 /\ \A p \in 1..n : s[p] \in Nat
  OBVIOUS
<1>2. /\ SubSeq(s, 1, n) \in Seq(Nat)
      /\ Len(SubSeq(s, 1, n)) = IF 1 <= n THEN n - 1 + 1 ELSE 0
      /\ \A p \in 1..(n - 1 + 1) : SubSeq(s, 1, n)[p] = s[1 + p - 1]
  BY <1>1, SubSeqProperties
<1> HIDE DEF n
<1>3. Len(SubSeq(s, 1, n)) = n /\ \A p \in 1..n : SubSeq(s, 1, n)[p] = s[p]
  BY <1>1, <1>2
<1> QED
  BY <1>1, <1>2, <1>3 DEF n

LEMMA InsertArrayStep ==
  ASSUME IInv, NEW elements \in Elements, InsertArray(elements)
  PROVE  IInv'
<1> USE DEF InsertArray, buffer
<1>1. AddArray(elements) \in Seq(Byte) /\ Len(AddArray(elements)) \in 1..5
  BY ArrayHead
<1>2. /\ call' \in Seq(Byte) /\ k' \in 0..Len(call') /\ stream' \in Seq(Byte)
      /\ Progress' /\ Overflowed'
      /\ pos' <= Len(stream)
      /\ Len(stream') = Len(stream) + Len(AddArray(elements))
      /\ length # 0 => \A i \in 1..Len(AddArray(elements)) :
                         AddArray(elements)[i] = stream'[pos + i]
  BY <1>1, BeginCall DEF Returned
<1> USE DEF IInv, TypeOK
<1>3. Len(saves) \in 1..Len(saves) /\ saves[Len(saves)] \in Nat
      /\ saves[Len(saves)] <= pos
  <2>1. Len(saves) \in 1..Len(saves)
    OBVIOUS
  <2> QED
    BY <2>1 DEF SavedInside
<1>4. /\ saves' \in Seq(Nat) /\ Len(saves') = Len(saves) - 1
      /\ \A p \in 1..Len(saves') : saves'[p] = saves[p]
  <2>1. saves \in Seq(Nat) /\ saves # <<>> /\ saves' = SubSeq(saves, 1, Len(saves) - 1)
    OBVIOUS
  <2> QED
    BY ONLY <2>1, DropLast
<1>5. TypeOK'
  <2>1. ins' \in [savePos : Nat, lastPos : Nat]
    BY <1>3
  <2>2. /\ length' \in {0, Capacity} /\ pos' \in 0..Capacity
        /\ data' \in [0..(Capacity - 1) -> Byte \cup {Uninit}]
    OBVIOUS
  <2> QED
    BY ONLY <1>2, <1>4, <2>1, <2>2 DEF TypeOK
<1>6. SavedInside'
  <2>1. \A p \in 1..Len(saves) : saves[p] <= pos
    BY DEF SavedInside
  <2>2. saves \in Seq(Nat) /\ pos' = pos /\ pos \in Nat
    OBVIOUS
  <2>3. Len(AddArray(elements)) \in Nat /\ Len(stream) \in Nat
    BY <1>1
  <2>4. \A p \in 1..Len(saves') : saves'[p] <= pos'
    <3>1. ASSUME NEW p \in 1..Len(saves') PROVE saves'[p] <= pos
      <4>1. p \in 1..Len(saves)
        BY ONLY p \in 1..Len(saves'), <1>4, <2>2
      <4> QED
        BY ONLY p \in 1..Len(saves'), <1>4, <2>1, <4>1
    <3> QED
      BY ONLY <2>2, <3>1
  <2> QED
    BY ONLY <1>2, <2>2, <2>3, <2>4 DEF SavedInside
<1>7. Inserting'
  <2>1. ins'.savePos = saves[Len(saves)] /\ ins'.lastPos = pos
    OBVIOUS
  <2>2. ins'.savePos <= ins'.lastPos /\ ins'.savePos <= Len(stream') - Len(call')
    BY <1>1, <1>2, <1>3, <2>1
  <2>3. length' # 0 => /\ ins'.lastPos = pos' - k'
                       /\ \A i \in 1..Len(call') : call'[i] = stream'[ins'.lastPos + i]
    <3>1. pos' = pos /\ pos \in Nat /\ length' = length /\ k' = 0 /\ call' = AddArray(elements)
      OBVIOUS
    <3>2. pos' - k' = pos
      BY ONLY <3>1
    <3>3. length # 0 => \A i \in 1..Len(AddArray(elements)) :
                          AddArray(elements)[i] = stream'[pos + i]
      BY <1>2
    <3> QED
      BY ONLY <2>1, <3>1, <3>2, <3>3
  <2> QED
    BY <1>1, <2>2, <2>3 DEF Inserting
<1> QED
  BY <1>2, <1>5, <1>6, <1>7

\* What moving a head in front does to a sequence, index by index.
LEMMA Rotation ==
  ASSUME NEW S, NEW s \in Seq(S), NEW h \in Seq(S), NEW p \in Nat, p <= Len(s) - Len(h)
  PROVE  /\ MoveStream(s, p, h) \in Seq(S)
         /\ Len(MoveStream(s, p, h)) = Len(s)
         /\ \A i \in 1..Len(s) : MoveStream(s, p, h)[i] =
                                   IF i <= p THEN s[i]
                                        ELSE IF i <= p + Len(h) THEN h[i - p]
                                        ELSE s[i - Len(h)]
<1> DEFINE r     == MoveStream(s, p, h)
           front == SubSeq(s, 1, p)
           back  == SubSeq(s, p + 1, Len(s) - Len(h))
<1>1. /\ front \in Seq(S) /\ Len(front) = p
      /\ \A i \in 1..p : front[i] = s[i]
  <2>1. \A i \in 1..p : s[i] \in S
    OBVIOUS
  <2> QED
    BY <2>1, SubSeqProperties
<1>2. /\ back \in Seq(S) /\ Len(back) = Len(s) - Len(h) - p
      /\ \A i \in 1..(Len(s) - Len(h) - p) : back[i] = s[p + i]
  <2>1. \A i \in (p + 1)..(Len(s) - Len(h)) : s[i] \in S
    OBVIOUS
  <2>2. p + 1 \in Int /\ Len(s) - Len(h) \in Int
    OBVIOUS
  <2> QED
    BY <2>1, <2>2, SubSeqProperties
<1> HIDE DEF r, front, back
<1>3. /\ front \o h \in Seq(S) /\ Len(front \o h) = p + Len(h)
      /\ \A i \in 1..(p + Len(h)) : (front \o h)[i] = IF i <= p THEN s[i] ELSE h[i - p]
  <2>1. /\ front \o h \in Seq(S) /\ Len(front \o h) = Len(front) + Len(h)
        /\ \A i \in 1..(Len(front) + Len(h)) :
             (front \o h)[i] = IF i <= Len(front) THEN front[i] ELSE h[i - Len(front)]
    BY <1>1, ConcatProperties
  <2> QED
    BY <1>1, <2>1
<1> DEFINE fh == front \o h
<1>4. r = fh \o back
  BY DEF r, MoveStream, front, back
<1>5. Len(fh) = p + Len(h) /\ Len(h) \in Nat /\ Len(s) \in Nat /\ fh \in Seq(S)
  BY <1>3 DEF fh
<1>6. \A i \in 1..(p + Len(h)) : fh[i] = IF i <= p THEN s[i] ELSE h[i - p]
  BY <1>3 DEF fh
<1> HIDE DEF fh
<1>7. /\ fh \o back \in Seq(S) /\ Len(fh \o back) = Len(fh) + Len(back)
      /\ \A i \in 1..(Len(fh) + Len(back)) :
           (fh \o back)[i] = IF i <= Len(fh) THEN fh[i] ELSE back[i - Len(fh)]
  BY <1>2, <1>5, ConcatProperties
<1>8. Len(fh) + Len(back) = Len(s)
  BY <1>2, <1>5
<1>9. /\ r \in Seq(S) /\ Len(r) = Len(s)
      /\ \A i \in 1..Len(s) : r[i] = IF i <= Len(fh) THEN fh[i] ELSE back[i - Len(fh)]
  BY <1>4, <1>7, <1>8, Zenon
<1>10. ASSUME NEW i \in 1..Len(s)
       PROVE  r[i] = IF i <= p THEN s[i]
                     ELSE IF i <= p + Len(h) THEN h[i - p] ELSE s[i - Len(h)]
  <2>1. CASE i <= p + Len(h)
    <3>1. i \in 1..(p + Len(h)) /\ i <= Len(fh)
      BY <1>5, <2>1
    <3>2. r[i] = fh[i]
      BY <1>9, <3>1
    <3> QED
      BY <1>6, <2>1, <3>1, <3>2, Zenon
  <2>2. CASE ~(i <= p + Len(h))
    <3>1. i - Len(fh) \in 1..(Len(s) - Len(h) - p) /\ ~(i <= Len(fh)) /\ ~(i <= p)
      BY <1>5, <2>2
    <3>2. r[i] = back[i - Len(fh)]
      BY <1>9, <3>1
    <3>3. back[i - Len(fh)] = s[p + (i - Len(fh))]
      BY <1>2, <3>1
    <3>4. p + (i - Len(fh)) = i - Len(h)
      BY <1>5
    <3> QED
      BY <2>2, <3>1, <3>2, <3>3, <3>4, Zenon
  <2> QED
    BY <2>1, <2>2
<1> QED
  BY <1>9, <1>10 DEF r

\* The same for the array: savePos = s, lastPos = l, pos = e.
LEMMA DataRotation ==
  ASSUME NEW d \in [0..(Capacity - 1) -> Byte \cup {Uninit}],
         NEW s \in Nat, NEW l \in Nat, NEW e \in Nat, s <= l, l <= e, e <= Capacity
  PROVE  /\ MoveHead(d, s, l, e) \in [0..(Capacity - 1) -> Byte \cup {Uninit}]
         /\ \A i \in 0..(e - 1) : MoveHead(d, s, l, e)[i] =
                                   IF i < s THEN d[i]
                                   ELSE IF i < s + (e - l) THEN d[l + (i - s)]
                                   ELSE d[i - (e - l)]
<1> DEFINE r == MoveHead(d, s, l, e)
<1> USE CapacityAssumption DEF MoveHead
<1>1. ASSUME NEW i \in 0..(Capacity - 1)
      PROVE  /\ i \in s..(s + (e - l) - 1) => l + (i - s) \in 0..(Capacity - 1)
             /\ i \in (s + (e - l))..(e - 1) => i - (e - l) \in 0..(Capacity - 1)
  OBVIOUS
<1>2. r \in [0..(Capacity - 1) -> Byte \cup {Uninit}]
  BY <1>1
<1>3. ASSUME NEW i \in 0..(e - 1)
      PROVE  r[i] = IF i < s THEN d[i]
                    ELSE IF i < s + (e - l) THEN d[l + (i - s)] ELSE d[i - (e - l)]
  <2>1. i \in DOMAIN d
    OBVIOUS
  <2>2. CASE i < s
    BY <2>1, <2>2
  <2>3. CASE ~(i < s) /\ i < s + (e - l)
    BY <2>1, <2>3
  <2>4. CASE ~(i < s) /\ ~(i < s + (e - l))
    BY <2>1, <2>4
  <2> QED
    BY <2>2, <2>3, <2>4
<1> QED
  BY <1>2, <1>3

LEMMA InsertArrayMoveStep ==
  ASSUME IInv, InsertArrayMove
  PROVE  IInv'
<1> USE DEF IInv, TypeOK, InsertArrayMove, NoInsert
<1>1. PICK p \in Nat, l \in Nat :
        /\ p = ins.savePos /\ l = ins.lastPos
        /\ p <= l /\ p <= Len(stream) - Len(call) /\ Len(call) \in Nat
  BY DEF Inserting
<1>2. /\ stream' \in Seq(Byte)
      /\ Len(stream') = Len(stream)
      /\ \A i \in 1..Len(stream) :
           stream'[i] = IF i <= p THEN stream[i]
                        ELSE IF i <= p + Len(call) THEN call[i - p]
                        ELSE stream[i - Len(call)]
  <2>1. stream' = MoveStream(stream, p, call)
    BY <1>1
  <2>2. stream \in Seq(Byte) /\ call \in Seq(Byte)
    OBVIOUS
  <2> HIDE DEF IInv, TypeOK, InsertArrayMove
  <2> QED
    BY <1>1, <2>1, <2>2, Rotation
<1>3. CASE length = 0
  <2>1. TypeOK'
    BY <1>2, <1>3
  <2>2. Progress' /\ Overflowed' /\ SavedInside' /\ Inserting'
    BY <1>2, <1>3 DEF Progress, Overflowed, SavedInside, Inserting
  <2> QED
    BY <2>1, <2>2
<1>4. CASE length # 0
  <2>1. /\ pos - l = Len(call) /\ Len(call) \in Nat /\ p <= l
        /\ l <= pos /\ pos \in Nat /\ pos <= Capacity
    BY <1>1, <1>4, CapacityAssumption DEF Inserting
  <2>2. \A i \in 1..Len(call) : call[i] = stream[l + i]
    BY <1>1, <1>4 DEF Inserting
  <2>3. Len(stream) = pos /\ \A i \in 0..(pos - 1) : data[i] = stream[i + 1]
    BY <1>4 DEF Progress
  <2>4. /\ data' \in [0..(Capacity - 1) -> Byte \cup {Uninit}]
        /\ \A i \in 0..(pos - 1) :
             data'[i] = IF i < p THEN data[i]
                        ELSE IF i < p + (pos - l)
                          THEN data[l + (i - p)]
                        ELSE data[i - (pos - l)]
    <3>1. data' = MoveHead(data, p, l, pos)
      BY <1>1, <1>4
    <3>2. data \in [0..(Capacity - 1) -> Byte \cup {Uninit}] /\ Capacity \in Nat
      BY CapacityAssumption
    <3> HIDE DEF IInv, TypeOK, InsertArrayMove
    <3>3. /\ p \in Nat /\ l \in Nat /\ pos \in Nat
          /\ p <= l /\ l <= pos /\ pos <= Capacity
      BY <2>1
    <3>4. data \in [0..(Capacity - 1) -> Byte \cup {Uninit}]
      BY <3>2
    <3>5. /\ MoveHead(data, p, l, pos) \in [0..(Capacity - 1) -> Byte \cup {Uninit}]
          /\ \A i \in 0..(pos - 1) : MoveHead(data, p, l, pos)[i] =
               IF i < p THEN data[i]
               ELSE IF i < p + (pos - l) THEN data[l + (i - p)] ELSE data[i - (pos - l)]
      BY ONLY <3>3, <3>4, DataRotation
    <3> QED
      BY ONLY <3>1, <3>5
  <2>5. TypeOK'
    BY <1>2, <2>4
  <2>6. Overflowed' /\ SavedInside' /\ Inserting'
    BY <1>2, <1>4 DEF Overflowed, SavedInside, Inserting
  <2>7. Len(stream') = pos - k + Len(call) /\ k <= pos
    BY <1>1, <1>2, <1>4, <2>1, <2>3 DEF Progress
  <2>8. /\ length' = length /\ pos' = pos /\ k' = k /\ call' = call
        /\ (k + 1)..Len(call) = {}
    OBVIOUS
  <2> HIDE DEF IInv, TypeOK, InsertArrayMove
  <2>9. ASSUME NEW i \in 0..(pos - 1)
        PROVE  data'[i] = stream'[i + 1]
    <3>1. i + 1 \in 1..Len(stream)
      BY <2>1, <2>3
    <3>2. CASE i < p
      <4>1. i + 1 <= p
        BY <3>2, <1>1
      <4> QED
        BY <3>1, <3>2, <4>1, <1>2, <2>3, <2>4
    <3>3. CASE ~(i < p) /\ i < p + Len(call)
      <4>1. /\ ~(i + 1 <= p) /\ i + 1 <= p + Len(call)
            /\ i < p + (pos - l)
            /\ i + 1 - p \in 1..Len(call)
            /\ l + (i - p) \in 0..(pos - 1)
            /\ l + (i + 1 - p) = l + (i - p) + 1
        BY <3>3, <2>1
      <4>2. data'[i] = data[l + (i - p)]
        BY <2>4, <3>3, <4>1
      <4>3. stream'[i + 1] = call[i + 1 - p]
        BY <1>2, <3>1, <4>1
      <4> QED
        BY <2>2, <2>3, <4>1, <4>2, <4>3
    <3>4. CASE ~(i < p) /\ ~(i < p + Len(call))
      <4>1. /\ ~(i + 1 <= p) /\ ~(i + 1 <= p + Len(call))
            /\ ~(i < p + (pos - l))
            /\ i - (pos - l) \in 0..(pos - 1)
            /\ i - (pos - l) + 1 = i + 1 - Len(call)
        BY <3>4, <2>1
      <4>2. data'[i] = data[i - (pos - l)]
        BY <2>4, <3>4, <4>1
      <4>3. stream'[i + 1] = stream[i + 1 - Len(call)]
        BY <1>2, <3>1, <4>1
      <4> QED
        BY <2>3, <4>1, <4>2, <4>3
    <3> QED
      BY <3>2, <3>3, <3>4
  <2>10. Progress'
    BY <2>7, <2>8, <2>9 DEF Progress
  <2> QED
    BY <2>5, <2>6, <2>10 DEF IInv
<1> QED
  BY <1>3, <1>4

-----------------------------------------------------------------------------
\* IInv holds in every reachable state.
THEOREM Invariance == Spec => []IInv
<1>1. Init => IInv
  BY InitInvariant
<1>2. IInv /\ [Next]_vars => IInv'
  <2> SUFFICES ASSUME IInv, [Next]_vars PROVE IInv'
    OBVIOUS
  <2>1. ASSUME NEW bytes \in Calls, Add(bytes) PROVE IInv'
    BY <2>1, AddStep
  <2>2. CASE PutByte
    BY <2>2, PutByteStep
  <2>3. CASE SavePos
    BY <2>3, SavePosStep
  <2>4. ASSUME NEW elements \in Elements, InsertArray(elements) PROVE IInv'
    BY <2>4, InsertArrayStep
  <2>5. CASE InsertArrayMove
    BY <2>5, InsertArrayMoveStep
  <2>6. CASE UNCHANGED vars
    BY <2>6 DEF vars, IInv, TypeOK, Progress, Overflowed, SavedInside, Inserting, Returned
  <2> QED
    BY <2>1, <2>2, <2>3, <2>4, <2>5, <2>6 DEF Next
<1> QED
  BY <1>1, <1>2, PTL DEF Spec

\* The buffer, the running call and the locals of insertArray() keep their types.
THEOREM TypeCorrect == Spec => []TypeOK
<1>1. IInv => TypeOK
  BY DEF IInv
<1> QED
  BY <1>1, Invariance, PTL

\* A client that finds length # 0 at the end has every byte it asked for in
\* data[0..pos-1], in order, and arrays in front of their elements.
THEOREM Completeness == Spec => []CompleteOrFlagged
<1>1. IInv => CompleteOrFlagged
  BY DEF IInv, TypeOK, Progress, CompleteOrFlagged, Returned
<1> QED
  BY <1>1, Invariance, PTL

\* length is 0 exactly when more than Capacity bytes were asked for.
THEOREM OverflowExact == Spec => []OverflowReported
<1>1. IInv => OverflowReported
  <2> SUFFICES ASSUME IInv, Returned PROVE length = 0 <=> Len(stream) > Capacity
    BY DEF OverflowReported
  <2>1. CASE length = 0
    BY <2>1 DEF IInv, Overflowed
  <2>2. CASE length # 0
    <3>1. Len(stream) = pos - k + Len(call) /\ k = Len(call)
      BY <2>2 DEF IInv, Progress, Returned
    <3> QED
      BY <2>2, <3>1, CapacityAssumption DEF IInv, TypeOK
  <2> QED
    BY <2>1, <2>2
<1> QED
  BY <1>1, Invariance, PTL

\* insertArray() never leaves its five byte temporary or the written part of the
\* buffer, for every element count an int can hold.
THEOREM MovesSafe == Spec => []MovesInBounds
<1>1. IInv => MovesInBounds
  <2> SUFFICES ASSUME IInv, k = Len(call), ins # NoInsert, length # 0
               PROVE  LET q == pos - ins.lastPos
                      IN  q \in 1..5 /\ ins.savePos \in 0..ins.lastPos /\ q = Len(call)
    BY DEF MovesInBounds
  <2>1. PICK p \in Nat, l \in Nat : /\ p = ins.savePos /\ l = ins.lastPos
                                    /\ p <= l /\ Len(call) \in 1..5 /\ l = pos - k
    BY DEF IInv, TypeOK, Inserting
  <2>2. p \in 0..l /\ pos - l = Len(call)
    BY <2>1 DEF IInv, TypeOK
  <2> QED
    BY <2>1, <2>2
<1> QED
  BY <1>1, Invariance, PTL

\* Nothing takes an overflow back, and nothing is stored after it.
THEOREM OverflowSticky == Spec => OverflowIsFinal
<1>1. IInv /\ [Next]_vars => [length = 0 => UNCHANGED buffer]_vars
  <2> SUFFICES ASSUME IInv, Next, length = 0 PROVE UNCHANGED buffer
    BY DEF vars, buffer
  <2>1. ASSUME NEW bytes \in Calls, Add(bytes) PROVE UNCHANGED buffer
    BY <2>1 DEF Add, buffer
  <2>2. CASE PutByte
    BY <2>2 DEF PutByte, buffer, IInv, TypeOK
  <2>3. CASE SavePos
    BY <2>3 DEF SavePos, buffer
  <2>4. ASSUME NEW elements \in Elements, InsertArray(elements) PROVE UNCHANGED buffer
    BY <2>4 DEF InsertArray, buffer
  <2>5. CASE InsertArrayMove
    BY <2>5 DEF InsertArrayMove, buffer
  <2> QED
    BY <2>1, <2>2, <2>3, <2>4, <2>5 DEF Next
<1> QED
  BY <1>1, Invariance, PTL DEF Spec, OverflowIsFinal

-----------------------------------------------------------------------------
(* Calls, saved positions and the abstract store                            *)

(***************************************************************************)
(* What IInv does not tell: which call is running, that its bytes are at    *)
(* the end of the stream from the first one on, and that positions saved    *)
(* later are not in front of those saved earlier.                           *)
(***************************************************************************)
Running ==
  /\ k < Len(call) /\ ins = NoInsert => call \in Calls
  /\ ins # NoInsert => call \in {AddArray(n) : n \in Elements}
  /\ length # 0 /\ ~Returned => \A i \in 1..Len(call) : call[i] = stream[pos - k + i]

SavedInOrder ==
  /\ \A p, q \in 1..Len(saves) : p <= q => saves[p] <= saves[q]
  /\ ins # NoInsert => \A p \in 1..Len(saves) : saves[p] <= ins.savePos

-----------------------------------------------------------------------------
LEMMA AddRuns ==
  ASSUME IInv, NEW bytes \in Calls, Add(bytes)
  PROVE  Running' /\ (SavedInOrder => SavedInOrder')
<1>1. bytes \in Seq(Byte)
  BY CallsAssumption
<1>2. Returned /\ call' = bytes /\ k' = 0 /\ stream' = stream \o bytes /\ UNCHANGED buffer
  BY DEF Add
<1>3. length # 0 => \A i \in 1..Len(bytes) : bytes[i] = stream'[pos + i]
  BY <1>1, <1>2, BeginCall
<1>4. pos' - k' = pos /\ length' = length
  BY <1>2 DEF IInv, TypeOK, buffer
<1>5. ins' = NoInsert /\ saves' = saves
  BY <1>2 DEF Add, Returned
<1> QED
  BY <1>2, <1>3, <1>4, <1>5 DEF Running, SavedInOrder

LEMMA PutByteRuns ==
  ASSUME IInv, Running, PutByte
  PROVE  Running' /\ (SavedInOrder => SavedInOrder')
<1>1. UNCHANGED <<call, ins, saves, stream>> /\ k < Len(call) /\ k' = k + 1
  BY DEF PutByte
<1>2. SavedInOrder => SavedInOrder'
  BY <1>1 DEF SavedInOrder
<1>3. ~Returned
  BY <1>1 DEF Returned, IInv, TypeOK
<1>4. length' # 0 => length # 0 /\ pos' - k' = pos - k
  BY <1>1, CapacityAssumption DEF PutByte, IInv, TypeOK
<1>5. k' < Len(call') => k < Len(call)
  BY <1>1
<1> QED
  BY <1>1, <1>2, <1>3, <1>4, <1>5 DEF Running

LEMMA SavePosRuns ==
  ASSUME IInv, Running, SavedInOrder, SavePos
  PROVE  Running' /\ SavedInOrder'
<1>1. Returned /\ saves' = Append(saves, pos) /\ UNCHANGED <<buffer, call, k, ins, stream>>
  BY DEF SavePos
<1>2. Running'
  BY <1>1 DEF Running, Returned, buffer
<1>3. /\ Len(saves') = Len(saves) + 1 /\ saves'[Len(saves) + 1] = pos
      /\ \A p \in 1..Len(saves) : saves'[p] = saves[p] /\ saves[p] <= pos
      /\ pos \in Nat /\ Len(saves) \in Nat
  BY <1>1 DEF IInv, TypeOK, SavedInside
<1>4. \A p, q \in 1..Len(saves') : p <= q => saves'[p] <= saves'[q]
  BY <1>3 DEF SavedInOrder
<1>5. ins' = NoInsert
  BY <1>1 DEF Returned
<1> QED
  BY <1>2, <1>4, <1>5 DEF SavedInOrder

LEMMA InsertArrayRuns ==
  ASSUME IInv, SavedInOrder, NEW elements \in Elements, InsertArray(elements)
  PROVE  Running' /\ SavedInOrder'
<1> DEFINE head == AddArray(elements)
<1>1. head \in Seq(Byte) /\ Len(head) \in 1..5
  BY ArrayHead
<1>2. /\ Returned /\ call' = head /\ k' = 0 /\ stream' = stream \o head /\ UNCHANGED buffer
      /\ saves # <<>> /\ saves' = SubSeq(saves, 1, Len(saves) - 1)
      /\ ins' = [savePos |-> saves[Len(saves)], lastPos |-> pos]
  BY DEF InsertArray
<1>3. length # 0 => \A i \in 1..Len(head) : head[i] = stream'[pos + i]
  BY <1>1, <1>2, BeginCall
<1>4. pos' - k' = pos /\ length' = length /\ pos \in Nat
  BY <1>2 DEF IInv, TypeOK, buffer
<1>5. ins' # NoInsert
  BY <1>2, <1>4 DEF NoInsert
<1>6. Running'
  BY <1>2, <1>3, <1>4, <1>5 DEF Running
<1>7. /\ Len(saves) \in Nat \ {0} /\ Len(saves') = Len(saves) - 1
      /\ \A p \in 1..Len(saves') : saves'[p] = saves[p]
  <2>1. saves \in Seq(Nat) /\ saves # <<>> /\ saves' = SubSeq(saves, 1, Len(saves) - 1)
    BY <1>2 DEF IInv, TypeOK
  <2> QED
    BY ONLY <2>1, DropLast
<1>8. \A p, q \in 1..Len(saves') : p <= q => saves'[p] <= saves'[q]
  BY <1>7 DEF SavedInOrder
<1>9. \A p \in 1..Len(saves') : saves'[p] <= ins'.savePos
  BY <1>2, <1>7 DEF SavedInOrder
<1> QED
  BY <1>6, <1>8, <1>9 DEF SavedInOrder

LEMMA MoveRuns ==
  ASSUME IInv, SavedInOrder, InsertArrayMove
  PROVE  Running' /\ SavedInOrder'
<1>1. k = Len(call) /\ ins' = NoInsert /\ UNCHANGED <<length, pos, call, k, saves>>
  BY DEF InsertArrayMove
<1> QED
  BY <1>1 DEF Running, SavedInOrder, Returned, IInv, TypeOK

\* Running and SavedInOrder hold in every reachable state.
THEOREM CallsInOrder == Spec => [](Running /\ SavedInOrder)
<1>1. Init => Running /\ SavedInOrder
  BY DEF Init, Running, SavedInOrder, Returned
<1>2. IInv /\ Running /\ SavedInOrder /\ [Next]_vars => (Running /\ SavedInOrder)'
  <2> SUFFICES ASSUME IInv, Running, SavedInOrder, [Next]_vars
               PROVE  (Running /\ SavedInOrder)'
    OBVIOUS
  <2>1. ASSUME NEW bytes \in Calls, Add(bytes) PROVE (Running /\ SavedInOrder)'
    BY <2>1, AddRuns
  <2>2. CASE PutByte
    BY <2>2, PutByteRuns
  <2>3. CASE SavePos
    BY <2>3, SavePosRuns
  <2>4. ASSUME NEW elements \in Elements, InsertArray(elements)
        PROVE  (Running /\ SavedInOrder)'
    BY <2>4, InsertArrayRuns
  <2>5. CASE InsertArrayMove
    BY <2>5, MoveRuns
  <2>6. CASE UNCHANGED vars
    BY <2>6 DEF vars, Running, SavedInOrder, Returned
  <2> QED
    BY <2>1, <2>2, <2>3, <2>4, <2>5, <2>6 DEF Next
<1> QED
  BY <1>1, <1>2, Invariance, PTL DEF Spec

-----------------------------------------------------------------------------
\* No step moves or changes a byte in front of a position that is still saved: a
\* nested insertArray() works behind it, and putByte() behind everything.
THEOREM SavedStay == Spec => SavedBytesStay
<1>1. IInv /\ IInv' /\ SavedInOrder /\ [Next]_vars =>
        [\A p \in 1..Len(saves') : \A i \in 0..(saves'[p] - 1) :
           i < pos => data'[i] = data[i]]_vars
  <2> SUFFICES ASSUME IInv, IInv', SavedInOrder, Next,
                      NEW p \in 1..Len(saves'), NEW i \in 0..(saves'[p] - 1), i < pos
               PROVE  data'[i] = data[i]
    OBVIOUS
  <2>0. TypeOK /\ TypeOK'
    BY DEF IInv
  <2> DEFINE sp == saves'[p]
  <2>6. sp \in Nat /\ i \in 0..(sp - 1) /\ i < pos
    <3>1. saves' \in Seq(Nat)
      BY <2>0 DEF TypeOK
    <3>2. sp \in Nat
      BY ONLY <3>1, p \in 1..Len(saves')
    <3> QED
      BY <3>2
  <2>7. i \in 0..(pos - 1) /\ pos \in Nat
    BY <2>0, <2>6, CapacityAssumption DEF TypeOK
  <2>1. ASSUME NEW bytes \in Calls, Add(bytes) PROVE data'[i] = data[i]
    BY <2>1 DEF Add, buffer
  <2>2. CASE PutByte
    <3>1. data' = data \/ data' = [data EXCEPT ![pos] = call[k + 1]]
      BY <2>2 DEF PutByte
    <3>2. DOMAIN data = 0..(Capacity - 1) /\ Capacity \in Nat /\ pos <= Capacity
      BY <2>0, CapacityAssumption DEF TypeOK
    <3>3. i \in DOMAIN data /\ i # pos
      BY ONLY <2>7, <3>2
    <3> QED
      BY ONLY <3>1, <3>3
  <2>3. CASE SavePos
    BY <2>3 DEF SavePos, buffer
  <2>4. ASSUME NEW elements \in Elements, InsertArray(elements) PROVE data'[i] = data[i]
    BY <2>4 DEF InsertArray, buffer
  <2>5. CASE InsertArrayMove
    <3>1. CASE length = 0
      BY <2>5, <3>1 DEF InsertArrayMove
    <3>2. CASE length # 0
      <4>1. PICK s \in Nat, l \in Nat : /\ s = ins.savePos /\ l = ins.lastPos
                                        /\ s <= l /\ l = pos - k
        BY <2>5, <3>2 DEF InsertArrayMove, IInv, TypeOK, Inserting
      <4>2. i < s
        <5>1. saves' = saves /\ ins # NoInsert /\ p \in 1..Len(saves)
          BY <2>5 DEF InsertArrayMove
        <5>2. sp <= s
          BY <4>1, <5>1 DEF SavedInOrder
        <5> QED
          BY ONLY <2>6, <5>2, s \in Nat
      <4>3. /\ data' = MoveHead(data, s, l, pos)
            /\ data \in [0..(Capacity - 1) -> Byte \cup {Uninit}]
            /\ pos \in Nat /\ l <= pos /\ pos <= Capacity
        <5>1. data' = MoveHead(data, s, l, pos)
          BY <2>5, <3>2, <4>1 DEF InsertArrayMove
        <5>2. /\ data \in [0..(Capacity - 1) -> Byte \cup {Uninit}]
              /\ pos \in 0..Capacity /\ k \in Nat /\ Capacity \in Nat
          BY <2>0, CapacityAssumption DEF TypeOK
        <5> QED
          BY ONLY <4>1, <5>1, <5>2
      <4>4. s \in Nat /\ l \in Nat /\ s <= l
        BY <4>1
      <4>5. /\ MoveHead(data, s, l, pos) \in [0..(Capacity - 1) -> Byte \cup {Uninit}]
            /\ \A j \in 0..(pos - 1) : MoveHead(data, s, l, pos)[j] =
                                       IF j < s THEN data[j]
                                       ELSE IF j < s + (pos - l) THEN data[l + (j - s)]
                                       ELSE data[j - (pos - l)]
        BY ONLY <4>3, <4>4, DataRotation
      <4> QED
        BY <2>7, <4>2, <4>3, <4>5
    <3> QED
      BY <3>1, <3>2
  <2> QED
    BY <2>1, <2>2, <2>3, <2>4, <2>5 DEF Next
<1> QED
  BY <1>1, Invariance, CallsInOrder, PTL DEF Spec, SavedBytesStay

-----------------------------------------------------------------------------
(* The refinement.  While there is room, what the client sees is the stream *)
(* up to the running call.                                                  *)

CommittedLen == IF Returned THEN pos ELSE pos - k

\* A copy of the first n bytes of the buffer is the beginning of the stream.
LEMMA Copied ==
  ASSUME NEW d, NEW s \in Seq(Byte), NEW n \in Nat, n <= Len(s),
         \A i \in 0..(n - 1) : d[i] = s[i + 1]
  PROVE  /\ [i \in 1..n |-> d[i - 1]] \in Seq(Byte)
         /\ Len([i \in 1..n |-> d[i - 1]]) = n
         /\ \A i \in 1..n : [j \in 1..n |-> d[j - 1]][i] = s[i]
<1>1. \A i \in 1..n : d[i - 1] = s[i] /\ s[i] \in Byte
  OBVIOUS
<1>2. [i \in 1..n |-> d[i - 1]] \in [1..n -> Byte]
  BY <1>1
<1> QED
  BY <1>1, <1>2

\* The sequence s with h put in at p, as BoundedStream does it.
PutIn(s, p, h) == SubSeq(s, 1, p) \o h \o SubSeq(s, p + 1, Len(s))

\* The same, index by index.
LEMMA Inserted ==
  ASSUME NEW S, NEW s \in Seq(S), NEW h \in Seq(S), NEW p \in Nat, p <= Len(s)
  PROVE  /\ PutIn(s, p, h) \in Seq(S) /\ Len(PutIn(s, p, h)) = Len(s) + Len(h)
         /\ \A i \in 1..(Len(s) + Len(h)) : PutIn(s, p, h)[i] =
              IF i <= p THEN s[i]
              ELSE IF i <= p + Len(h) THEN h[i - p] ELSE s[i - Len(h)]
<1> DEFINE a == SubSeq(s, 1, p)
           b == SubSeq(s, p + 1, Len(s))
           n == Len(s)
           m == Len(h)
<1>1. n \in Nat /\ m \in Nat /\ p <= n /\ \A i \in 1..n : s[i] \in S
  OBVIOUS
<1>2. /\ a \in Seq(S) /\ Len(a) = p
      /\ \A i \in 1..p : a[i] = s[i]
  <2>1. /\ a \in Seq(S) /\ Len(a) = IF 1 <= p THEN p - 1 + 1 ELSE 0
        /\ \A i \in 1..(p - 1 + 1) : a[i] = s[1 + i - 1]
    BY <1>1, SubSeqProperties
  <2> HIDE DEF a
  <2> QED
    BY <2>1
<1>3. /\ b \in Seq(S) /\ Len(b) = n - p
      /\ \A i \in 1..(n - p) : b[i] = s[p + i]
  <2>1. /\ b \in Seq(S) /\ Len(b) = IF p + 1 <= n THEN n - (p + 1) + 1 ELSE 0
        /\ \A i \in 1..(n - (p + 1) + 1) : b[i] = s[p + 1 + i - 1]
    BY <1>1, SubSeqProperties
  <2> HIDE DEF b, n
  <2> QED
    BY <2>1, <1>1
<1> HIDE DEF a, b
<1>4. /\ a \o h \in Seq(S) /\ Len(a \o h) = p + m
      /\ \A i \in 1..(p + m) : (a \o h)[i] = IF i <= p THEN a[i] ELSE h[i - p]
  BY <1>2, ConcatProperties
<1>5. /\ (a \o h) \o b \in Seq(S) /\ Len((a \o h) \o b) = p + m + (n - p)
      /\ \A i \in 1..(p + m + (n - p)) :
           ((a \o h) \o b)[i] = IF i <= p + m THEN (a \o h)[i] ELSE b[i - (p + m)]
  <2> DEFINE c == a \o h
  <2>0. b \in Seq(S) /\ c \in Seq(S)
    BY <1>3, <1>4
  <2>1. Len(c) = p + m
    BY <1>4
  <2> HIDE DEF c
  <2>2. /\ c \o b \in Seq(S) /\ Len(c \o b) = Len(c) + Len(b)
        /\ \A i \in 1..(Len(c) + Len(b)) :
             (c \o b)[i] = IF i <= Len(c) THEN c[i] ELSE b[i - Len(c)]
    BY <2>0, ConcatProperties
  <2>3. /\ c \o b \in Seq(S) /\ Len(c \o b) = p + m + (n - p)
        /\ \A i \in 1..(p + m + (n - p)) :
             (c \o b)[i] = IF i <= p + m THEN c[i] ELSE b[i - (p + m)]
    BY <2>0, <2>1, <2>2, <1>3
  <2> QED
    BY <2>3 DEF c
<1> DEFINE r == (a \o h) \o b
<1>6. ASSUME NEW i \in 1..(n + m)
      PROVE  r[i] = IF i <= p THEN s[i] ELSE IF i <= p + m THEN h[i - p] ELSE s[i - m]
  <2>1. CASE i <= p
    BY <2>1, <1>1, <1>2, <1>4, <1>5
  <2>2. CASE ~(i <= p) /\ i <= p + m
    BY <2>2, <1>1, <1>4, <1>5
  <2>3. CASE ~(i <= p) /\ ~(i <= p + m)
    <3>1. i - (p + m) \in 1..(n - p) /\ p + (i - (p + m)) = i - m
      BY <2>3, <1>1
    <3>2. r[i] = b[i - (p + m)]
      <4>1. i \in 1..(p + m + (n - p)) /\ ~(i <= p + m)
        BY <2>3, <1>1
      <4> QED
        BY ONLY <1>5, <4>1 DEF r
    <3> QED
      BY <2>3, <3>1, <3>2, <1>3
  <2> QED
    BY <2>1, <2>2, <2>3
<1>7. r \in Seq(S) /\ Len(r) = n + m
  BY <1>1, <1>5
<1> QED
  BY <1>6, <1>7 DEF a, b, PutIn

\* While there is room, Committed is the stream up to the running call.
View ==
  IF length = 0 THEN Committed = <<>>
  ELSE /\ CommittedLen \in 0..pos
       /\ Committed \in Seq(Byte) /\ Len(Committed) = CommittedLen
       /\ \A i \in 1..CommittedLen : Committed[i] = stream[i]

LEMMA ViewHolds == IInv => View
<1> SUFFICES ASSUME IInv PROVE View
  OBVIOUS
<1>1. CASE length = 0
  BY <1>1 DEF View, Committed
<1>2. CASE length # 0
  <2> DEFINE n == CommittedLen
  <2>1. n \in 0..pos /\ pos \in Nat
    BY <1>2 DEF CommittedLen, IInv, TypeOK, Progress
  <2>2. n <= Len(stream) /\ stream \in Seq(Byte) /\ Len(stream) \in Nat
    BY <2>1 DEF IInv, TypeOK, SavedInside
  <2>3. \A i \in 0..(n - 1) : data[i] = stream[i + 1]
    BY <1>2, <2>1 DEF IInv, Progress
  <2>4. Committed = [i \in 1..n |-> data[i - 1]]
    BY <1>2 DEF Committed, CommittedLen
  <2>5. n \in Nat
    BY <2>1
  <2> HIDE DEF n
  <2>6. /\ [i \in 1..n |-> data[i - 1]] \in Seq(Byte)
        /\ Len([i \in 1..n |-> data[i - 1]]) = n
        /\ \A i \in 1..n : [j \in 1..n |-> data[j - 1]][i] = stream[i]
    BY <2>2, <2>3, <2>5, Copied
  <2>7. /\ Committed \in Seq(Byte) /\ Len(Committed) = n
        /\ \A i \in 1..n : Committed[i] = stream[i]
    BY <2>4, <2>6
  <2> QED
    BY <1>2, <2>1, <2>7 DEF View, n
<1> QED
  BY <1>1, <1>2

\* What the client sees does not change unless its length does.
LEMMA SameView ==
  ASSUME View, View', length # 0, length' = length, CommittedLen' = CommittedLen,
         \A i \in 1..CommittedLen : stream'[i] = stream[i]
  PROVE  UNCHANGED Stream!vars
<1>1. /\ Committed \in Seq(Byte) /\ Committed' \in Seq(Byte)
      /\ Len(Committed) = Len(Committed')
      /\ \A i \in 1..Len(Committed) : Committed[i] = Committed'[i]
  BY DEF View
<1>2. Committed' = Committed
  BY <1>1, SeqEqual
<1> QED
  BY <1>2 DEF Stream!vars

\* A call has begun: none of its bytes is seen.
LEMMA BeginRefines ==
  ASSUME IInv, View, View', length # 0, Returned, NEW bytes \in Seq(Byte),
         call' = bytes, k' = 0, stream' = stream \o bytes, UNCHANGED buffer
  PROVE  UNCHANGED Stream!vars
<1>1. length' = length /\ pos' = pos /\ pos \in Nat /\ CommittedLen = pos
  BY DEF buffer, IInv, TypeOK, CommittedLen
<1>2. CommittedLen' = CommittedLen
  BY <1>1 DEF CommittedLen
<1>3. Len(stream) = pos /\ stream \in Seq(Byte)
  BY DEF IInv, TypeOK, Progress, Returned
<1>4. \A i \in 1..CommittedLen : stream'[i] = stream[i]
  BY <1>1, <1>3
<1> QED
  BY <1>1, <1>2, <1>4, SameView

\* A byte is put: the call is seen when it was the last one, and when it did not
\* fit the store is full.
LEMMA PutByteRefines ==
  ASSUME IInv, Running, View, View', length # 0, PutByte
  PROVE  [Stream!Next]_(Stream!vars)
<1>1. /\ k \in Nat /\ k < Len(call) /\ k' = k + 1 /\ call \in Seq(Byte)
      /\ UNCHANGED <<call, ins, saves, stream>> /\ ~Returned
      /\ length = Capacity /\ pos \in Nat /\ Capacity \in Nat /\ Len(call) \in Nat
  BY CapacityAssumption DEF PutByte, Returned, IInv, TypeOK
<1>2. CommittedLen = pos - k /\ Len(Committed) = pos - k /\ Committed \in Seq(Byte)
  BY <1>1 DEF CommittedLen, View
<1>3. CASE pos >= length
  <2>1. length' = 0 /\ Committed' = <<>>
    <3>1. length' = 0
      BY <1>1, <1>3 DEF PutByte
    <3> QED
      BY <3>1 DEF View
  <2>2. ~(Len(Committed) + Len(call) <= Capacity)
    BY <1>1, <1>2, <1>3
  <2>3. Stream!Overflow(call)
    BY <2>1, <2>2 DEF Stream!Overflow, Stream!Fits
  <2>4. call \in Calls \/ call \in {AddArray(n) : n \in Elements}
    BY <1>1 DEF Running
  <2> QED
    BY <2>3, <2>4 DEF Stream!Next
<1>4. CASE pos < length
  <2>1. length' = length /\ pos' = pos + 1 /\ pos' <= Capacity
    BY <1>1, <1>4 DEF PutByte
  <2>2. CASE ~Returned'
    <3>1. CommittedLen' = CommittedLen
      BY <1>1, <1>2, <2>1, <2>2 DEF CommittedLen
    <3> QED
      BY <1>1, <2>1, <3>1, SameView
  <2>3. CASE Returned'
    <3>1. k + 1 = Len(call) /\ ins = NoInsert /\ call \in Calls
      BY <1>1, <2>3 DEF Returned, Running
    <3>2. CommittedLen' = pos + 1
      BY <2>1, <2>3 DEF CommittedLen
    <3> DEFINE n == pos - k
               out == Committed \o call
    <3>3. /\ out \in Seq(Byte) /\ Len(out) = n + Len(call)
          /\ \A i \in 1..(n + Len(call)) :
               out[i] = IF i <= n THEN Committed[i] ELSE call[i - n]
      <4>1. Committed \in Seq(Byte) /\ call \in Seq(Byte) /\ Len(Committed) = n
        BY <1>1, <1>2
      <4> HIDE DEF n
      <4>2. /\ out \in Seq(Byte) /\ Len(out) = Len(Committed) + Len(call)
            /\ \A i \in 1..(Len(Committed) + Len(call)) :
                 out[i] = IF i <= Len(Committed) THEN Committed[i] ELSE call[i - Len(Committed)]
        BY <4>1, ConcatProperties
      <4> QED
        BY <4>1, <4>2
    <3>4. n \in Nat /\ n + Len(call) = pos + 1
      BY <1>1, <1>2, <3>1 DEF View
    <3>5. /\ Committed' \in Seq(Byte) /\ Len(Committed') = pos + 1
          /\ \A i \in 1..(pos + 1) : Committed'[i] = stream[i]
      BY <1>1, <2>1, <3>2 DEF View
    <3>6. ASSUME NEW i \in 1..(pos + 1) PROVE out[i] = stream[i]
      <4>1. CASE i <= n
        BY <4>1, <1>2, <3>3, <3>4 DEF View
      <4>2. CASE ~(i <= n)
        <5>1. i - n \in 1..Len(call) /\ n + (i - n) = i
          BY <4>2, <3>4, <1>1
        <5>2. call[i - n] = stream[n + (i - n)]
          BY <5>1, <1>1 DEF Running
        <5> QED
          BY <4>2, <5>1, <5>2, <3>3, <3>4
      <4> QED
        BY <4>1, <4>2
    <3>7. Committed' = out
      <4>1. Len(Committed') = Len(out) /\ \A i \in 1..Len(Committed') : Committed'[i] = out[i]
        BY <3>3, <3>4, <3>5, <3>6
      <4> HIDE DEF out
      <4> QED
        BY <3>3, <3>5, <4>1, SeqEqual
    <3>8. Len(Committed) + Len(call) <= Capacity
      BY <1>2, <2>1, <3>4
    <3>9. Stream!AppendBytes(call)
      BY <2>1, <3>7, <3>8 DEF Stream!AppendBytes, Stream!Fits
    <3> QED
      BY <3>1, <3>9 DEF Stream!Next
  <2> QED
    BY <2>2, <2>3
<1> QED
  BY <1>1, <1>3, <1>4

\* insertArray() returns: its head is seen in front of the bytes behind the saved
\* position.
LEMMA MoveRefines ==
  ASSUME IInv, Running, View, View', length # 0, InsertArrayMove
  PROVE  [Stream!Next]_(Stream!vars)
<1> DEFINE out == Committed
<1>1. PICK p \in Nat, l \in Nat :
        /\ p = ins.savePos /\ l = ins.lastPos /\ p <= l /\ l = pos - k
  BY DEF InsertArrayMove, IInv, TypeOK, Inserting
<1>2. /\ stream \in Seq(Byte) /\ call \in Seq(Byte)
      /\ Len(stream) \in Nat /\ Len(call) \in Nat \ {0} /\ k = Len(call)
      /\ pos \in Nat /\ pos <= Capacity /\ Capacity \in Nat
      /\ ~Returned /\ Returned' /\ UNCHANGED <<length, pos>>
      /\ call \in {AddArray(n) : n \in Elements}
  <2>1. /\ k = Len(call) /\ ins # NoInsert /\ ins' = NoInsert
        /\ UNCHANGED <<length, pos, call, k>>
    BY DEF InsertArrayMove
  <2>2. ~Returned /\ Returned'
    BY <2>1 DEF Returned
  <2>3. call \in {AddArray(n) : n \in Elements}
    BY <2>1 DEF Running
  <2>4. Len(call) \in 1..5
    BY <2>1 DEF IInv, Inserting
  <2>5. /\ stream \in Seq(Byte) /\ call \in Seq(Byte)
        /\ pos \in Nat /\ pos <= Capacity /\ Capacity \in Nat
    BY CapacityAssumption DEF IInv, TypeOK
  <2> QED
    BY <2>1, <2>2, <2>3, <2>4, <2>5
<1>3. pos = l + Len(call) /\ Len(stream) = pos /\ p <= Len(stream) - Len(call)
  BY <1>1, <1>2 DEF IInv, Progress
<1>4. out \in Seq(Byte) /\ Len(out) = l /\ \A i \in 1..l : out[i] = stream[i]
  BY <1>1, <1>2 DEF View, CommittedLen
<1>5. Committed' \in Seq(Byte) /\ Len(Committed') = pos
      /\ \A i \in 1..pos : Committed'[i] = stream'[i]
  BY <1>2 DEF View, CommittedLen
<1>6. \A i \in 1..pos : stream'[i] = IF i <= p THEN stream[i]
                                     ELSE IF i <= p + Len(call) THEN call[i - p]
                                     ELSE stream[i - Len(call)]
  <2>1. stream' = MoveStream(stream, p, call)
    BY <1>1 DEF InsertArrayMove
  <2>2. /\ stream \in Seq(Byte) /\ call \in Seq(Byte) /\ p \in Nat
        /\ p <= Len(stream) - Len(call)
    BY <1>1, <1>2, <1>3
  <2>3. \A i \in 1..Len(stream) : MoveStream(stream, p, call)[i] =
                                  IF i <= p THEN stream[i]
                                  ELSE IF i <= p + Len(call) THEN call[i - p]
                                  ELSE stream[i - Len(call)]
    BY <2>2, Rotation
  <2> QED
    BY <1>3, <2>1, <2>3
<1> HIDE DEF out
<1> DEFINE r == PutIn(out, p, call)
<1>7. /\ r \in Seq(Byte) /\ Len(r) = Len(out) + Len(call)
      /\ \A i \in 1..(Len(out) + Len(call)) :
           r[i] = IF i <= p THEN out[i]
                  ELSE IF i <= p + Len(call) THEN call[i - p] ELSE out[i - Len(call)]
  <2>1. p \in Nat /\ p <= Len(out) /\ out \in Seq(Byte) /\ call \in Seq(Byte)
    BY <1>1, <1>2, <1>4
  <2> QED
    BY <2>1, Inserted
<1> HIDE DEF r
<1>8. ASSUME NEW i \in 1..pos PROVE Committed'[i] = r[i]
  <2>1. i \in 1..(Len(out) + Len(call))
    BY <1>3, <1>4
  <2>2. CASE i <= p
    <3>1. i \in 1..l
      BY <1>1, <2>2
    <3> QED
      BY <1>4, <1>5, <1>6, <1>7, <2>1, <2>2, <3>1
  <2>3. CASE ~(i <= p) /\ i <= p + Len(call)
    BY <1>5, <1>6, <1>7, <2>1, <2>3
  <2>4. CASE ~(i <= p) /\ ~(i <= p + Len(call))
    <3> DEFINE c == Len(call)
    <3>0. c \in Nat /\ pos = l + c /\ ~(i <= p + c)
      BY <1>2, <1>3, <2>4
    <3> HIDE DEF c
    <3>2. i - c \in 1..l
      BY <3>0
    <3>1. i - Len(call) \in 1..l
      BY <3>2 DEF c
    <3> QED
      BY <1>4, <1>5, <1>6, <1>7, <2>1, <2>4, <3>1
  <2> QED
    BY <2>2, <2>3, <2>4
<1>9. Committed' = r
  <2>1. Len(Committed') = Len(r) /\ \A i \in 1..Len(Committed') : Committed'[i] = r[i]
    BY <1>3, <1>4, <1>5, <1>7, <1>8
  <2> QED
    BY <1>5, <1>7, <2>1, SeqEqual
<1>10. Committed' = SubSeq(Committed, 1, p) \o call \o SubSeq(Committed, p + 1, Len(Committed))
  BY <1>9 DEF r, out, PutIn
<1>11. Len(Committed) + Len(call) <= Capacity /\ p \in 0..Len(Committed)
  BY <1>1, <1>2, <1>3, <1>4 DEF out
<1>12. Stream!InsertHead(call, p)
  BY <1>2, <1>10, <1>11 DEF Stream!InsertHead, Stream!Fits
<1> QED
  BY <1>2, <1>11, <1>12 DEF Stream!Next

\* Once the store is full nothing is seen and nothing changes.
LEMMA FullRefines ==
  ASSUME IInv, View, View', length = 0, Next
  PROVE  UNCHANGED Stream!vars
<1>1. UNCHANGED length
  <2>1. ASSUME NEW bytes \in Calls, Add(bytes) PROVE UNCHANGED length
    BY <2>1 DEF Add, buffer
  <2>2. CASE PutByte
    BY <2>2 DEF PutByte, IInv, TypeOK
  <2>3. CASE SavePos
    BY <2>3 DEF SavePos, buffer
  <2>4. ASSUME NEW elements \in Elements, InsertArray(elements) PROVE UNCHANGED length
    BY <2>4 DEF InsertArray, buffer
  <2>5. CASE InsertArrayMove
    BY <2>5 DEF InsertArrayMove
  <2> QED
    BY <2>1, <2>2, <2>3, <2>4, <2>5 DEF Next
<1>2. Committed = <<>> /\ Committed' = <<>>
  BY <1>1 DEF View
<1> QED
  BY <1>1, <1>2 DEF Stream!vars

\* Every step of the code is a step of the store or is not seen by the client.
LEMMA StepRefines ==
  ASSUME IInv, Running, View, View', [Next]_vars
  PROVE  [Stream!Next]_(Stream!vars)
<1>1. CASE UNCHANGED vars
  BY <1>1 DEF vars, Stream!vars, Committed, Returned
<1>2. CASE Next /\ length = 0
  BY <1>2, FullRefines
<1>3. CASE Next /\ length # 0
  <2>1. ASSUME NEW bytes \in Calls, Add(bytes) PROVE UNCHANGED Stream!vars
    <3>1. bytes \in Seq(Byte)
      BY CallsAssumption
    <3> QED
      BY <1>3, <2>1, <3>1, BeginRefines DEF Add
  <2>2. CASE PutByte
    BY <1>3, <2>2, PutByteRefines
  <2>3. CASE SavePos
    <3>1. UNCHANGED <<length, stream, CommittedLen>>
      BY <2>3 DEF SavePos, buffer, CommittedLen, Returned
    <3> QED
      BY <1>3, <3>1, SameView
  <2>4. ASSUME NEW elements \in Elements, InsertArray(elements)
        PROVE  UNCHANGED Stream!vars
    <3>1. AddArray(elements) \in Seq(Byte)
      BY ArrayHead
    <3> QED
      BY <1>3, <2>4, <3>1, BeginRefines DEF InsertArray
  <2>5. CASE InsertArrayMove
    BY <1>3, <2>5, MoveRefines
  <2> QED
    BY <1>3, <2>1, <2>2, <2>3, <2>4, <2>5 DEF Next
<1> QED
  BY <1>1, <1>2, <1>3

\* putByte() and insertArray(), one byte and one memmove() at a time, implement a
\* store in which a call is there as a whole or the store is full for good.
THEOREM Implements == Spec => ImplementsStream
<1>1. Init => Stream!Init
  <2> SUFFICES ASSUME Init PROVE Committed = <<>> /\ length # 0
    BY DEF Stream!Init
  <2>1. length # 0 /\ pos = 0 /\ Returned
    BY CapacityAssumption DEF Init, Returned
  <2>2. Committed = [i \in 1..0 |-> data[i - 1]]
    BY <2>1 DEF Committed
  <2> QED
    BY <2>1, <2>2
<1>2. IInv /\ Running /\ View /\ View' /\ [Next]_vars => [Stream!Next]_(Stream!vars)
  BY StepRefines
<1>3. IInv => View
  BY ViewHolds
<1> QED
  BY <1>1, <1>2, <1>3, Invariance, CallsInOrder, PTL DEF Spec, ImplementsStream, Stream!Spec
=============================================================================
