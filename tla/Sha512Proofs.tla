----------------------------- MODULE Sha512Proofs -----------------------------
(***************************************************************************)
(* For every block size, every message and every way to cut it into pieces: *)
(* what is compressed is the message, in whole blocks and in order, and in  *)
(* the end the padding that its length demands.                             *)
(***************************************************************************)
EXTENDS Sha512, SequenceTheorems, TLAPS

-----------------------------------------------------------------------------
(* Sequences joined and cut                                                 *)

\* One sequence behind the other, under a name the provers do not look into.
Join(x, y) == x \o y

LEMMA JoinTwo ==
  ASSUME NEW T, NEW a \in Seq(T), NEW b \in Seq(T)
  PROVE  Join(a, b) \in Seq(T) /\ Len(Join(a, b)) = Len(a) + Len(b)
BY ConcatProperties DEF Join

LEMMA JoinThree ==
  ASSUME NEW T, NEW a \in Seq(T), NEW b \in Seq(T), NEW c \in Seq(T)
  PROVE  Join(Join(a, b), c) = Join(a, Join(b, c))
BY ConcatAssociative, SMTT(60) DEF Join

LEMMA JoinFour ==
  ASSUME NEW T, NEW a \in Seq(T), NEW b \in Seq(T), NEW c \in Seq(T), NEW d \in Seq(T)
  PROVE  /\ Join(Join(Join(a, b), c), d) = Join(a, Join(b, Join(c, d)))
         /\ Join(Join(a, b), Join(c, d)) = Join(a, Join(Join(b, c), d))
<1> DEFINE Q == Seq(T)
<1>1. \A x, y \in Q : Join(x, y) \in Q
  BY JoinTwo
<1>2. \A x, y, u \in Q : Join(Join(x, y), u) = Join(x, Join(y, u))
  BY JoinThree
<1>3. a \in Q /\ b \in Q /\ c \in Q /\ d \in Q
  OBVIOUS
<1> HIDE DEF Q
<1>4. Join(a, b) \in Q /\ Join(b, c) \in Q /\ Join(c, d) \in Q
  BY ONLY <1>1, <1>3
<1> QED BY ONLY <1>2, <1>3, <1>4

\* What is between two places of a sequence.
Slice(s, a, b) == SubSeq(s, a + 1, b)

LEMMA SliceIs ==
  ASSUME NEW T, NEW s \in Seq(T), NEW b \in 0..Len(s), NEW a \in 0..b
  PROVE  /\ Slice(s, a, b) \in Seq(T) /\ Len(Slice(s, a, b)) = b - a
         /\ \A i \in 1..(b - a) : Slice(s, a, b)[i] = s[a + i]
<1>1. Len(s) \in Nat /\ \A i \in 1..Len(s) : s[i] \in T
  BY ElementOfSeq
<1>2. a + 1 \in Int /\ b \in Int /\ \A i \in (a + 1)..b : s[i] \in T
  BY ONLY <1>1, b \in 0..Len(s), a \in 0..b
<1> DEFINE c == SubSeq(s, a + 1, b)
<1>3. /\ c \in Seq(T) /\ Len(c) = (IF a + 1 <= b THEN b - (a + 1) + 1 ELSE 0)
      /\ \A i \in 1..(b - (a + 1) + 1) : c[i] = s[a + 1 + i - 1]
  BY ONLY <1>2, SubSeqProperties
<1> HIDE DEF c
<1>4. a \in Int /\ b \in Int /\ a <= b
  BY ONLY <1>1, b \in 0..Len(s), a \in 0..b
<1>5. Len(c) = b - a /\ b - (a + 1) + 1 = b - a
  BY ONLY <1>3, <1>4
<1>6. \A i \in 1..(b - a) : c[i] = s[a + i]
  <2> SUFFICES ASSUME NEW i \in 1..(b - a) PROVE c[i] = s[a + i]
    OBVIOUS
  <2>1. a + 1 + i - 1 = a + i
    BY ONLY <1>4, i \in 1..(b - a)
  <2> QED BY ONLY <1>3, <1>5, <2>1, i \in 1..(b - a)
<1> QED BY ONLY <1>3, <1>5, <1>6 DEF Slice, c

\* Two pieces that meet are one.
LEMMA SlicesMeet ==
  ASSUME NEW T, NEW s \in Seq(T), NEW c \in 0..Len(s), NEW b \in 0..c, NEW a \in 0..b
  PROVE  Join(Slice(s, a, b), Slice(s, b, c)) = Slice(s, a, c)
<1>1. Len(s) \in Nat
  OBVIOUS
<1>2. /\ a + 1 \in 1..(Len(s) + 1) /\ b \in (a + 1 - 1)..Len(s) /\ c \in b..Len(s)
  BY ONLY <1>1, c \in 0..Len(s), b \in 0..c, a \in 0..b
<1> QED BY <1>2, ConcatAdjacentSubSeq, SMTT(30) DEF Join, Slice

-----------------------------------------------------------------------------

\* A buffer whose cells hold members of T.
Cells(b, T) == b \in [0..(BlockSize - 1) -> T]

Bytes == Seq(0..255)

\* s, from off on, ends before end, in the block.
EndsAt(s, off, end) == end = off + Len(s) /\ end <= BlockSize

\* n whole blocks or r more bits than a multiple of the counter's limit.
Whole(n)     == \E k \in Nat : n = k * BlockSize
Counted(r, n) == r \in 0..(LengthLimit - 1) /\ \E q \in Nat : 8 * n = q * LengthLimit + r

(***************************************************************************)
(* The inductive invariant: what was passed is a beginning of the message,  *)
(* and it is in fed, in the buffer and in the rest of the piece.            *)
(***************************************************************************)
Types ==
  /\ pc \in {"none", "ready", "update", "done"}
  /\ message \in Bytes /\ stream \in Bytes /\ in \in Bytes
  /\ curlen \in Nat /\ Cells(buf, 0..255)

Passed == Len(stream) <= Len(message) /\ stream = SubSeq(message, 1, Len(stream))

Hashing ==
  /\ curlen < BlockSize /\ fed \in Bytes
  /\ fed \o (Front(buf, curlen) \o in) = stream
  /\ Whole(Len(fed)) /\ Counted(length, Len(fed))

IInv ==
  /\ pc # "done" => Types
  /\ pc \in {"ready", "update"} => Passed /\ Hashing
  /\ pc \in {"none", "ready"} => in = <<>>
  /\ pc = "done" => in = <<>> /\ PaddedRight

-----------------------------------------------------------------------------
(* The operators                                                            *)

\* Put writes behind the first cells what they are then followed by.
LEMMA FrontPut ==
  ASSUME NEW T, NEW b, Cells(b, T), NEW s \in Seq(T), NEW off \in Nat,
         NEW end, EndsAt(s, off, end)
  PROVE  /\ Cells(Put(b, off, s), T)
         /\ Front(b, off) \in Seq(T) /\ Len(Front(b, off)) = off
         /\ Front(Put(b, off, s), end) = Front(b, off) \o s
<1> DEFINE l == Len(s)
           w == Put(b, off, s)
           front == Front(b, off)
           all == Front(w, off + l)
<1>0. BlockSize \in Nat /\ b \in [0..(BlockSize - 1) -> T]
  BY SizesAssumption DEF Cells
<1>1. l \in Nat /\ (\A j \in 1..l : s[j] \in T) /\ off + l <= BlockSize /\ end = off + l
  BY ElementOfSeq DEF EndsAt
<1>2. w = [i \in 0..(BlockSize - 1) |-> IF i \in off..(off + l - 1) THEN s[i - off + 1] ELSE b[i]]
  BY DEF Put
<1>3. front = [i \in 1..off |-> b[i - 1]] /\ all = [i \in 1..(off + l) |-> w[i - 1]]
  BY DEF Front
<1> HIDE DEF l, w, front, all
<1>4. \A i \in 0..(BlockSize - 1) : w[i] \in T
  <2> SUFFICES ASSUME NEW i \in 0..(BlockSize - 1) PROVE w[i] \in T
    OBVIOUS
  <2>1. i \in off..(off + l - 1) => i - off + 1 \in 1..l
    BY ONLY <1>0, <1>1, off \in Nat, i \in 0..(BlockSize - 1)
  <2> QED BY ONLY <1>0, <1>1, <1>2, <2>1, i \in 0..(BlockSize - 1)
<1>5. w \in [0..(BlockSize - 1) -> T]
  BY ONLY <1>0, <1>2, <1>4
<1>6. front \in Seq(T) /\ Len(front) = off
  <2>1. \A i \in 1..off : b[i - 1] \in T
    BY ONLY <1>0, <1>1, off \in Nat
  <2> QED BY ONLY <1>3, <2>1, off \in Nat
<1>7. all \in Seq(T) /\ Len(all) = off + l
  <2>1. \A i \in 1..(off + l) : w[i - 1] \in T
    BY ONLY <1>0, <1>1, <1>4, off \in Nat
  <2>2. off + l \in Nat
    BY ONLY <1>1, off \in Nat
  <2> QED BY ONLY <1>3, <2>1, <2>2
<1>8. /\ front \o s \in Seq(T) /\ Len(front \o s) = off + l
      /\ \A i \in 1..(off + l) : (front \o s)[i] = IF i <= off THEN front[i] ELSE s[i - off]
  BY <1>6, ConcatProperties DEF l
<1>9. \A i \in 1..(off + l) : all[i] = (front \o s)[i]
  <2> SUFFICES ASSUME NEW i \in 1..(off + l) PROVE all[i] = (front \o s)[i]
    OBVIOUS
  <2>1. all[i] = w[i - 1] /\ i - 1 \in 0..(BlockSize - 1)
    BY ONLY <1>0, <1>1, <1>3, off \in Nat, i \in 1..(off + l)
  <2>2. CASE i <= off
    <3>1. i - 1 \notin off..(off + l - 1) /\ i \in 1..off
      BY ONLY <2>2, off \in Nat, i \in 1..(off + l)
    <3>2. w[i - 1] = b[i - 1] /\ front[i] = b[i - 1]
      BY ONLY <1>2, <1>3, <2>1, <3>1
    <3> QED BY <1>8, <2>1, <2>2, <3>2
  <2>3. CASE i > off
    <3>1. w[i - 1] = s[i - off]
      BY ONLY <1>1, <1>2, <2>1, <2>3, off \in Nat, i \in 1..(off + l)
    <3> QED BY ONLY <1>1, <1>8, <2>1, <2>3, <3>1, off \in Nat, i \in 1..(off + l)
  <2>4. i <= off \/ i > off
    BY ONLY <1>1, off \in Nat, i \in 1..(off + l)
  <2> QED BY ONLY <2>2, <2>3, <2>4
<1>10. all = front \o s
  BY ONLY <1>7, <1>8, <1>9, SeqEqual
<1> QED BY <1>1, <1>5, <1>6, <1>10 DEF Cells, w, front, all

\* A sequence is its first n elements and the others.
LEMMA Split ==
  ASSUME NEW T, NEW s \in Seq(T), NEW e \in 0..Len(s), NEW n \in 0..e
  PROVE  /\ SubSeq(s, 1, n) \in Seq(T) /\ Len(SubSeq(s, 1, n)) = n
         /\ SubSeq(s, n + 1, e) \in Seq(T)
         /\ SubSeq(s, 1, n) \o SubSeq(s, n + 1, e) = SubSeq(s, 1, e)
<1>1. n \in 0..Len(s) /\ 0 \in 0..n /\ n - 0 = n /\ 0 + 1 = 1
  OBVIOUS
<1>2. Slice(s, 0, n) \in Seq(T) /\ Len(Slice(s, 0, n)) = n - 0
  BY ONLY s \in Seq(T), <1>1, SliceIs
<1>3. Slice(s, n, e) \in Seq(T)
  BY ONLY s \in Seq(T), e \in 0..Len(s), n \in 0..e, SliceIs
<1>4. Join(Slice(s, 0, n), Slice(s, n, e)) = Slice(s, 0, e)
  BY ONLY s \in Seq(T), e \in 0..Len(s), n \in 0..e, <1>1, SlicesMeet
<1>5. Slice(s, 0, n) = SubSeq(s, 1, n) /\ Slice(s, 0, e) = SubSeq(s, 1, e)
  BY ONLY <1>1 DEF Slice
<1>6. Slice(s, n, e) = SubSeq(s, n + 1, e)
  BY DEF Slice
<1>7. Join(SubSeq(s, 1, n), SubSeq(s, n + 1, e)) = SubSeq(s, 1, e)
  BY ONLY <1>4, <1>5, <1>6
<1> QED BY ONLY <1>1, <1>2, <1>3, <1>5, <1>6, <1>7 DEF Join

LEMMA SplitBytes ==
  ASSUME NEW s \in Bytes, NEW e \in 0..Len(s), NEW n \in 0..e
  PROVE  /\ SubSeq(s, 1, n) \in Bytes /\ Len(SubSeq(s, 1, n)) = n
         /\ SubSeq(s, n + 1, e) \in Bytes
         /\ SubSeq(s, 1, n) \o SubSeq(s, n + 1, e) = SubSeq(s, 1, e)
<1> DEFINE S == 0..255
<1>1. s \in Seq(S)
  BY DEF Bytes
<1> HIDE DEF S
<1>2. /\ SubSeq(s, 1, n) \in Seq(S) /\ Len(SubSeq(s, 1, n)) = n
      /\ SubSeq(s, n + 1, e) \in Seq(S)
      /\ SubSeq(s, 1, n) \o SubSeq(s, n + 1, e) = SubSeq(s, 1, e)
  BY ONLY <1>1, e \in 0..Len(s), n \in 0..e, Split
<1> QED BY <1>2 DEF Bytes, S

LEMMA TwoBytes ==
  ASSUME NEW x \in Bytes, NEW y \in Bytes
  PROVE  x \o y \in Bytes /\ Len(x \o y) = Len(x) + Len(y)
<1>1. Join(x, y) \in Bytes /\ Len(Join(x, y)) = Len(x) + Len(y)
  BY JoinTwo DEF Bytes
<1> QED BY ONLY <1>1, Zenon DEF Join

LEMMA ThreeBytes ==
  ASSUME NEW x \in Bytes, NEW y \in Bytes, NEW z \in Bytes
  PROVE  (x \o y) \o z = x \o (y \o z)
<1>1. Join(Join(x, y), z) = Join(x, Join(y, z))
  BY JoinThree DEF Bytes
<1> QED BY ONLY <1>1, Zenon DEF Join

\* Two runs of zeros are one.
LEMMA ZerosConcat ==
  ASSUME NEW m \in Nat, NEW n \in Nat
  PROVE  /\ Zeros(m) \in Seq({0}) /\ Len(Zeros(m)) = m
         /\ Zeros(m) \o Zeros(n) = Zeros(m + n)
<1>1. \A k \in Nat : Zeros(k) \in Seq({0}) /\ Len(Zeros(k)) = k /\ \A i \in 1..k : Zeros(k)[i] = 0
  BY DEF Zeros
<1> DEFINE a == Zeros(m)
           c == Zeros(n)
           d == Zeros(m + n)
<1>2. /\ a \in Seq({0}) /\ Len(a) = m /\ \A i \in 1..m : a[i] = 0
      /\ c \in Seq({0}) /\ Len(c) = n /\ \A i \in 1..n : c[i] = 0
  BY <1>1
<1>3. d \in Seq({0}) /\ Len(d) = m + n /\ \A i \in 1..(m + n) : d[i] = 0
  BY <1>1
<1> HIDE DEF a, c, d
<1>4. /\ a \o c \in Seq({0}) /\ Len(a \o c) = m + n
      /\ \A i \in 1..(m + n) : (a \o c)[i] = IF i <= m THEN a[i] ELSE c[i - m]
  <2>1. /\ a \o c \in Seq({0}) /\ Len(a \o c) = Len(a) + Len(c)
        /\ \A i \in 1..(Len(a) + Len(c)) : (a \o c)[i] = IF i <= Len(a) THEN a[i] ELSE c[i - Len(a)]
    BY ONLY <1>2, ConcatProperties
  <2> QED BY ONLY <1>2, <2>1
<1>5. \A i \in 1..(m + n) : (a \o c)[i] = d[i]
  BY ONLY <1>2, <1>3, <1>4, m \in Nat, n \in Nat
<1>6. a \o c = d
  BY ONLY <1>3, <1>4, <1>5, SeqEqual
<1> QED BY <1>2, <1>6 DEF a, c, d

-----------------------------------------------------------------------------
(* The numbers                                                              *)

LEMMA SizesAreNumbers ==
  /\ BlockSize \in Nat /\ PadEnd \in Nat /\ LengthAt \in Nat /\ LengthLimit \in Nat
  /\ 0 < PadEnd /\ PadEnd <= LengthAt /\ LengthAt < BlockSize /\ 8 * BlockSize <= LengthLimit
BY SizesAssumption

LEMMA WholeBlocks ==
  ASSUME NEW n \in Nat, Whole(n)
  PROVE  Whole(n + BlockSize) /\ IsMod(0, n, BlockSize)
<1>0. BlockSize \in Nat /\ BlockSize > 0
  BY SizesAreNumbers
<1>1. PICK k \in Nat : n = k * BlockSize
  BY DEF Whole
<1>2. n + BlockSize = (k + 1) * BlockSize /\ k + 1 \in Nat
  BY <1>0, <1>1
<1>3. k <= k * BlockSize
  BY <1>0
<1>4. k \in 0..n /\ n = k * BlockSize + 0
  BY <1>0, <1>1, <1>3
<1>5. 0 \in 0..(BlockSize - 1)
  BY <1>0
<1> QED BY <1>2, <1>4, <1>5 DEF Whole, IsMod

\* The counter goes round at its limit.
LEMMA CounterAdds ==
  ASSUME NEW n \in Nat, NEW d \in 0..BlockSize, NEW r, Counted(r, n)
  PROVE  Counted(Plus(r, 8 * d), n + d)
<1>0. LengthLimit \in Nat /\ BlockSize \in Nat /\ 8 * BlockSize <= LengthLimit /\ BlockSize > 0
  BY SizesAreNumbers
<1>1. PICK q \in Nat : 8 * n = q * LengthLimit + r
  BY DEF Counted
<1>2. r \in 0..(LengthLimit - 1)
  BY DEF Counted
<1>3. d \in Nat /\ 8 * d <= LengthLimit /\ 8 * (n + d) = 8 * n + 8 * d
  BY <1>0
<1>4. q * LengthLimit \in Nat /\ (q + 1) * LengthLimit = q * LengthLimit + LengthLimit
  BY <1>0
<1> DEFINE p == q * LengthLimit
           p1 == (q + 1) * LengthLimit
<1>5. p \in Nat /\ p1 = p + LengthLimit /\ 8 * n = p + r
  BY <1>1, <1>4
<1>6. (p = q * LengthLimit) /\ (p1 = (q + 1) * LengthLimit)
  OBVIOUS
<1> HIDE DEF p, p1
<1>7. CASE r + 8 * d < LengthLimit
  <2>1. Plus(r, 8 * d) = r + 8 * d
    BY <1>7 DEF Plus
  <2>2. r + 8 * d \in 0..(LengthLimit - 1) /\ 8 * (n + d) = p + (r + 8 * d)
    BY ONLY <1>0, <1>2, <1>3, <1>5, <1>7
  <2> QED BY <1>6, <2>1, <2>2 DEF Counted
<1>8. CASE ~(r + 8 * d < LengthLimit)
  <2>1. Plus(r, 8 * d) = r + 8 * d - LengthLimit
    BY <1>8 DEF Plus
  <2>2. /\ r + 8 * d - LengthLimit \in 0..(LengthLimit - 1)
        /\ 8 * (n + d) = p1 + (r + 8 * d - LengthLimit)
    BY ONLY <1>0, <1>2, <1>3, <1>5, <1>8
  <2>3. q + 1 \in Nat
    OBVIOUS
  <2> QED BY <1>6, <2>1, <2>2, <2>3 DEF Counted
<1> QED BY <1>7, <1>8

LEMMA CounterIsMod ==
  ASSUME NEW n \in Nat, NEW r, Counted(r, n)
  PROVE  IsMod(r, 8 * n, LengthLimit)
<1>0. LengthLimit \in Nat /\ LengthLimit > 0
  BY SizesAreNumbers
<1>1. PICK q \in Nat : 8 * n = q * LengthLimit + r
  BY DEF Counted
<1>2. r \in 0..(LengthLimit - 1)
  BY DEF Counted
<1>3. q <= q * LengthLimit /\ q * LengthLimit \in Nat
  BY <1>0
<1>4. q <= q * LengthLimit + r
  BY <1>0, <1>2, <1>3
<1>5. q \in 0..(8 * n)
  BY <1>1, <1>4
<1> QED BY <1>1, <1>2, <1>5 DEF IsMod

-----------------------------------------------------------------------------
(* The end                                                                  *)

\* How many zeros follow the bit.
Fill == IF curlen + 1 > PadEnd THEN BlockSize - (curlen + 1) + PadEnd ELSE PadEnd - (curlen + 1)

LEMMA FillFits ==
  ASSUME NEW n \in Nat, curlen \in Nat, curlen < BlockSize, Whole(n)
  PROVE  /\ Fill \in 0..(BlockSize - 1)
         /\ IsMod(0, n + curlen + 1 + Fill + (BlockSize - PadEnd), BlockSize)
<1>0. /\ BlockSize \in Nat /\ PadEnd \in Nat /\ PadEnd < BlockSize /\ 0 < PadEnd
      /\ curlen \in Nat /\ curlen < BlockSize
  BY SizesAreNumbers
<1>1. Fill \in 0..(BlockSize - 1)
  BY ONLY <1>0 DEF Fill
<1>2. Whole(n + BlockSize)
  BY WholeBlocks
<1>3. n + BlockSize \in Nat /\ n + BlockSize + BlockSize \in Nat
  BY <1>0
<1>4. Whole(n + BlockSize + BlockSize)
  BY ONLY <1>2, <1>3, WholeBlocks
<1>5. n + curlen + 1 + Fill + (BlockSize - PadEnd) \in {n + BlockSize, n + BlockSize + BlockSize}
  BY ONLY <1>0, n \in Nat DEF Fill
<1>6. IsMod(0, n + BlockSize, BlockSize) /\ IsMod(0, n + BlockSize + BlockSize, BlockSize)
  BY ONLY <1>2, <1>3, <1>4, WholeBlocks
<1> QED BY <1>1, <1>5, <1>6

\* The block with the mark in it, and what of it does not fit.
Spill == Spilled(Marked(buf, curlen), curlen + 1)

\* The bytes behind the message: what is spilled, and the last block.
LEMMA PaddingIsRight ==
  ASSUME NEW T, {0, 128} \subseteq T, Cells(buf, T), curlen \in Nat, curlen < BlockSize,
         NEW bits, BigEndian(bits) \in Seq(T)
  PROVE  /\ Spill.fed \in Seq(T)
         /\ Front(LastBlock(Spill.buf, Spill.n, bits), BlockSize) \in Seq(T)
         /\ Front(buf, curlen) \in Seq(T) /\ Len(Front(buf, curlen)) = curlen
         /\ Spill.fed \o Front(LastBlock(Spill.buf, Spill.n, bits), BlockSize) =
              Front(buf, curlen) \o (<<128>> \o (Zeros(Fill + (LengthAt - PadEnd)) \o BigEndian(bits)))
<1> DEFINE n == curlen + 1
           be == BigEndian(bits)
           F0 == Front(buf, curlen)
           one == <<128>>
           m1 == Marked(buf, curlen)
<1>0. /\ BlockSize \in Nat /\ PadEnd \in Nat /\ LengthAt \in Nat
      /\ 0 < PadEnd /\ PadEnd <= LengthAt /\ LengthAt < BlockSize
      /\ curlen \in Nat /\ curlen < BlockSize /\ n = curlen + 1 /\ n \in Nat
  BY SizesAreNumbers
<1>1. one \in Seq(T) /\ Len(one) = 1
  OBVIOUS
<1>2. be \in Seq(T) /\ Len(be) = BlockSize - LengthAt
  <2>1. LengthBytes \in Nat /\ LengthBytes = BlockSize - LengthAt
    BY <1>0 DEF LengthBytes
  <2>2. be = [i \in 1..LengthBytes |-> (bits \div 256 ^ (LengthBytes - i)) % 256]
    BY DEF BigEndian
  <2> QED BY <2>1, <2>2
<1> HIDE DEF be
<1>3. \A k \in Nat : Zeros(k) \in Seq(T) /\ Len(Zeros(k)) = k
  <2> SUFFICES ASSUME NEW k \in Nat PROVE Zeros(k) \in Seq(T) /\ Len(Zeros(k)) = k
    OBVIOUS
  <2>1. Zeros(k) \in Seq({0}) /\ Len(Zeros(k)) = k
    BY ZerosConcat
  <2>2. Zeros(k) \in Seq(T)
    BY <2>1, SeqMonotonic, {0} \subseteq T
  <2> QED BY <2>1, <2>2
<1>5. Cells(m1, T) /\ F0 \in Seq(T) /\ Len(F0) = curlen /\ Front(m1, n) = F0 \o one
  <2>1. m1 = Put(buf, curlen, one)
    BY DEF Marked
  <2>2. curlen + Len(one) <= BlockSize /\ curlen + Len(one) = n
    BY ONLY <1>0, <1>1
  <2> HIDE DEF m1, F0, n, one
  <2>3. EndsAt(one, curlen, n)
    BY ONLY <2>2 DEF EndsAt
  <2>4. one \in Seq(T) /\ curlen \in Nat
    BY ONLY <1>0, <1>1
  <2>5. /\ Cells(Put(buf, curlen, one), T)
        /\ Front(buf, curlen) \in Seq(T) /\ Len(Front(buf, curlen)) = curlen
        /\ Front(Put(buf, curlen, one), n) = Front(buf, curlen) \o one
    BY ONLY <2>3, <2>4, Cells(buf, T), FrontPut
  <2> QED BY ONLY <2>1, <2>5, Zenon DEF F0
<1> HIDE DEF n, F0, m1, one
<1>6. F0 \o one \in Seq(T)
  BY ONLY <1>1, <1>5, ConcatProperties
\* The last block, begun with k cells of a buffer b.
<1>7. ASSUME NEW b, Cells(b, T), NEW k \in 0..LengthAt
      PROVE  /\ Front(LastBlock(b, k, bits), BlockSize) = (Front(b, k) \o Zeros(LengthAt - k)) \o be
             /\ Front(b, k) \in Seq(T)
             /\ Front(LastBlock(b, k, bits), BlockSize) \in Seq(T)
  <2> DEFINE z == Zeros(LengthAt - k)
             c == Put(b, k, z)
  <2>1. LengthAt - k \in Nat /\ k \in Nat /\ k + (LengthAt - k) = LengthAt /\ LengthAt <= BlockSize
    BY ONLY <1>0, k \in 0..LengthAt
  <2>2. z \in Seq(T) /\ Len(z) = LengthAt - k
    BY <1>3, <2>1
  <2>3. LastBlock(b, k, bits) = Put(c, LengthAt, be)
    BY DEF LastBlock, ZeroFrom, be
  <2> HIDE DEF z, c
  <2>4. EndsAt(z, k, LengthAt)
    BY ONLY <2>1, <2>2 DEF EndsAt
  <2>5. Cells(c, T) /\ Front(b, k) \in Seq(T) /\ Front(c, LengthAt) = Front(b, k) \o z
    <3>1. c = Put(b, k, z)
      BY DEF c
    <3>2. k \in Nat
      BY ONLY <2>1
    <3>3. z \in Seq(T)
      BY ONLY <2>2
    <3>4. /\ Cells(Put(b, k, z), T) /\ Front(b, k) \in Seq(T)
          /\ Front(Put(b, k, z), LengthAt) = Front(b, k) \o z
      BY ONLY <1>7, <2>4, <3>2, <3>3, FrontPut
    <3> QED BY ONLY <3>1, <3>4
  <2>6. EndsAt(be, LengthAt, BlockSize)
    BY ONLY <1>0, <1>2 DEF EndsAt
  <2>7. Front(Put(c, LengthAt, be), BlockSize) = Front(c, LengthAt) \o be
    <3>1. Cells(c, T)
      BY ONLY <2>5
    <3>2. be \in Seq(T)
      BY ONLY <1>2
    <3>3. LengthAt \in Nat
      BY ONLY <1>0
    <3> QED BY ONLY <3>1, <3>2, <3>3, <2>6, FrontPut
  <2>8. Front(b, k) \o z \in Seq(T)
    BY ONLY <2>2, <2>5, ConcatProperties
  <2>9. (Front(b, k) \o z) \o be \in Seq(T)
    BY ONLY <1>2, <2>8, ConcatProperties
  <2> QED BY ONLY <2>3, <2>5, <2>7, <2>9 DEF z
<1>8. F0 \in Seq(T) /\ one \in Seq(T) /\ be \in Seq(T)
  BY ONLY <1>1, <1>2, <1>5
<1>9. ASSUME NEW x \in Seq(T), NEW y \in Seq(T) PROVE x \o y \in Seq(T)
  <2>1. Join(x, y) \in Seq(T)
    BY ONLY <1>9, JoinTwo
  <2> QED BY ONLY <2>1, Zenon DEF Join
<1>10. \A i, j \in Nat : Zeros(i) \o Zeros(j) = Zeros(i + j)
  BY ZerosConcat
<1>11. CASE n > PadEnd
  <2> DEFINE z1 == Zeros(BlockSize - n)
             b2 == Put(m1, n, z1)
             z2 == Zeros(LengthAt)
             last == Front(LastBlock(b2, 0, bits), BlockSize)
  <2>1. BlockSize - n \in Nat /\ n + (BlockSize - n) = BlockSize /\ 0 \in 0..LengthAt /\ 0 \in Nat
    BY ONLY <1>0
  <2>2. z1 \in Seq(T) /\ Len(z1) = BlockSize - n /\ z2 \in Seq(T) /\ Len(z2) = LengthAt
    BY ONLY <1>0, <1>3, <2>1
  <2>3. Spill.fed = Front(b2, BlockSize) /\ Spill.buf = b2 /\ Spill.n = 0
    BY <1>11 DEF Spill, Spilled, ZeroFrom, m1, n
  <2> HIDE DEF z1, b2, z2, last
  <2>4. EndsAt(z1, n, BlockSize)
    BY ONLY <1>0, <2>1, <2>2 DEF EndsAt
  <2>5. Cells(b2, T) /\ Front(b2, BlockSize) = (F0 \o one) \o z1
    <3>1. b2 = Put(m1, n, z1)
      BY DEF b2
    <3>2. n \in Nat
      BY ONLY <1>0
    <3>3. z1 \in Seq(T)
      BY ONLY <2>2
    <3>4. Cells(m1, T)
      BY ONLY <1>5
    <3>5. /\ Cells(Put(m1, n, z1), T)
          /\ Front(Put(m1, n, z1), BlockSize) = Front(m1, n) \o z1
      BY ONLY <2>4, <3>2, <3>3, <3>4, FrontPut
    <3> QED BY ONLY <1>5, <3>1, <3>5
  <2>6. Front(b2, 0) = <<>>
    BY DEF Front
  <2>7. LengthAt - 0 = LengthAt
    BY <1>0
  <2>8. last = (<<>> \o z2) \o be /\ last \in Seq(T)
    BY ONLY <1>7, <2>1, <2>5, <2>6, <2>7 DEF z2, last
  <2>9. <<>> \o z2 = z2
    BY ONLY <2>2, ConcatEmptySeq
  <2>10. z1 \o z2 = Zeros(Fill + (LengthAt - PadEnd))
    <3>1. z1 \o z2 = Zeros((BlockSize - n) + LengthAt)
      BY ONLY <1>0, <1>10, <2>1 DEF z1, z2
    <3>2. Fill + (LengthAt - PadEnd) = (BlockSize - n) + LengthAt
      BY ONLY <1>0, <1>11 DEF Fill
    <3> QED BY <3>1, <3>2
  <2>11. ((F0 \o one) \o z1) \o (z2 \o be) = F0 \o (one \o ((z1 \o z2) \o be))
    <3>1. z1 \in Seq(T) /\ z2 \in Seq(T)
      BY ONLY <2>2
    <3>2. Join(F0, one) \in Seq(T) /\ Join(Join(z1, z2), be) \in Seq(T)
      BY ONLY <1>8, <3>1, JoinTwo
    <3>3. Join(Join(Join(F0, one), z1), Join(z2, be)) = Join(Join(F0, one), Join(Join(z1, z2), be))
      BY ONLY <1>8, <3>1, <3>2, JoinFour
    <3>4. Join(Join(F0, one), Join(Join(z1, z2), be)) = Join(F0, Join(one, Join(Join(z1, z2), be)))
      BY ONLY <1>8, <3>2, JoinThree
    <3>5. Join(Join(Join(F0, one), z1), Join(z2, be)) = Join(F0, Join(one, Join(Join(z1, z2), be)))
      BY ONLY <3>3, <3>4
    <3> QED BY ONLY <3>5, Zenon DEF Join
  <2>12. Spill.fed \in Seq(T)
    BY ONLY <1>6, <1>9, <2>2, <2>3, <2>5
  <2>13. Spill.fed \o last = F0 \o (one \o (Zeros(Fill + (LengthAt - PadEnd)) \o be))
    BY ONLY <2>3, <2>5, <2>8, <2>9, <2>10, <2>11, Zenon
  <2>14. last = Front(LastBlock(Spill.buf, Spill.n, bits), BlockSize)
    BY ONLY <2>3, Zenon DEF last
  <2> QED BY ONLY <1>5, <2>8, <2>12, <2>13, <2>14, Zenon DEF be, F0, one
<1>12. CASE ~(n > PadEnd)
  <2> DEFINE z == Zeros(LengthAt - n)
             last == Front(LastBlock(m1, n, bits), BlockSize)
  <2>1. n \in 0..LengthAt /\ LengthAt - n \in Nat
    BY ONLY <1>0, <1>12
  <2>2. Spill.fed = <<>> /\ Spill.buf = m1 /\ Spill.n = n
    BY <1>12 DEF Spill, Spilled, m1, n
  <2>3. z \in Seq(T)
    BY ONLY <1>3, <2>1
  <2> HIDE DEF z, last
  <2>4. last = ((F0 \o one) \o z) \o be /\ last \in Seq(T)
    BY ONLY <1>5, <1>7, <2>1 DEF z, last
  <2>5. <<>> \o last = last
    BY ONLY <2>4, ConcatEmptySeq
  <2>6. z = Zeros(Fill + (LengthAt - PadEnd))
    <3>1. Fill + (LengthAt - PadEnd) = LengthAt - n
      BY ONLY <1>0, <1>12 DEF Fill
    <3> QED BY <3>1 DEF z
  <2>7. ((F0 \o one) \o z) \o be = F0 \o (one \o (z \o be))
    <3>1. F0 \in Seq(T) /\ one \in Seq(T) /\ z \in Seq(T) /\ be \in Seq(T)
      BY ONLY <1>8, <2>3
    <3>2. Join(Join(Join(F0, one), z), be) = Join(F0, Join(one, Join(z, be)))
      BY ONLY <3>1, JoinFour
    <3> QED BY ONLY <3>2, Zenon DEF Join
  <2>8. Spill.fed \in Seq(T)
    BY ONLY <2>2, EmptySeq
  <2>9. Spill.fed \o last = F0 \o (one \o (Zeros(Fill + (LengthAt - PadEnd)) \o be))
    BY ONLY <2>2, <2>4, <2>5, <2>6, <2>7, Zenon
  <2>10. last = Front(LastBlock(Spill.buf, Spill.n, bits), BlockSize)
    BY ONLY <2>2, Zenon DEF last
  <2> QED BY ONLY <1>5, <2>4, <2>8, <2>9, <2>10, Zenon DEF be, F0, one
<1> QED BY <1>11, <1>12

-----------------------------------------------------------------------------
(* The steps                                                                *)

LEMMA Begins == Init => IInv
<1> SUFFICES ASSUME Init PROVE IInv
  OBVIOUS
<1>1. pc = "none" /\ in = <<>> /\ stream = <<>> /\ curlen = 0
  BY DEF Init
<1>2. message \in Bytes
  BY MessagesAssumption DEF Init, Bytes
<1>3. Cells(buf, 0..255)
  <2>1. PICK garbage \in {0, 255} : buf = [i \in 0..(BlockSize - 1) |-> garbage]
    BY DEF Init, Fresh
  <2> QED BY <2>1 DEF Cells
<1> QED BY <1>1, <1>2, <1>3 DEF IInv, Types, Bytes

\* Nothing was compressed yet.
LEMMA InitPreserves == IInv /\ sha512_init => IInv'
<1> SUFFICES ASSUME IInv, sha512_init PROVE IInv'
  OBVIOUS
<1>1. /\ pc' = "ready" /\ stream' = <<>> /\ curlen' = 0 /\ fed' = <<>> /\ in' = <<>> /\ length' = 0
  BY DEF sha512_init, IInv
<1>2. message' \in Bytes
  BY MessagesAssumption DEF sha512_init, Bytes
<1>3. Cells(buf', 0..255)
  <2>1. PICK garbage \in {0, 255} : buf' = [i \in 0..(BlockSize - 1) |-> garbage]
    BY DEF sha512_init, Fresh
  <2> QED BY <2>1 DEF Cells
<1>4. Types'
  BY <1>1, <1>2, <1>3 DEF Types, Bytes
<1>5. Passed'
  <2>1. Len(message') \in Nat
    BY <1>2 DEF Bytes
  <2>2. SubSeq(message', 1, 0) = <<>>
    BY SubSeqEmpty
  <2> QED BY <1>1, <2>1, <2>2 DEF Passed
<1>6. Hashing'
  <2>1. Front(buf', 0) = <<>>
    BY DEF Front
  <2>2. Whole(0) /\ Counted(0, 0)
    <3>1. 0 = 0 * BlockSize /\ 8 * 0 = 0 * LengthLimit + 0 /\ 0 \in 0..(LengthLimit - 1)
      BY SizesAreNumbers
    <3> QED BY <3>1 DEF Whole, Counted
  <2>3. <<>> \o (<<>> \o <<>>) = <<>>
    OBVIOUS
  <2>4. Len(<<>>) = 0 /\ <<>> \in Bytes
    BY DEF Bytes
  <2> QED BY <1>1, <2>1, <2>2, <2>3, <2>4, SizesAreNumbers DEF Hashing
<1> QED BY <1>1, <1>4, <1>5, <1>6 DEF IInv

\* The next bytes of the message become the piece.
LEMMA UpdatePreserves == IInv /\ Update => IInv'
<1> SUFFICES ASSUME IInv, Update PROVE IInv'
  OBVIOUS
<1>0. /\ pc = "ready" /\ Types /\ Passed /\ Hashing /\ in = <<>>
      /\ UNCHANGED <<length, curlen, buf, fed, message>>
  BY DEF Update, IInv, context
<1>1. PICK end \in Len(stream)..Len(message) :
        /\ sha512_update(SubSeq(message, Len(stream) + 1, end))
        /\ stream' = SubSeq(message, 1, end)
  BY DEF Update
<1>2. ~(curlen > BlockSize)
  BY <1>0, SizesAreNumbers DEF Hashing, Types
<1>3. pc' = "update" /\ in' = SubSeq(message, Len(stream) + 1, end)
  BY <1>1, <1>2 DEF sha512_update
<1> DEFINE n == Len(stream)
<1>4. message \in Bytes /\ stream \in Bytes /\ n \in Nat /\ Len(message) \in Nat
  BY <1>0 DEF Types, Bytes
<1>5. end \in 0..Len(message) /\ n \in 0..end
  BY <1>1, <1>4
<1> HIDE DEF n
<1>6. /\ SubSeq(message, 1, n) \in Bytes
      /\ SubSeq(message, n + 1, end) \in Bytes
      /\ SubSeq(message, 1, n) \o SubSeq(message, n + 1, end) = SubSeq(message, 1, end)
  BY ONLY <1>4, <1>5, SplitBytes
<1>7. SubSeq(message, 1, end) \in Bytes /\ Len(SubSeq(message, 1, end)) = end
  <2>1. message \in Bytes
    BY <1>4
  <2>2. Len(message) \in 0..Len(message)
    BY <1>4
  <2> QED BY ONLY <1>5, <2>1, <2>2, SplitBytes
<1>8. in' \in Bytes /\ stream' \in Bytes /\ in' = SubSeq(message, n + 1, end)
  BY <1>1, <1>3, <1>6, <1>7 DEF n
<1>9. Types'
  BY <1>0, <1>3, <1>8 DEF Types
<1>10. Passed'
  BY <1>0, <1>1, <1>5, <1>7 DEF Passed
<1>11. fed \o (Front(buf, curlen) \o in') = stream'
  <2>1. Front(buf, curlen) \in Bytes
    <3>1. curlen \in Nat /\ curlen <= BlockSize /\ <<>> \in Seq(0..255)
      BY <1>0, SizesAreNumbers DEF Hashing, Types
    <3>2. EndsAt(<<>>, curlen, curlen)
      BY <3>1 DEF EndsAt
    <3>3. Cells(buf, 0..255)
      BY <1>0 DEF Types
    <3> QED BY ONLY <3>1, <3>2, <3>3, FrontPut DEF Bytes
  <2>2. Front(buf, curlen) \o <<>> = Front(buf, curlen)
    BY ONLY <2>1, ConcatEmptySeq DEF Bytes
  <2>3. fed \o Front(buf, curlen) = SubSeq(message, 1, n)
    BY <1>0, <2>2 DEF Hashing, Passed, n
  <2>4. fed \in Bytes
    BY <1>0 DEF Hashing
  <2>5. (fed \o Front(buf, curlen)) \o in' = fed \o (Front(buf, curlen) \o in')
    BY ONLY <1>8, <2>1, <2>4, ThreeBytes
  <2> QED BY <1>1, <1>6, <1>8, <2>3, <2>5
<1>12. Hashing'
  BY <1>0, <1>11 DEF Hashing
<1> QED BY <1>3, <1>9, <1>10, <1>12 DEF IInv

\* The next block of the piece is compressed; the buffer is empty.
LEMMA CompressPreserves == IInv /\ CompressInput => IInv'
<1> SUFFICES ASSUME IInv, CompressInput PROVE IInv'
  OBVIOUS
<1> DEFINE block == SubSeq(in, 1, BlockSize)
           rest == SubSeq(in, BlockSize + 1, Len(in))
<1>0. /\ pc = "update" /\ Types /\ Passed /\ Hashing /\ curlen = 0 /\ Len(in) >= BlockSize
      /\ fed' = fed \o block /\ in' = rest /\ length' = Plus(length, BlockSize * 8)
      /\ UNCHANGED <<curlen, buf, pc, message, stream>>
  BY DEF CompressInput, WholeBlock, Rest, IInv
<1>1. in \in Bytes /\ fed \in Bytes /\ Len(in) \in Nat /\ Len(fed) \in Nat
  BY <1>0 DEF Types, Hashing, Bytes
<1>2. Len(in) \in 0..Len(in) /\ BlockSize \in 0..Len(in) /\ BlockSize \in Nat
  BY <1>0, <1>1, SizesAreNumbers
<1> DEFINE l == Len(in)
<1>3. /\ block \in Bytes /\ Len(block) = BlockSize /\ rest \in Bytes
      /\ block \o rest = SubSeq(in, 1, l)
  <2>1. in \in Bytes
    BY <1>1
  <2>2. l \in 0..Len(in)
    BY <1>2
  <2>3. BlockSize \in 0..l
    BY <1>2
  <2> HIDE DEF l
  <2>4. /\ SubSeq(in, 1, BlockSize) \in Bytes /\ Len(SubSeq(in, 1, BlockSize)) = BlockSize
        /\ SubSeq(in, BlockSize + 1, l) \in Bytes
        /\ SubSeq(in, 1, BlockSize) \o SubSeq(in, BlockSize + 1, l) = SubSeq(in, 1, l)
    BY ONLY <2>1, <2>2, <2>3, SplitBytes
  <2> QED BY <2>4 DEF l
<1>4. block \o rest = in
  BY <1>1, <1>3, SubSeqFull DEF Bytes
<1> HIDE DEF block, rest, l
<1>5. fed' \in Bytes /\ Len(fed') = Len(fed) + BlockSize
  <2>1. fed \o block \in Bytes /\ Len(fed \o block) = Len(fed) + Len(block)
    BY ONLY <1>1, <1>3, TwoBytes
  <2>2. fed' = fed \o block
    BY ONLY <1>0
  <2> QED BY ONLY <1>3, <2>1, <2>2
<1>6. Whole(Len(fed')) /\ Counted(length', Len(fed'))
  <2>1. Whole(Len(fed)) /\ Counted(length, Len(fed))
    BY <1>0 DEF Hashing
  <2>2. Whole(Len(fed) + BlockSize)
    BY ONLY <1>1, <2>1, WholeBlocks
  <2>3. BlockSize \in 0..BlockSize /\ BlockSize * 8 = 8 * BlockSize
    BY <1>2
  <2>4. Counted(Plus(length, 8 * BlockSize), Len(fed) + BlockSize)
    BY ONLY <1>1, <2>1, <2>3, CounterAdds
  <2> QED BY <1>0, <1>5, <2>2, <2>3, <2>4
<1>7. fed' \o (Front(buf', curlen') \o in') = stream'
  <2>1. Front(buf, 0) = <<>>
    BY DEF Front
  <2>2. <<>> \o in = in /\ <<>> \o rest = rest
    BY <1>1, <1>3 DEF Bytes
  <2>3. (fed \o block) \o rest = fed \o (block \o rest)
    BY ONLY <1>1, <1>3, ThreeBytes
  <2>4. fed \o in = stream
    BY <1>0, <2>1, <2>2 DEF Hashing
  <2> QED BY <1>0, <1>4, <2>1, <2>2, <2>3, <2>4
<1>8. Types' /\ Passed'
  BY <1>0, <1>3 DEF Types, Passed
<1>9. Hashing'
  BY <1>0, <1>5, <1>6, <1>7 DEF Hashing
<1> QED BY <1>0, <1>8, <1>9 DEF IInv

\* The piece, or the beginning of it, goes into the buffer; a full one is compressed.
LEMMA FillPreserves == IInv /\ FillBuffer => IInv'
<1> SUFFICES ASSUME IInv, FillBuffer PROVE IInv'
  OBVIOUS
<1> DEFINE t == Taken
           l == Len(in)
           some == SubSeq(in, 1, t)
           rest == SubSeq(in, t + 1, l)
           front == Front(buf, curlen)
<1>0. /\ pc = "update" /\ Types /\ Passed /\ Hashing
      /\ buf' = Put(buf, curlen, some) /\ in' = rest
      /\ UNCHANGED <<pc, message, stream>>
  BY DEF FillBuffer, Rest, IInv
<1>1. /\ BlockSize \in Nat /\ curlen \in Nat /\ curlen < BlockSize
      /\ in \in Bytes /\ fed \in Bytes /\ l \in Nat /\ Len(fed) \in Nat /\ Cells(buf, 0..255)
  BY <1>0, SizesAreNumbers DEF Types, Hashing, Bytes
<1>2. l \in 0..Len(in)
  BY <1>1
<1>3. t \in 0..l /\ t \in Nat /\ curlen + t <= BlockSize
  BY <1>1 DEF Taken
<1> HIDE DEF t, l
<1>4. /\ some \in Bytes /\ Len(some) = t
      /\ rest \in Bytes
      /\ some \o rest = SubSeq(in, 1, l)
  BY ONLY <1>1, <1>2, <1>3, SplitBytes
<1>5. some \o rest = in
  BY <1>1, <1>4, SubSeqFull DEF Bytes, l
<1> HIDE DEF some, rest, front
<1>6. EndsAt(some, curlen, curlen + t)
  BY ONLY <1>1, <1>3, <1>4 DEF EndsAt
<1>7. /\ Cells(buf', 0..255)
      /\ front \in Bytes /\ Len(front) = curlen
      /\ Front(buf', curlen + t) = front \o some
  <2>1. Cells(buf, 0..255)
    BY <1>1
  <2>2. some \in Seq(0..255) /\ curlen \in Nat
    BY <1>1, <1>4 DEF Bytes
  <2>3. /\ Cells(Put(buf, curlen, some), 0..255)
        /\ Front(buf, curlen) \in Seq(0..255) /\ Len(Front(buf, curlen)) = curlen
        /\ Front(Put(buf, curlen, some), curlen + t) = Front(buf, curlen) \o some
    BY ONLY <1>6, <2>1, <2>2, FrontPut
  <2> QED BY ONLY <1>0, <2>3 DEF Bytes, front
<1>8. fed \o ((front \o some) \o rest) = stream
  <2>1. (front \o some) \o rest = front \o (some \o rest)
    BY ONLY <1>4, <1>7, ThreeBytes
  <2>2. fed \o (front \o in) = stream
    BY <1>0 DEF Hashing, front
  <2> QED BY <1>5, <2>1, <2>2
<1>9. CASE curlen + t = BlockSize
  <2>1. /\ fed' = fed \o Front(buf', BlockSize)
        /\ length' = Plus(length, 8 * BlockSize) /\ curlen' = 0
    BY <1>9 DEF FillBuffer, t
  <2>2. Front(buf', BlockSize) = front \o some
    BY <1>7, <1>9
  <2>3. front \o some \in Bytes /\ Len(front \o some) = BlockSize
    <3>1. front \o some \in Bytes /\ Len(front \o some) = Len(front) + Len(some)
      BY ONLY <1>4, <1>7, TwoBytes
    <3> QED BY ONLY <1>4, <1>7, <1>9, <3>1
  <2>4. fed' = fed \o (front \o some)
    BY <2>1, <2>2
  <2>5. fed' \in Bytes /\ Len(fed') = Len(fed) + BlockSize
    <3>1. /\ fed \o (front \o some) \in Bytes
          /\ Len(fed \o (front \o some)) = Len(fed) + Len(front \o some)
      BY ONLY <1>1, <2>3, TwoBytes
    <3> QED BY ONLY <2>3, <2>4, <3>1
  <2>6. Whole(Len(fed')) /\ Counted(length', Len(fed'))
    <3>1. Whole(Len(fed)) /\ Counted(length, Len(fed))
      BY <1>0 DEF Hashing
    <3>2. Whole(Len(fed) + BlockSize)
      BY ONLY <1>1, <3>1, WholeBlocks
    <3>3. BlockSize \in 0..BlockSize
      BY <1>1
    <3>4. Counted(Plus(length, 8 * BlockSize), Len(fed) + BlockSize)
      BY ONLY <1>1, <3>1, <3>3, CounterAdds
    <3> QED BY <2>1, <2>5, <3>2, <3>4
  <2>7. fed' \o (Front(buf', curlen') \o in') = stream'
    <3>1. Front(buf', 0) = <<>>
      BY DEF Front
    <3>2. <<>> \o rest = rest
      BY ONLY <1>4, ConcatEmptySeq DEF Bytes
    <3>3. (fed \o (front \o some)) \o rest = fed \o ((front \o some) \o rest)
      BY ONLY <1>1, <1>4, <2>3, ThreeBytes
    <3> QED BY <1>0, <1>8, <2>1, <2>4, <3>1, <3>2, <3>3
  <2>8. Hashing'
    BY <1>1, <2>1, <2>5, <2>6, <2>7 DEF Hashing
  <2>9. Types' /\ Passed'
    BY <1>0, <1>4, <1>7, <2>1 DEF Types, Passed
  <2> QED BY <1>0, <2>8, <2>9 DEF IInv
<1>10. CASE curlen + t # BlockSize
  <2>1. curlen' = curlen + t /\ fed' = fed /\ length' = length
    BY <1>10 DEF FillBuffer, t
  <2>2. curlen' \in Nat /\ curlen' < BlockSize
    BY <1>1, <1>3, <1>10, <2>1
  <2>3. fed' \o (Front(buf', curlen') \o in') = stream'
    BY <1>0, <1>7, <1>8, <2>1
  <2>4. Hashing'
    BY <1>0, <2>1, <2>2, <2>3 DEF Hashing
  <2>5. Types' /\ Passed'
    BY <1>0, <1>4, <1>7, <2>2 DEF Types, Passed
  <2> QED BY <1>0, <2>4, <2>5 DEF IInv
<1> QED BY <1>9, <1>10

\* The padding.
LEMMA FinalPreserves == IInv /\ sha512_final => IInv'
<1> SUFFICES ASSUME IInv, sha512_final PROVE IInv'
  OBVIOUS
<1>0. pc = "ready" /\ Types /\ Hashing /\ in = <<>> /\ UNCHANGED <<in, stream>>
  BY DEF sha512_final, IInv
<1>1. BlockSize \in Nat /\ curlen \in Nat /\ curlen < BlockSize /\ fed \in Bytes /\ Len(fed) \in Nat
  BY <1>0, SizesAreNumbers DEF Types, Hashing, Bytes
<1> DEFINE last == Front(LastBlock(Spill.buf, Spill.n, length'), BlockSize)
           be == BigEndian(length')
           F0 == Front(buf, curlen)
           zeros == Zeros(Fill + (LengthAt - PadEnd))
           T == Int \cup {be[i] : i \in 1..LengthBytes}
<1>2. /\ length' = Plus(length, 8 * curlen) /\ pc' = "done"
      /\ fed' = fed \o Spill.fed \o last
  <2>1. ~(curlen >= BlockSize) /\ curlen * 8 = 8 * curlen
    BY <1>1
  <2>2. PICK spilled \in {Spill} :
          /\ length' = Plus(length, curlen * 8)
          /\ buf' = LastBlock(spilled.buf, spilled.n, length')
          /\ fed' = fed \o spilled.fed \o Front(buf', BlockSize)
          /\ pc' = "done"
    BY <2>1 DEF sha512_final, Spill
  <2> QED BY <2>1, <2>2
<1>3. LengthBytes \in Nat /\ be \in Seq(T)
  <2>1. LengthBytes \in Nat
    BY SizesAreNumbers DEF LengthBytes
  <2>2. be = [i \in 1..LengthBytes |-> (length' \div 256 ^ (LengthBytes - i)) % 256]
    BY DEF BigEndian
  <2> HIDE DEF be
  <2>3. \A i \in 1..LengthBytes : be[i] \in T
    OBVIOUS
  <2> HIDE DEF T
  <2>4. be = [i \in 1..LengthBytes |-> be[i]]
    BY ONLY <2>2
  <2>5. be \in [1..LengthBytes -> T]
    BY ONLY <2>3, <2>4
  <2> QED BY ONLY <2>1, <2>5
<1>4. 0..255 \subseteq T /\ 128 \in T
  OBVIOUS
<1> HIDE DEF T
<1>5. Cells(buf, T)
  <2>1. buf \in [0..(BlockSize - 1) -> 0..255]
    BY <1>0 DEF Types, Cells
  <2> QED BY ONLY <1>4, <2>1 DEF Cells
<1>6. {0, 128} \subseteq T
  BY <1>4
<1>7. /\ Spill.fed \in Seq(T) /\ last \in Seq(T) /\ F0 \in Seq(T) /\ Len(F0) = curlen
      /\ Spill.fed \o last = F0 \o (<<128>> \o (zeros \o be))
  <2> DEFINE bits == length'
  <2>1. curlen \in Nat /\ curlen < BlockSize
    BY ONLY <1>1
  <2>2. BigEndian(bits) \in Seq(T)
    BY ONLY <1>3
  <2> HIDE DEF bits
  <2>3. /\ Spill.fed \in Seq(T)
        /\ Front(LastBlock(Spill.buf, Spill.n, bits), BlockSize) \in Seq(T)
        /\ Front(buf, curlen) \in Seq(T) /\ Len(Front(buf, curlen)) = curlen
        /\ Spill.fed \o Front(LastBlock(Spill.buf, Spill.n, bits), BlockSize) =
             Front(buf, curlen)
               \o (<<128>> \o (Zeros(Fill + (LengthAt - PadEnd)) \o BigEndian(bits)))
    BY ONLY <1>5, <1>6, <2>1, <2>2, PaddingIsRight
  <2> QED BY ONLY <2>3 DEF bits
<1>8. fed \in Seq(T) /\ zeros \in Seq(T)
  <2>1. fed \in Seq(T)
    <3>1. fed \in Seq(0..255)
      BY <1>1 DEF Bytes
    <3> QED BY ONLY <1>4, <3>1, SeqMonotonic
  <2>2. Fill + (LengthAt - PadEnd) \in Nat
    BY <1>1, SizesAreNumbers DEF Fill
  <2>3. zeros \in Seq({0})
    BY <2>2, ZerosConcat
  <2>4. {0} \subseteq T
    BY <1>6
  <2> HIDE DEF zeros
  <2>5. zeros \in Seq(T)
    BY ONLY <2>3, <2>4, SeqMonotonic
  <2> QED BY <2>1, <2>5
<1>9. stream = fed \o F0 /\ Len(stream) = Len(fed) + curlen
  <2>1. fed \o (F0 \o <<>>) = stream
    BY <1>0 DEF Hashing
  <2>2. F0 \o <<>> = F0
    BY ONLY <1>7, ConcatEmptySeq
  <2>3. Len(fed \o F0) = Len(fed) + Len(F0)
    BY ONLY <1>7, <1>8, ConcatProperties
  <2> QED BY <1>7, <2>1, <2>2, <2>3
<1> HIDE DEF last, be, F0, zeros
<1>10. fed' = stream \o <<128>> \o zeros \o be
  <2> DEFINE one == <<128>>
             padding == Spill.fed
  <2>1. one \in Seq(T)
    BY <1>6
  <2>2. padding \o last = F0 \o (one \o (zeros \o be))
    BY ONLY <1>7
  <2>3. /\ fed \in Seq(T) /\ padding \in Seq(T) /\ last \in Seq(T)
        /\ F0 \in Seq(T) /\ zeros \in Seq(T) /\ be \in Seq(T)
    BY ONLY <1>3, <1>7, <1>8
  <2>4. fed' = (fed \o padding) \o last
    BY ONLY <1>2
  <2>5. ((stream \o one) \o zeros) \o be = stream \o <<128>> \o zeros \o be
    BY ONLY TRUE, Zenon
  <2> HIDE DEF one, padding
  <2>6. Join(Join(fed, padding), last) = Join(fed, Join(padding, last))
    BY ONLY <2>3, JoinThree
  <2>7. Join(zeros, be) \in Seq(T) /\ Join(fed, F0) \in Seq(T)
    BY ONLY <2>3, JoinTwo
  <2>8. Join(one, Join(zeros, be)) \in Seq(T)
    BY ONLY <2>1, <2>7, JoinTwo
  <2>9. Join(fed, Join(F0, Join(one, Join(zeros, be)))) = Join(Join(fed, F0), Join(one, Join(zeros, be)))
    BY ONLY <2>3, <2>8, JoinThree
  <2>10. stream = Join(fed, F0)
    BY ONLY <1>9, Zenon DEF Join
  <2>11. Join(Join(Join(stream, one), zeros), be) = Join(stream, Join(one, Join(zeros, be)))
    <3>1. stream \in Seq(T)
      BY ONLY <2>7, <2>10
    <3> QED BY ONLY <2>1, <2>3, <3>1, JoinFour
  <2>12. /\ Join(padding, last) = Join(F0, Join(one, Join(zeros, be)))
         /\ fed' = Join(Join(fed, padding), last)
    BY ONLY <2>2, <2>4, Zenon DEF Join
  <2>13. fed' = Join(Join(Join(stream, one), zeros), be)
    BY ONLY <2>6, <2>9, <2>10, <2>11, <2>12
  <2>14. fed' = ((stream \o one) \o zeros) \o be
    BY ONLY <2>13, Zenon DEF Join
  <2> QED BY ONLY <2>5, <2>14, Zenon
<1>11. IsMod(length', 8 * Len(stream), LengthLimit)
  <2>1. Counted(length, Len(fed)) /\ curlen \in 0..BlockSize
    BY <1>0, <1>1 DEF Hashing
  <2>2. Counted(Plus(length, 8 * curlen), Len(fed) + curlen)
    BY ONLY <1>1, <2>1, CounterAdds
  <2>3. Len(stream) \in Nat /\ Counted(length', Len(stream))
    BY <1>1, <1>2, <1>9, <2>2
  <2> QED BY ONLY <2>3, CounterIsMod
<1>12. /\ Fill \in 0..(BlockSize - 1)
       /\ IsMod(0, Len(stream) + 1 + Fill + (BlockSize - PadEnd), BlockSize)
  <2>1. Whole(Len(fed))
    BY <1>0 DEF Hashing
  <2>2. /\ Fill \in 0..(BlockSize - 1)
        /\ IsMod(0, Len(fed) + curlen + 1 + Fill + (BlockSize - PadEnd), BlockSize)
    BY ONLY <1>1, <2>1, FillFits
  <2> QED BY <1>9, <2>2
<1>13. PaddedRight'
  BY <1>0, <1>10, <1>11, <1>12 DEF PaddedRight, be, zeros
<1> QED BY <1>0, <1>2, <1>13 DEF IInv

LEMMA NextPreserves == IInv /\ [Next]_vars => IInv'
<1> SUFFICES ASSUME IInv, [Next]_vars PROVE IInv'
  OBVIOUS
<1>1. CASE UpdateNull
  <2>1. UNCHANGED <<context, in, pc, message, stream>>
    BY <1>1 DEF UpdateNull
  <2> QED BY <2>1 DEF IInv, Types, Passed, Hashing, PaddedRight, context
<1>2. CASE UpdateReturns
  <2>1. pc = "update" /\ pc' = "ready" /\ in = <<>> /\ UNCHANGED <<context, in, message, stream>>
    BY <1>2 DEF UpdateReturns
  <2> QED BY <2>1 DEF IInv, Types, Passed, Hashing, context
<1>3. CASE UNCHANGED vars
  BY <1>3 DEF IInv, Types, Passed, Hashing, PaddedRight, vars, context
<1> QED
  BY <1>1, <1>2, <1>3, InitPreserves, UpdatePreserves, CompressPreserves, FillPreserves,
     FinalPreserves DEF Next, UpdateLoop

LEMMA Invariant == Spec => []IInv
BY Begins, NextPreserves, PTL DEF Spec

-----------------------------------------------------------------------------
(* The theorems                                                             *)

\* sha512_update(): what was compressed, what is in the buffer and what is left
\* of the piece are the message, in this order.
THEOREM NothingIsLost == Spec => []NothingLost
<1>1. IInv => NothingLost
  <2> SUFFICES ASSUME IInv, pc \in {"ready", "update"}
               PROVE  /\ fed \o Front(buf, curlen) \o in = stream
                      /\ IsMod(0, Len(fed), BlockSize) /\ IsMod(length, 8 * Len(fed), LengthLimit)
    BY DEF NothingLost
  <2>1. Types /\ Hashing
    BY DEF IInv
  <2>2. fed \in Bytes /\ in \in Bytes /\ Len(fed) \in Nat
    BY <2>1 DEF Types, Hashing, Bytes
  <2>3. Front(buf, curlen) \in Bytes
    <3>1. curlen \in Nat /\ curlen <= BlockSize /\ <<>> \in Seq(0..255)
      BY <2>1, SizesAreNumbers DEF Hashing, Types
    <3>2. EndsAt(<<>>, curlen, curlen)
      BY <3>1 DEF EndsAt
    <3>3. Cells(buf, 0..255)
      BY <2>1 DEF Types
    <3> QED BY ONLY <3>1, <3>2, <3>3, FrontPut DEF Bytes
  <2>4. (fed \o Front(buf, curlen)) \o in = fed \o (Front(buf, curlen) \o in)
    BY ONLY <2>2, <2>3, ThreeBytes
  <2>5. Whole(Len(fed)) /\ Counted(length, Len(fed))
    BY <2>1 DEF Hashing
  <2>6. IsMod(0, Len(fed), BlockSize) /\ IsMod(length, 8 * Len(fed), LengthLimit)
    BY ONLY <2>2, <2>5, WholeBlocks, CounterIsMod
  <2> QED BY <2>1, <2>4, <2>6 DEF Hashing
<1> QED BY <1>1, Invariant, PTL

\* sha512_final(): what was compressed in the end is the message and its padding.
THEOREM PaddedRightly == Spec => []PaddedRight
<1>1. IInv => PaddedRight
  BY DEF IInv, PaddedRight
<1> QED BY <1>1, Invariant, PTL
=============================================================================
