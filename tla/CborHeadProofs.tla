--------------------------- MODULE CborHeadProofs ---------------------------
(***************************************************************************)
(* For every 64-bit argument: the shift loop of D-CBOR announces the fewest *)
(* bytes there are, QCBOR's byte loop writes the same head, and what the    *)
(* decoder reads from it is the value that was given.                       *)
(***************************************************************************)
EXTENDS CborHead, SequenceTheorems, WellFoundedInduction, TLAPS

-----------------------------------------------------------------------------
(* Induction, and sequences joined and cut                                  *)

\* A set of natural numbers that is not empty has a least element.
LEMMA LeastElement ==
  ASSUME NEW T, T \subseteq Nat, T # {}
  PROVE  \E x \in T : \A y \in T : x <= y
<1> DEFINE R == OpToRel(<, Nat)
<1>1. IsWellFoundedOn(R, Nat)
  BY NatLessThanWellFounded, Zenon
<1>2. \A a, b \in Nat : a < b => <<a, b>> \in R
  BY DEF OpToRel
<1> HIDE DEF R
<1>3. PICK x \in T : \A y \in T : ~(<<y, x>> \in R)
  BY <1>1, WFMin
<1>4. \A y \in T : ~(y < x)
  BY <1>2, <1>3
<1> QED BY <1>4

\* One sequence behind the other, under a name the provers do not look into.
Join(x, y) == x \o y

LEMMA JoinTwo ==
  ASSUME NEW T, NEW a \in Seq(T), NEW b \in Seq(T)
  PROVE  Join(a, b) \in Seq(T) /\ Len(Join(a, b)) = Len(a) + Len(b)
BY ConcatProperties DEF Join

\* Its members.
LEMMA JoinHas ==
  ASSUME NEW T, NEW a \in Seq(T), NEW b \in Seq(T)
  PROVE  \A j \in 1..(Len(a) + Len(b)) :
           Join(a, b)[j] = IF j <= Len(a) THEN a[j] ELSE b[j - Len(a)]
BY ConcatProperties DEF Join

-----------------------------------------------------------------------------

(***************************************************************************)
(* The inductive invariant, one conjunct for each place in the program.     *)
(* Each loop has read or written a part of the argument, and the rest is    *)
(* the argument shifted by what is done.                                    *)
(***************************************************************************)
Given == Argument(item)

ItemOK ==
  /\ item.bits \in Word
  /\ \/ item.kind = "int" /\ item.size = 0
     \/ item.kind = "float" /\ item.size \in {2, 4, 8} /\ item.bits \subseteq 0..(8 * item.size - 1)

\* The bytes written before round n of QCBOR's loop.
Written(n) == CASE n = 0 -> 0 [] n = 1 -> 1 [] n = 2 -> 2 [] n = 3 -> 4 [] n = 4 -> 8

\* modifier and length go together, and length tells the bits there can be.
Widths == {<<27, 32>>, <<26, 16>>, <<25, 8>>, <<24, 4>>}

Narrowed == <<modifier, length>> \in Widths /\ Given \subseteq 0..(2 * length - 1)

\* What length and modifier are in the end.
Announced ==
  \/ item.kind = "int" /\ ~Above23(Given) /\ length = 0 /\ modifier = ValueOf(Given)
  \/ item.kind = "int" /\ Above23(Given) /\ Narrowed /\ \E b \in Given : b >= length
  \/ item.kind = "float" /\ Narrowed /\ length = 4 * item.size

WrittenD == Announced /\ dBytes = BytesOf(Given, length \div 4)

InDcbor  == pc = "dcbor"  => arg = Given
InDloop  == pc = "dloop"  => arg = Given /\ item.kind = "int" /\ Above23(Given) /\ Narrowed
InDvalue == pc = "dvalue" => arg = Given /\ Announced
InQcbor  == pc = "qcbor"  => arg = Given /\ WrittenD

Fresh == pc \in {"dcbor", "dloop", "dvalue", "qcbor"} => i = 0 /\ qBytes = <<>>

InQloop ==
  pc = "qloop" =>
    /\ WrittenD /\ i \in 0..4
    /\ Above23(Given) \/ item.size # 0
    /\ arg = ShiftRight(Given, 8 * Written(i))
    /\ nMinLen = item.size - Written(i)
    /\ qBytes = BytesOf(Given, Written(i))
    /\ i > 0 => item.size > Written(i - 1) \/ \E b \in Given : b >= 8 * Written(i - 1)

InDecode == pc = "decode" => WrittenD /\ modifier = addInfo /\ dBytes = qBytes

InKloop ==
  pc = "kloop" =>
    /\ WrittenD /\ modifier \in 24..27
    /\ left \in 0..(length \div 4) /\ decoded = ShiftRight(Given, 8 * left)

InKvalue == pc = "kvalue" => decoded = Given
InDone   == pc = "done" => decoded = item.bits

Places ==
  /\ InDcbor /\ InDloop /\ InDvalue /\ InQcbor /\ Fresh
  /\ InQloop /\ InDecode /\ InKloop /\ InKvalue /\ InDone

IInv == ItemOK /\ Places

-----------------------------------------------------------------------------
(* Words                                                                    *)

LEMMA ShiftRightHas ==
  ASSUME NEW w, w \subseteq Nat, NEW s \in Nat
  PROVE  \A x : x \in ShiftRight(w, s) <=> x \in Nat /\ x + s \in w
BY DEF ShiftRight

LEMMA ShiftLeftHas ==
  ASSUME NEW w, w \subseteq Nat, NEW s \in Nat
  PROVE  \A x : x \in ShiftLeft(w, s) <=> x \in 0..63 /\ x - s \in w
BY DEF ShiftLeft

LEMMA FieldHas ==
  ASSUME NEW w, w \subseteq Nat, NEW low \in Nat, NEW width \in Nat
  PROVE  \A x : x \in Field(w, low, width) <=> x \in 0..(width - 1) /\ x + low \in w
BY DEF Field, ShiftRight

\* The bytes in front, of a word that was shifted by what is behind.
LEMMA BytesJoin ==
  ASSUME NEW w, w \subseteq Nat, NEW n \in Nat, NEW k \in Nat
  PROVE  BytesOf(ShiftRight(w, 8 * k), n) \o BytesOf(w, k) = BytesOf(w, k + n)
<1> DEFINE v == ShiftRight(w, 8 * k)
           a == BytesOf(v, n)
           b == BytesOf(w, k)
           c == BytesOf(w, k + n)
<1>1. v \subseteq Nat /\ \A x : x \in v <=> x \in Nat /\ x + 8 * k \in w
  <2>1. 8 * k \in Nat
    OBVIOUS
  <2> QED BY <2>1, ShiftRightHas
<1> HIDE DEF v
<1>2. /\ a = [j \in 1..n |-> Field(v, 8 * (n - j), 8)]
      /\ b = [j \in 1..k |-> Field(w, 8 * (k - j), 8)]
      /\ c = [j \in 1..(k + n) |-> Field(w, 8 * (k + n - j), 8)]
  BY DEF BytesOf
<1> DEFINE T == SUBSET Nat
<1>3. a \in Seq(T) /\ b \in Seq(T) /\ c \in Seq(T) /\ Len(a) = n /\ Len(b) = k /\ Len(c) = k + n
  <2>1. \A u \in SUBSET Nat : \A l \in Nat : Field(u, l, 8) \in T
    <3> SUFFICES ASSUME NEW u \in SUBSET Nat, NEW l \in Nat PROVE Field(u, l, 8) \in T
      OBVIOUS
    <3>1. u \subseteq Nat /\ 8 \in Nat
      OBVIOUS
    <3>2. \A x : x \in Field(u, l, 8) <=> x \in 0..(8 - 1) /\ x + l \in u
      BY ONLY <3>1, l \in Nat, FieldHas
    <3> QED BY <3>2
  <2>2. a \in [1..n -> T]
    BY <1>1, <1>2, <2>1
  <2>3. b \in [1..k -> T]
    BY <1>2, <2>1
  <2>4. c \in [1..(k + n) -> T]
    BY <1>2, <2>1
  <2> QED BY <2>2, <2>3, <2>4
<1>4. \A j \in 1..n : a[j] = c[j]
  <2> SUFFICES ASSUME NEW j \in 1..n PROVE a[j] = c[j]
    OBVIOUS
  <2>1. 8 * (n - j) \in Nat /\ 8 * (k + n - j) \in Nat /\ 8 * (k + n - j) = 8 * (n - j) + 8 * k
    OBVIOUS
  <2>2. \A x : x \in Field(v, 8 * (n - j), 8) <=> x \in 0..(8 - 1) /\ x + 8 * (n - j) \in v
    BY <1>1, <2>1, FieldHas
  <2>3. \A x : x \in Field(w, 8 * (k + n - j), 8) <=> x \in 0..(8 - 1) /\ x + 8 * (k + n - j) \in w
    BY <2>1, FieldHas
  <2>4. \A x \in 0..(8 - 1) : x + 8 * (n - j) \in v <=> x + 8 * (k + n - j) \in w
    BY <1>1, <2>1
  <2>5. Field(v, 8 * (n - j), 8) = Field(w, 8 * (k + n - j), 8)
    BY <2>2, <2>3, <2>4
  <2> QED BY <1>2, <2>5
<1>5. \A j \in 1..k : b[j] = c[n + j]
  BY <1>2
<1> HIDE DEF a, b, c, T
<1> DEFINE e == Join(a, b)
<1>6. /\ e \in Seq(T) /\ Len(e) = n + k
      /\ \A j \in 1..(n + k) : e[j] = IF j <= n THEN a[j] ELSE b[j - n]
  <2>1. /\ e \in Seq(T) /\ Len(e) = Len(a) + Len(b)
        /\ \A j \in 1..(Len(a) + Len(b)) : e[j] = IF j <= Len(a) THEN a[j] ELSE b[j - Len(a)]
    <3>1. a \in Seq(T) /\ b \in Seq(T)
      BY <1>3
    <3> QED BY ONLY <3>1, JoinTwo, JoinHas DEF e
  <2> HIDE DEF e
  <2> QED BY ONLY <1>3, <2>1
<1> HIDE DEF e
<1>7. \A j \in 1..(n + k) : e[j] = c[j]
  <2> SUFFICES ASSUME NEW j \in 1..(n + k) PROVE e[j] = c[j]
    OBVIOUS
  <2>1. CASE j <= n
    BY <1>4, <1>6, <2>1
  <2>2. CASE ~(j <= n)
    <3>1. j - n \in 1..k /\ n + (j - n) = j
      BY <2>2
    <3>2. e[j] = b[j - n]
      BY <1>6, <2>2
    <3> QED BY <1>5, <3>1, <3>2
  <2> QED BY <2>1, <2>2
<1>8. e = c
  <2>1. Len(e) = Len(c) /\ \A j \in 1..Len(e) : e[j] = c[j]
    BY <1>3, <1>6, <1>7
  <2> QED BY ONLY <1>3, <1>6, <2>1, SeqEqual
<1> QED BY <1>8 DEF a, b, c, e, v, Join

-----------------------------------------------------------------------------
(* Arguments in the first byte                                              *)

Bit(s, b, n) == IF b \in s THEN n ELSE 0
SmallSum(s)  == Bit(s, 0, 1) + Bit(s, 1, 2) + Bit(s, 2, 4) + Bit(s, 3, 8) + Bit(s, 4, 16)

\* One bit less.
LEMMA SumWithout ==
  ASSUME NEW s, s \subseteq 0..4, NEW x \in s
  PROVE  2 ^ x \in Nat \ {0} /\ SmallSum(s) = 2 ^ x + SmallSum(s \ {x})
<1>1. 2 ^ 0 = 1 /\ 2 ^ 1 = 2 /\ 2 ^ 2 = 4 /\ 2 ^ 3 = 8 /\ 2 ^ 4 = 16
  OBVIOUS
<1>2. x = 0 \/ x = 1 \/ x = 2 \/ x = 3 \/ x = 4
  OBVIOUS
<1>3. CASE x = 0
  BY <1>1, <1>3 DEF SmallSum, Bit
<1>4. CASE x = 1
  BY <1>1, <1>4 DEF SmallSum, Bit
<1>5. CASE x = 2
  BY <1>1, <1>5 DEF SmallSum, Bit
<1>6. CASE x = 3
  BY <1>1, <1>6 DEF SmallSum, Bit
<1>7. CASE x = 4
  BY <1>1, <1>7 DEF SmallSum, Bit
<1> QED BY <1>2, <1>3, <1>4, <1>5, <1>6, <1>7

\* The sum that ValueOf() takes bit by bit is that of the five bits.
LEMMA ValueIsSum ==
  ASSUME NEW w, w \subseteq 0..4
  PROVE  ValueOf(w) = SmallSum(w)
<1> DEFINE Pick(s) == CHOOSE x \in s : TRUE
           P(g) == g = [s \in SUBSET w |-> IF s = {} THEN 0 ELSE 2 ^ Pick(s) + g[s \ {Pick(s)}]]
           h == [s \in SUBSET w |-> SmallSum(s)]
           f == CHOOSE g : P(g)
<1>1. ValueOf(w) = f[w]
  BY DEF ValueOf, MapThenSumSet, MapThenFoldSet
<1>2. \A s \in SUBSET w : s # {} => Pick(s) \in s
  OBVIOUS
<1> HIDE DEF Pick
<1>3. SmallSum({}) = 0
  BY DEF SmallSum, Bit
<1>4. \A s \in SUBSET w :
        s # {} => /\ SmallSum(s) = 2 ^ Pick(s) + SmallSum(s \ {Pick(s)})
                  /\ 2 ^ Pick(s) \in Nat \ {0}
  BY <1>2, SumWithout
<1>5. P(h)
  BY <1>2, <1>3, <1>4
<1>6. P(f)
  BY <1>5
<1> HIDE DEF f
<1>7. \A s \in SUBSET w : SmallSum(s) \in Nat
  BY DEF SmallSum, Bit
<1> DEFINE T == {SmallSum(s) : s \in {r \in SUBSET w : f[r] # SmallSum(r)}}
<1>8. T = {}
  <2> SUFFICES ASSUME T # {} PROVE FALSE
    OBVIOUS
  <2>1. T \subseteq Nat
    BY <1>7
  <2>2. PICK n \in T : \A y \in T : n <= y
    BY <2>1, LeastElement
  <2>3. PICK s \in SUBSET w : f[s] # SmallSum(s) /\ n = SmallSum(s)
    OBVIOUS
  <2>4. s # {}
    BY <1>3, <1>6, <2>3
  <2> DEFINE r == s \ {Pick(s)}
  <2>5. r \in SUBSET w /\ f[s] = 2 ^ Pick(s) + f[r]
    BY <1>6, <2>4
  <2>6. SmallSum(s) = 2 ^ Pick(s) + SmallSum(r) /\ SmallSum(r) < n
    BY <1>4, <1>7, <2>3, <2>4, <2>5
  <2>7. SmallSum(r) \notin T
    BY <1>7, <2>1, <2>2, <2>5, <2>6
  <2>8. f[r] = SmallSum(r)
    BY <2>5, <2>7
  <2> QED BY <2>3, <2>5, <2>6, <2>8
<1>9. f[w] = SmallSum(w)
  BY <1>8
<1> QED BY <1>1, <1>9

\* The powers of two that are too large for such an argument.
LEMMA LargeBits ==
  ASSUME NEW n \in 0..31, NEW b \in 5..30
  PROVE  n \div (2 ^ b) = 0
<1>1. 32 <= 2 ^ b
  <2>1. /\ 32 <= 2 ^ 5 /\ 32 <= 2 ^ 6 /\ 32 <= 2 ^ 7 /\ 32 <= 2 ^ 8 /\ 32 <= 2 ^ 9
        /\ 32 <= 2 ^ 10 /\ 32 <= 2 ^ 11 /\ 32 <= 2 ^ 12 /\ 32 <= 2 ^ 13 /\ 32 <= 2 ^ 14
        /\ 32 <= 2 ^ 15 /\ 32 <= 2 ^ 16 /\ 32 <= 2 ^ 17 /\ 32 <= 2 ^ 18 /\ 32 <= 2 ^ 19
        /\ 32 <= 2 ^ 20 /\ 32 <= 2 ^ 21 /\ 32 <= 2 ^ 22 /\ 32 <= 2 ^ 23 /\ 32 <= 2 ^ 24
        /\ 32 <= 2 ^ 25 /\ 32 <= 2 ^ 26 /\ 32 <= 2 ^ 27 /\ 32 <= 2 ^ 28 /\ 32 <= 2 ^ 29
        /\ 32 <= 2 ^ 30
    OBVIOUS
  <2>2. b \in {5, 6, 7, 8, 9, 10, 11, 12, 13, 14, 15, 16, 17, 18, 19, 20, 21, 22, 23, 24, 25, 26,
              27, 28, 29, 30}
    OBVIOUS
  <2> QED BY <2>1, <2>2
<1> DEFINE d == 2 ^ b
<1>2. d \in Nat /\ d > n
  <2>1. 2 \in Int /\ b \in Nat => d \in Int
    OBVIOUS
  <2> QED BY <1>1, <2>1
<1> HIDE DEF d
<1>3. n \div d = 0
  BY <1>2
<1> QED BY <1>3 DEF d

LEMMA SmallRoundTrip ==
  ASSUME NEW w \in Word, ~Above23(w)
  PROVE  ValueOf(w) \in 0..23 /\ WordOf(ValueOf(w)) = w
<1>1. w \subseteq 0..4 /\ ~(3 \in w /\ 4 \in w)
  BY DEF Above23, Word
<1> DEFINE n == SmallSum(w)
<1>2. ValueOf(w) = n
  BY <1>1, ValueIsSum
<1>3. n \in 0..23
  BY <1>1 DEF SmallSum, Bit
<1>4. /\ (n \div 1) % 2 = 1 <=> 0 \in w
      /\ (n \div 2) % 2 = 1 <=> 1 \in w
      /\ (n \div 4) % 2 = 1 <=> 2 \in w
      /\ (n \div 8) % 2 = 1 <=> 3 \in w
      /\ (n \div 16) % 2 = 1 <=> 4 \in w
  BY DEF SmallSum, Bit
<1> HIDE DEF n
<1>5. 2 ^ 0 = 1 /\ 2 ^ 1 = 2 /\ 2 ^ 2 = 4 /\ 2 ^ 3 = 8 /\ 2 ^ 4 = 16
  OBVIOUS
<1>6. ASSUME NEW b \in 0..30
      PROVE  (n \div (2 ^ b)) % 2 = 1 <=> b \in w
  <2>1. CASE b \in 5..30
    <3>1. n \in 0..31
      BY <1>3
    <3>2. n \div (2 ^ b) = 0
      BY ONLY <2>1, <3>1, LargeBits
    <3> QED BY <1>1, <2>1, <3>2
  <2>2. CASE b \in 0..4
    <3>1. b = 0 \/ b = 1 \/ b = 2 \/ b = 3 \/ b = 4
      BY <2>2
    <3> QED BY <1>4, <1>5, <3>1
  <2> QED BY <2>1, <2>2
<1>7. WordOf(n) = {b \in 0..30 : b \in w}
  BY <1>6 DEF WordOf
<1>8. {b \in 0..30 : b \in w} = w
  <2>1. \A b \in w : b \in 0..30
    BY <1>1
  <2> QED BY ONLY <2>1, Zenon
<1> QED BY <1>2, <1>3, <1>7, <1>8

-----------------------------------------------------------------------------
(* The steps                                                                *)

LEMMA GivenInside ==
  ASSUME ItemOK
  PROVE  /\ Given \subseteq 0..63 /\ Given \subseteq Nat /\ Given \in Word
         /\ item.kind = "float" => Given \subseteq 0..(8 * item.size - 1)
BY DEF ItemOK, Given, Argument, Complement, Word

LEMMA SameItem ==
  ASSUME item' = item
  PROVE  Given' = Given /\ ItemOK' = ItemOK
BY DEF Given, ItemOK

LEMMA InitEstablishes == Init => IInv
<1> SUFFICES ASSUME Init PROVE IInv
  OBVIOUS
<1>1. ItemOK
  <2>1. CASE \E w \in Ints : item = [kind |-> "int", bits |-> w, size |-> 0]
    BY <2>1, IntsAssumption DEF ItemOK
  <2>2. CASE \E f \in Floats : item = [kind |-> "float", bits |-> f.bits, size |-> f.size]
    <3> PICK f \in Floats : item = [kind |-> "float", bits |-> f.bits, size |-> f.size]
      BY <2>2
    <3>1. f.size \in {2, 4, 8} /\ f.bits \subseteq 0..(8 * f.size - 1)
      BY FloatsAssumption
    <3>2. f.bits \in Word
      BY <3>1 DEF Word
    <3> QED BY <3>1, <3>2 DEF ItemOK
  <2> QED BY <2>1, <2>2 DEF Init
<1>2. Places
  BY DEF Init, Places, Given, InDcbor, InDloop, InDvalue, InQcbor, Fresh, InQloop, InDecode,
         InKloop, InKvalue, InDone
<1> QED BY <1>1, <1>2 DEF IInv

LEMMA DFloatKeeps == ASSUME IInv, DFloat PROVE IInv'
<1>1. Given' = Given /\ ItemOK' /\ item' = item
  BY SameItem DEF IInv, DFloat
<1>2. arg' = Given /\ i' = 0 /\ qBytes' = <<>> /\ pc' = "dvalue"
  BY DEF DFloat, IInv, Places, InDcbor, Fresh
<1>3. Narrowed' /\ length' = 4 * item.size
  <2>1. item.kind = "float" /\ item.size \in {2, 4, 8}
    BY DEF IInv, ItemOK, DFloat
  <2>2. Given \subseteq 0..(8 * item.size - 1)
    BY <2>1, GivenInside DEF IInv
  <2>3. CASE item.size = 2
    BY <1>1, <2>2, <2>3 DEF DFloat, Narrowed, Widths
  <2>4. CASE item.size = 4
    BY <1>1, <2>2, <2>4 DEF DFloat, Narrowed, Widths
  <2>5. CASE item.size = 8
    BY <1>1, <2>2, <2>5 DEF DFloat, Narrowed, Widths
  <2> QED BY <2>1, <2>3, <2>4, <2>5
<1>4. Announced'
  BY <1>1, <1>3 DEF Announced, DFloat
<1> QED BY <1>1, <1>2, <1>4
        DEF IInv, Places, InDcbor, InDloop, InDvalue, InQcbor, Fresh, InQloop, InDecode,
            InKloop, InKvalue, InDone

LEMMA DStartKeeps == ASSUME IInv, DStart PROVE IInv'
<1>1. Given' = Given /\ ItemOK' /\ item' = item /\ item.kind = "int"
  BY SameItem DEF IInv, DStart
<1>2. arg = Given /\ arg' = Given /\ i' = 0 /\ qBytes' = <<>>
  BY DEF DStart, IInv, Places, InDcbor, Fresh
<1>3. CASE Above23(Given)
  <2>1. pc' = "dloop" /\ modifier' = 27 /\ length' = 32
    BY <1>2, <1>3 DEF DStart
  <2>2. Narrowed'
    BY <1>1, <2>1, GivenInside DEF Narrowed, Widths, IInv
  <2> QED BY <1>1, <1>2, <1>3, <2>1, <2>2
          DEF IInv, Places, InDcbor, InDloop, InDvalue, InQcbor, Fresh, InQloop, InDecode,
              InKloop, InKvalue, InDone
<1>4. CASE ~Above23(Given)
  <2>1. pc' = "dvalue" /\ modifier' = ValueOf(Given) /\ length' = 0
    BY <1>2, <1>4 DEF DStart
  <2>2. Announced'
    BY <1>1, <1>4, <2>1 DEF Announced
  <2> QED BY <1>1, <1>2, <2>1, <2>2
          DEF IInv, Places, InDcbor, InDloop, InDvalue, InQcbor, Fresh, InQloop, InDecode,
              InKloop, InKvalue, InDone
<1> QED BY <1>3, <1>4

\* The width is halved while the upper half of the argument is empty; what
\* does not fit in four bits ends the loop.
LEMMA DLoopKeeps == ASSUME IInv, DLoop PROVE IInv'
<1>1. Given' = Given /\ ItemOK' /\ item' = item /\ Given \subseteq 0..63
  BY SameItem, GivenInside DEF IInv, DLoop
<1>2. /\ arg = Given /\ arg' = Given /\ i' = 0 /\ qBytes' = <<>>
      /\ item.kind = "int" /\ Above23(Given) /\ Narrowed
  BY DEF DLoop, IInv, Places, InDloop, Fresh
<1>3. /\ length \in {32, 16, 8, 4} /\ Given \subseteq 0..(2 * length - 1)
      /\ modifier = CASE length = 32 -> 27 [] length = 16 -> 26 [] length = 8 -> 25 [] length = 4 -> 24
  BY <1>2 DEF Narrowed, Widths
<1>4. CASE Mask32(length) \cap Given = {}
  <2>1. pc' = "dloop" /\ modifier' = modifier - 1 /\ length' = length \div 2
    BY <1>2, <1>4 DEF DLoop
  <2>2. Given \subseteq 0..(length - 1)
    BY <1>3, <1>4 DEF Mask32
  <2>3. length # 4
    BY <1>2, <2>2 DEF Above23
  <2>4. Narrowed'
    <3>1. CASE length = 32
      BY <1>1, <1>3, <2>1, <2>2, <3>1 DEF Narrowed, Widths
    <3>2. CASE length = 16
      BY <1>1, <1>3, <2>1, <2>2, <3>2 DEF Narrowed, Widths
    <3>3. CASE length = 8
      BY <1>1, <1>3, <2>1, <2>2, <3>3 DEF Narrowed, Widths
    <3> QED BY <1>3, <2>3, <3>1, <3>2, <3>3
  <2> QED BY <1>1, <1>2, <2>1, <2>4
          DEF IInv, Places, InDcbor, InDloop, InDvalue, InQcbor, Fresh, InQloop, InDecode,
              InKloop, InKvalue, InDone
<1>5. CASE Mask32(length) \cap Given # {}
  <2>1. pc' = "dvalue" /\ modifier' = modifier /\ length' = length
    BY <1>2, <1>5 DEF DLoop
  <2>2. \E b \in Given : b >= length
    BY <1>3, <1>5 DEF Mask32
  <2>3. Announced'
    BY <1>1, <1>2, <2>1, <2>2 DEF Announced, Narrowed
  <2> QED BY <1>1, <1>2, <2>1, <2>3
          DEF IInv, Places, InDcbor, InDloop, InDvalue, InQcbor, Fresh, InQloop, InDecode,
              InKloop, InKvalue, InDone
<1> QED BY <1>4, <1>5

LEMMA DValueKeeps == ASSUME IInv, DValue PROVE IInv'
<1>1. Given' = Given /\ ItemOK' /\ item' = item
  BY SameItem DEF IInv, DValue
<1>2. /\ arg' = Given /\ i' = 0 /\ qBytes' = <<>> /\ pc' = "qcbor"
      /\ Announced /\ dBytes' = BytesOf(Given, length \div 4)
      /\ modifier' = modifier /\ length' = length
  BY DEF DValue, IInv, Places, InDvalue, Fresh
<1>3. WrittenD'
  BY <1>1, <1>2 DEF WrittenD, Announced, Narrowed
<1> QED BY <1>1, <1>2, <1>3
        DEF IInv, Places, InDcbor, InDloop, InDvalue, InQcbor, Fresh, InQloop, InDecode,
            InKloop, InKvalue, InDone

LEMMA NothingShifted ==
  ASSUME NEW w, w \subseteq Nat
  PROVE  ShiftRight(w, 0) = w /\ BytesOf(w, 0) = <<>>
<1>1. ShiftRight(w, 0) = w
  <2>1. 0 \in Nat
    OBVIOUS
  <2>2. \A x : x \in ShiftRight(w, 0) <=> x \in Nat /\ x + 0 \in w
    BY ONLY w \subseteq Nat, <2>1, ShiftRightHas
  <2>3. \A x \in Nat : x + 0 = x
    OBVIOUS
  <2> QED BY <2>2, <2>3
<1>2. BytesOf(w, 0) = <<>>
  BY DEF BytesOf
<1> QED BY <1>1, <1>2

LEMMA ShiftedTwice ==
  ASSUME NEW w, w \subseteq Nat, NEW s \in Nat, NEW t \in Nat
  PROVE  ShiftRight(ShiftRight(w, s), t) = ShiftRight(w, s + t)
<1> DEFINE v == ShiftRight(w, s)
<1>1. v \subseteq Nat /\ \A x : x \in v <=> x \in Nat /\ x + s \in w
  BY ShiftRightHas
<1> HIDE DEF v
<1>2. \A x : x \in ShiftRight(v, t) <=> x \in Nat /\ x + t \in v
  BY <1>1, ShiftRightHas
<1>3. \A x : x \in ShiftRight(w, s + t) <=> x \in Nat /\ x + (s + t) \in w
  <2>1. s + t \in Nat
    OBVIOUS
  <2> QED BY ONLY w \subseteq Nat, <2>1, ShiftRightHas
<1>4. \A x \in Nat : x + t \in v <=> x + (s + t) \in w
  BY <1>1
<1> QED BY <1>2, <1>3, <1>4 DEF v

LEMMA QStartKeeps == ASSUME IInv, QStart PROVE IInv'
<1>1. Given' = Given /\ ItemOK' /\ item' = item /\ Given \subseteq Nat
  BY SameItem, GivenInside DEF IInv, QStart
<1>2. arg = Given /\ arg' = Given /\ i' = 0 /\ qBytes' = <<>> /\ WrittenD /\ dBytes' = dBytes
  BY DEF QStart, IInv, Places, InQcbor, Fresh
<1>3. WrittenD'
  BY <1>1, <1>2 DEF QStart, WrittenD, Announced, Narrowed
<1>4. ShiftRight(Given, 0) = Given /\ BytesOf(Given, 0) = <<>>
  BY <1>1, NothingShifted
<1>5. CASE Above23(arg) \/ item.size # 0
  <2>1. pc' = "qloop" /\ nMinLen' = item.size - Written(0) /\ item.size \in Int
    BY <1>5 DEF QStart, Written, IInv, ItemOK
  <2>2. InQloop'
    BY <1>1, <1>2, <1>3, <1>4, <1>5, <2>1 DEF InQloop, Written
  <2> QED BY <1>1, <1>2, <2>1, <2>2
          DEF IInv, Places, InDcbor, InDloop, InDvalue, InQcbor, Fresh, InQloop, InDecode,
              InKloop, InKvalue, InDone
<1>6. CASE ~(Above23(arg) \/ item.size # 0)
  <2>1. pc' = "decode" /\ addInfo' = ValueOf(Given) /\ modifier' = modifier
    BY <1>2, <1>6 DEF QStart
  <2>2. item.kind = "int" /\ length = 0 /\ modifier = ValueOf(Given)
    BY <1>2, <1>6 DEF WrittenD, Announced, Narrowed, IInv, ItemOK
  <2>3. 0 \div 4 = 0
    OBVIOUS
  <2>4. dBytes = <<>>
    BY <1>2, <1>4, <2>2, <2>3 DEF WrittenD
  <2> QED BY <1>1, <1>2, <1>3, <2>1, <2>2, <2>4
          DEF IInv, Places, InDcbor, InDloop, InDvalue, InQcbor, Fresh, InQloop, InDecode,
              InKloop, InKvalue, InDone
<1> QED BY <1>5, <1>6

\* A round of QCBOR's loop, while something of the argument is left, or fewer
\* bytes than a float has were written.
LEMMA QLoopGoesOn ==
  ASSUME IInv, QLoop, arg # {} \/ nMinLen > 0
  PROVE  IInv'
<1> DEFINE k == Written(i)
           n == EncodeIterate[i + 1]
<1>1. Given' = Given /\ ItemOK' /\ item' = item /\ Given \subseteq 0..63 /\ Given \subseteq Nat
  BY SameItem, GivenInside DEF IInv, QLoop
<1>2. /\ pc = "qloop" /\ pc' = "qloop" /\ i' = i + 1 /\ WrittenD
      /\ i \in 0..4 /\ arg = ShiftRight(Given, 8 * k) /\ qBytes = BytesOf(Given, k)
      /\ nMinLen = item.size - k
      /\ Above23(Given) \/ item.size # 0
      /\ qBytes' = BytesOf(arg, n) \o qBytes /\ arg' = ShiftRight(arg, 8 * n)
      /\ nMinLen' = nMinLen - n
  BY DEF QLoop, IInv, Places, InQloop
<1>3. WrittenD'
  BY <1>1, <1>2 DEF QLoop, WrittenD, Announced, Narrowed
<1>4. item.size \in Nat /\ item.size <= 8
  BY DEF IInv, ItemOK
<1>5. k \in Nat /\ (i = 4 => k = 8)
  BY <1>2 DEF Written
<1>6. arg # {} => \E b \in Given : b >= 8 * k
  <2>1. 8 * k \in Nat
    BY <1>5
  <2>2. \A x : x \in arg <=> x \in Nat /\ x + 8 * k \in Given
    BY <1>1, <1>2, <2>1, ShiftRightHas
  <2> QED BY <2>1, <2>2
<1>7. i # 4
  <2> SUFFICES ASSUME i = 4 PROVE FALSE
    OBVIOUS
  <2>1. k = 8 /\ ~(nMinLen > 0)
    BY <1>2, <1>4, <1>5
  <2>2. PICK b \in Given : b >= 8 * k
    BY <1>6, <2>1
  <2> QED BY <1>1, <2>1, <2>2
<1>8. n \in Nat /\ Written(i + 1) = k + n /\ Written(i + 1 - 1) = k
  BY <1>2, <1>7 DEF EncodeIterate, Written
<1> HIDE DEF k, n
<1>9. arg' = ShiftRight(Given, 8 * (k + n))
  <2>1. 8 * k \in Nat /\ 8 * n \in Nat /\ 8 * k + 8 * n = 8 * (k + n)
    BY <1>5, <1>8
  <2>2. ShiftRight(ShiftRight(Given, 8 * k), 8 * n) = ShiftRight(Given, 8 * k + 8 * n)
    BY ONLY <1>1, <2>1, ShiftedTwice
  <2> QED BY <1>2, <2>1, <2>2
<1>10. qBytes' = BytesOf(Given, k + n)
  BY <1>1, <1>2, <1>5, <1>8, BytesJoin
<1>11. nMinLen' = item.size - (k + n)
  BY <1>2, <1>4, <1>5, <1>8
<1>12. item.size > k \/ \E b \in Given : b >= 8 * k
  BY <1>2, <1>4, <1>5, <1>6
<1>13. i' \in 0..4 /\ i' - 1 = i + 1 - 1 /\ i' = i + 1
  BY <1>2, <1>7
<1>14. InQloop'
  BY <1>1, <1>2, <1>3, <1>8, <1>9, <1>10, <1>11, <1>12, <1>13 DEF InQloop
<1> QED BY <1>1, <1>2, <1>14
        DEF IInv, Places, InDcbor, InDloop, InDvalue, InQcbor, Fresh, InQloop, InDecode,
            InKloop, InKvalue, InDone

\* Nothing is left: the number of rounds is the one D-CBOR's loop came to.
LEMMA QLoopEnds ==
  ASSUME IInv, QLoop, ~(arg # {} \/ nMinLen > 0)
  PROVE  IInv'
<1> DEFINE k == Written(i)
<1>1. Given' = Given /\ ItemOK' /\ item' = item /\ Given \subseteq 0..63 /\ Given \subseteq Nat
  BY SameItem, GivenInside DEF IInv, QLoop
<1>2. /\ pc' = "decode" /\ addInfo' = 23 + i /\ WrittenD
      /\ i \in 0..4 /\ arg = ShiftRight(Given, 8 * k) /\ qBytes = BytesOf(Given, k)
      /\ nMinLen = item.size - k
      /\ Above23(Given) \/ item.size # 0
      /\ qBytes' = qBytes /\ modifier' = modifier /\ dBytes' = dBytes /\ length' = length
      /\ i > 0 => item.size > Written(i - 1) \/ \E b \in Given : b >= 8 * Written(i - 1)
  BY DEF QLoop, IInv, Places, InQloop
<1>3. WrittenD'
  BY <1>1, <1>2 DEF QLoop, WrittenD, Announced, Narrowed
<1>4. item.size \in {0, 2, 4, 8} /\ (item.kind = "int" => item.size = 0)
      /\ (item.kind = "float" => item.size # 0)
  BY DEF IInv, ItemOK
<1>5. k \in {0, 1, 2, 4, 8} /\ item.size <= k
  BY <1>2, <1>4 DEF Written
<1>6. \A b \in Given : b < 8 * k
  <2>1. 8 * k \in Nat
    BY <1>5
  <2>2. \A x : x \in arg <=> x \in Nat /\ x + 8 * k \in Given
    <3>1. \A x : x \in ShiftRight(Given, 8 * k) <=> x \in Nat /\ x + 8 * k \in Given
      BY ONLY <1>1, <2>1, ShiftRightHas
    <3> QED BY <1>2, <3>1
  <2> SUFFICES ASSUME NEW b \in Given, b >= 8 * k PROVE FALSE
    BY <1>1, <2>1
  <2>3. b - 8 * k \in Nat /\ b - 8 * k + 8 * k = b
    BY <1>1, <2>1
  <2>4. b - 8 * k \in arg
    BY <2>2, <2>3
  <2> QED BY <2>4
<1>7. Above23(Given) => Given # {}
  BY DEF Above23
<1>8. /\ Written(0) = 0 /\ Written(1) = 1 /\ Written(2) = 2 /\ Written(3) = 4 /\ Written(4) = 8
      /\ 1 - 1 = 0 /\ 2 - 1 = 1 /\ 3 - 1 = 2 /\ 4 - 1 = 3
  BY DEF Written
<1>9. i # 0
  <2> SUFFICES ASSUME i = 0 PROVE FALSE
    OBVIOUS
  <2>1. k = 0
    BY <1>8
  <2>2. item.size = 0
    BY <1>4, <1>5, <2>1
  <2>3. PICK b \in Given : TRUE
    BY <1>2, <1>7, <2>2
  <2> QED BY <1>1, <1>6, <2>1, <2>3
<1>10. Narrowed /\ (item.kind = "float" => length = 4 * item.size)
                /\ (item.kind = "int" => \E b \in Given : b >= length)
  BY <1>2, <1>4, <1>9 DEF WrittenD, Announced
<1> DEFINE Form(m, l) == modifier = m /\ length = l
<1>11. Form(27, 32) \/ Form(26, 16) \/ Form(25, 8) \/ Form(24, 4)
  BY <1>10 DEF Narrowed, Widths
<1>12. \A b \in Given : b < 2 * length
  BY <1>1, <1>10, <1>11 DEF Narrowed
<1>13. /\ length < 8 * k
       /\ 8 * Written(i - 1) < 2 * length \/ item.size > Written(i - 1)
       /\ item.size = 0 \/ length = 4 * item.size
  <2>1. length < 8 * k
    <3>1. CASE item.kind = "int"
      <4> PICK b \in Given : b >= length
        BY <1>10, <3>1
      <4>1. b < 8 * k /\ b \in Nat
        BY <1>1, <1>6
      <4> QED BY <1>5, <1>11, <4>1
    <3>2. CASE item.kind = "float"
      <4>1. length = 4 * item.size /\ item.size # 0
        BY <1>4, <1>10, <3>2
      <4> QED BY <1>4, <1>5, <4>1
    <3> QED BY <3>1, <3>2 DEF IInv, ItemOK
  <2>2. 8 * Written(i - 1) < 2 * length \/ item.size > Written(i - 1)
    <3>1. CASE item.size > Written(i - 1)
      BY <3>1
    <3>2. CASE \E b \in Given : b >= 8 * Written(i - 1)
      <4> PICK b \in Given : b >= 8 * Written(i - 1)
        BY <3>2
      <4>1. b < 2 * length /\ b \in Nat
        BY <1>1, <1>12
      <4>2. Written(i - 1) \in Nat
        BY <1>2, <1>9 DEF Written
      <4> QED BY <1>11, <4>1, <4>2
    <3> QED BY <1>2, <1>9, <3>1, <3>2
  <2>3. item.size = 0 \/ length = 4 * item.size
    BY <1>4, <1>10 DEF IInv, ItemOK
  <2> QED BY <2>1, <2>2, <2>3
<1>14. modifier = 23 + i /\ length \div 4 = k
  <2>1. CASE i = 1
    BY <1>4, <1>5, <1>8, <1>11, <1>13, <2>1
  <2>2. CASE i = 2
    BY <1>4, <1>5, <1>8, <1>11, <1>13, <2>2
  <2>3. CASE i = 3
    BY <1>4, <1>5, <1>8, <1>11, <1>13, <2>3
  <2>4. CASE i = 4
    BY <1>4, <1>5, <1>8, <1>11, <1>13, <2>4
  <2> QED BY <1>2, <1>9, <2>1, <2>2, <2>3, <2>4
<1>15. dBytes = qBytes
  BY <1>2, <1>14 DEF WrittenD
<1> QED BY <1>1, <1>2, <1>3, <1>14, <1>15
        DEF IInv, Places, InDcbor, InDloop, InDvalue, InQcbor, Fresh, InQloop, InDecode,
            InKloop, InKvalue, InDone

LEMMA KStartKeeps == ASSUME IInv, KStart PROVE IInv'
<1>1. Given' = Given /\ ItemOK' /\ item' = item /\ Given \subseteq 0..63 /\ Given \subseteq Nat
      /\ Given \in Word
  BY SameItem, GivenInside DEF IInv, KStart
<1>2. WrittenD /\ WrittenD' /\ modifier' = modifier /\ length' = length
  BY <1>1 DEF KStart, IInv, Places, InDecode, WrittenD, Announced, Narrowed
<1>3. CASE modifier \in 24..27
  <2>1. pc' = "kloop" /\ decoded' = {} /\ left' = DecodeIterate[modifier - 23]
    BY <1>3 DEF KStart
  <2>2. Narrowed
    <3>1. ~Above23(Given) => ValueOf(Given) \in 0..23
      BY <1>1, SmallRoundTrip
    <3> QED BY <1>2, <1>3, <3>1 DEF WrittenD, Announced
  <2>3. left' = length \div 4 /\ length \div 4 \in {1, 2, 4, 8} /\ 2 * length = 8 * (length \div 4)
    BY <2>1, <2>2 DEF Narrowed, Widths, DecodeIterate
  <2>4. decoded' = ShiftRight(Given, 8 * left')
    <3> DEFINE l == 8 * left'
    <3>1. l \in Nat /\ 2 * length = l
      BY <2>3
    <3>2. \A b \in Given : b < l
      BY <1>1, <2>2, <3>1 DEF Narrowed
    <3> HIDE DEF l
    <3>3. \A x : x \in ShiftRight(Given, l) <=> x \in Nat /\ x + l \in Given
      BY ONLY <1>1, <3>1, ShiftRightHas
    <3>4. \A x \in Nat : ~(x + l < l)
      BY <3>1
    <3>5. ShiftRight(Given, l) = {}
      BY <3>2, <3>3, <3>4
    <3> QED BY <2>1, <3>5 DEF l
  <2>5. left' \in 0..(length \div 4)
    BY <2>3
  <2> QED BY <1>1, <1>2, <1>3, <2>1, <2>4, <2>5
          DEF IInv, Places, InDcbor, InDloop, InDvalue, InQcbor, Fresh, InQloop, InDecode,
              InKloop, InKvalue, InDone
<1>4. CASE modifier \notin 24..27
  <2>1. pc' = "kvalue" /\ decoded' = WordOf(modifier)
    BY <1>4 DEF KStart
  <2>2. ~Narrowed
    BY <1>4 DEF Narrowed, Widths
  <2>3. ~Above23(Given) /\ modifier = ValueOf(Given)
    BY <1>2, <2>2 DEF WrittenD, Announced
  <2>4. decoded' = Given
    BY <1>1, <2>1, <2>3, SmallRoundTrip
  <2> QED BY <1>1, <2>1, <2>4
          DEF IInv, Places, InDcbor, InDloop, InDvalue, InQcbor, Fresh, InQloop, InDecode,
              InKloop, InKvalue, InDone
<1> QED BY <1>3, <1>4

\* One byte more of a word is read behind what was.
LEMMA ByteRead ==
  ASSUME NEW w, w \subseteq 0..63, NEW n \in Nat, n > 0
  PROVE  ShiftLeft(ShiftRight(w, 8 * n), 8) \cup Field(w, 8 * (n - 1), 8)
           = ShiftRight(w, 8 * (n - 1))
<1> DEFINE l == 8 * (n - 1)
           v == ShiftRight(w, 8 * n)
<1>0. w \subseteq Nat /\ l \in Nat /\ 8 * n = l + 8 /\ 8 * n \in Nat /\ 8 \in Nat
  OBVIOUS
<1>1. v \subseteq Nat /\ \A x : x \in v <=> x \in Nat /\ x + 8 * n \in w
  BY ONLY <1>0, ShiftRightHas
<1> HIDE DEF l, v
<1>2. \A x : x \in ShiftLeft(v, 8) <=> x \in 0..63 /\ x - 8 \in v
  BY ONLY <1>0, <1>1, ShiftLeftHas
<1>3. \A x : x \in Field(w, l, 8) <=> x \in 0..(8 - 1) /\ x + l \in w
  BY ONLY <1>0, FieldHas
<1>4. \A x : x \in ShiftRight(w, l) <=> x \in Nat /\ x + l \in w
  BY ONLY <1>0, ShiftRightHas
<1>5. ASSUME NEW x \in Nat
      PROVE  x + l \in w <=> x \in ShiftLeft(v, 8) \/ x \in Field(w, l, 8)
  <2>1. CASE x <= 7
    <3>1. x - 8 \notin v
      BY <1>1, <2>1
    <3> QED BY <1>2, <1>3, <2>1, <3>1
  <2>2. CASE x > 7
    <3>1. x - 8 \in Nat /\ (x - 8) + 8 * n = x + l /\ x \notin 0..(8 - 1)
      BY <1>0, <2>2
    <3>2. x - 8 \in v <=> x + l \in w
      BY <1>1, <3>1
    <3>3. x + l \in w => x \in 0..63
      BY <1>0
    <3> QED BY <1>2, <1>3, <3>1, <3>2, <3>3
  <2> QED BY <2>1, <2>2
<1>6. ShiftLeft(v, 8) \cup Field(w, l, 8) = ShiftRight(w, l)
  <2>1. \A x : x \in ShiftLeft(v, 8) \/ x \in Field(w, l, 8) => x \in Nat
    BY <1>2, <1>3
  <2> QED BY <1>4, <1>5, <2>1
<1> QED BY <1>6 DEF l, v

LEMMA KLoopKeeps == ASSUME IInv, KLoop PROVE IInv'
<1> DEFINE c == length \div 4
<1>1. Given' = Given /\ ItemOK' /\ item' = item /\ Given \subseteq 0..63 /\ Given \subseteq Nat
  BY SameItem, GivenInside DEF IInv, KLoop
<1>2. /\ WrittenD /\ WrittenD' /\ modifier \in 24..27 /\ modifier' = modifier /\ length' = length
      /\ left \in 0..c /\ decoded = ShiftRight(Given, 8 * left) /\ dBytes = BytesOf(Given, c)
  BY <1>1 DEF KLoop, IInv, Places, InKloop, WrittenD, Announced, Narrowed
<1>3. CASE left > 0
  <2>1. /\ pc' = "kloop" /\ left' = left - 1
        /\ decoded' = ShiftLeft(decoded, 8) \cup dBytes[Len(dBytes) - left + 1]
    BY <1>3 DEF KLoop
  <2>2. c \in Nat /\ left \in Nat
    <3>1. length \in Nat
      BY <1>2 DEF WrittenD, Announced, Narrowed, Widths
    <3> QED BY <1>2, <3>1
  <2> HIDE DEF c
  <2>3. Len(dBytes) = c /\ \A j \in 1..c : dBytes[j] = Field(Given, 8 * (c - j), 8)
    BY <1>2, <2>2 DEF BytesOf
  <2>4. c - left + 1 \in 1..c /\ c - (c - left + 1) = left - 1
    BY <1>2, <1>3, <2>2
  <2>5. dBytes[Len(dBytes) - left + 1] = Field(Given, 8 * (left - 1), 8)
    BY <2>3, <2>4
  <2>6. decoded' = ShiftRight(Given, 8 * left')
    <3>1. ShiftLeft(ShiftRight(Given, 8 * left), 8) \cup Field(Given, 8 * (left - 1), 8)
            = ShiftRight(Given, 8 * (left - 1))
      BY <1>1, <1>3, <2>2, ByteRead
    <3> QED BY <1>2, <2>1, <2>5, <3>1
  <2>7. left' \in 0..c
    BY <1>2, <1>3, <2>1, <2>2
  <2> QED BY <1>1, <1>2, <2>1, <2>6, <2>7
          DEF c, IInv, Places, InDcbor, InDloop, InDvalue, InQcbor, Fresh, InQloop, InDecode,
              InKloop, InKvalue, InDone
<1>4. CASE ~(left > 0)
  <2>1. pc' = "kvalue" /\ decoded' = decoded
    BY <1>4 DEF KLoop
  <2>2. left = 0 /\ 8 * left = 0
    BY <1>2, <1>4
  <2>3. decoded' = Given
    BY <1>1, <1>2, <2>1, <2>2, NothingShifted
  <2> QED BY <1>1, <2>1, <2>3
          DEF IInv, Places, InDcbor, InDloop, InDvalue, InQcbor, Fresh, InQloop, InDecode,
              InKloop, InKvalue, InDone
<1> QED BY <1>3, <1>4

LEMMA KValueKeeps == ASSUME IInv, KValue PROVE IInv'
<1>1. Given' = Given /\ ItemOK' /\ item' = item /\ item.bits \in Word
  BY SameItem DEF IInv, KValue, ItemOK
<1>2. decoded = Given /\ pc' = "done"
  BY DEF KValue, IInv, Places, InKvalue
<1>3. decoded' = item.bits
  BY <1>1, <1>2 DEF KValue, Given, Argument, Complement, Word
<1> QED BY <1>1, <1>2, <1>3
        DEF IInv, Places, InDcbor, InDloop, InDvalue, InQcbor, Fresh, InQloop, InDecode,
            InKloop, InKvalue, InDone

LEMMA StepKeeps == IInv /\ [Next]_vars => IInv'
<1> SUFFICES ASSUME IInv, [Next]_vars PROVE IInv'
  OBVIOUS
<1>1. CASE UNCHANGED vars
  BY <1>1 DEF vars, IInv, ItemOK, Places, Given, InDcbor, InDloop, InDvalue, InQcbor, Fresh, InQloop,
              InDecode, InKloop, InKvalue, InDone, WrittenD, Announced, Narrowed
<1>2. CASE QLoop
  BY <1>2, QLoopGoesOn, QLoopEnds
<1> QED BY <1>1, <1>2, DFloatKeeps, DStartKeeps, DLoopKeeps, DValueKeeps, QStartKeeps,
           KStartKeeps, KLoopKeeps, KValueKeeps DEF Next

LEMMA Inductive == Spec => []IInv
BY InitEstablishes, StepKeeps, PTL DEF Spec

\* For every 64-bit integer encodeTagAndN() announces the fewest argument bytes
\* that CBOR allows for it.
THEOREM AlwaysShortest == Spec => []Shortest
<1>1. IInv => Shortest
  <2> SUFFICES ASSUME IInv, pc = "qcbor", item.kind = "int" PROVE Shortest
    BY DEF Shortest
  <2> DEFINE c == length \div 4
  <2>1. WrittenD /\ Given \subseteq 0..63
    BY GivenInside DEF IInv, Places, InQcbor
  <2>2. length \in {0, 32, 16, 8, 4} /\ (length = 0 <=> ~Above23(Given))
        /\ (length # 0 => Given \subseteq 0..(2 * length - 1) /\ \E b \in Given : b >= length)
    BY <2>1 DEF WrittenD, Announced, Narrowed, Widths
  <2>3. c \in {0, 1, 2, 4, 8} /\ length = 4 * c
    BY <2>2
  <2> HIDE DEF c
  <2>4. Len(dBytes) = c
    BY <2>1, <2>3 DEF WrittenD, BytesOf, c
  <2>5. c # 0 => Given \subseteq 0..(8 * c - 1)
    BY <2>2, <2>3
  <2>6. ASSUME NEW n \in {1, 2, 4}, n < c, Given \subseteq 0..(8 * n - 1)
        PROVE  FALSE
    <3> PICK b \in Given : b >= length
      BY <2>2, <2>3, <2>6
    <3>1. 8 * n <= 4 * c
      BY <2>3, <2>6
    <3> QED BY <2>3, <2>6, <3>1
  <2> DEFINE fits(count) == Given \subseteq 0..(8 * count - 1)
             l == Len(dBytes)
  <2>7. /\ l \in {0, 1, 2, 4, 8}
        /\ l = 0 <=> ~Above23(Given)
        /\ fits(l) \/ l = 0
        /\ \A count \in {1, 2, 4} : count < l => ~fits(count)
    <3>1. l = c
      BY <2>4
    <3> HIDE DEF l
    <3>2. l = 0 <=> ~Above23(Given)
      BY <2>2, <2>3, <3>1
    <3>3. fits(l) \/ l = 0
      BY <2>5, <3>1
    <3>4. \A count \in {1, 2, 4} : count < l => ~fits(count)
      BY <2>6, <3>1
    <3> QED BY <2>3, <3>1, <3>2, <3>3, <3>4
  <2> QED BY <2>7 DEF Shortest, Given
<1> QED BY <1>1, Inductive, PTL

\* For every 64-bit integer and every float the two encoders write the same head,
\* and the decoder reads the value that was given from it.
THEOREM AlwaysRoundTrip == Spec => []RoundTrip
<1>1. IInv => RoundTrip
  BY DEF IInv, Places, InDecode, InDone, RoundTrip
<1> QED BY <1>1, Inductive, PTL

=============================================================================
