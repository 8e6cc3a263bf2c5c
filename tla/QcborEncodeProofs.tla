-------------------------- MODULE QcborEncodeProofs --------------------------
(***************************************************************************)
(* For every nesting limit, item limit and buffer, and calls in any order:  *)
(* positions stay right, an overflow is not lost, and the bytes of a        *)
(* wrapped string are given back.  The flat output, with its remembered     *)
(* positions and its insertions, implements the level by level collection   *)
(* of NestedItems.  What is finished with success is well formed.           *)
(***************************************************************************)
EXTENDS QcborEncode, SequenceTheorems, WellFoundedInduction, TLAPS

-----------------------------------------------------------------------------
(* Induction, and sequences joined and cut                                  *)

\* A set of natural numbers that is not empty has a least element.
LEMMA LeastElement ==
  ASSUME NEW T, T \subseteq Nat, T # {}
  PROVE  \E x \in T : \A y \in T : x <= y
<1> DEFINE R == OpToRel(<, Nat)
<1>1. IsWellFoundedOn(R, Nat)
  BY NatLessThanWellFounded, Zenon
<1>2. \A a, b \in Nat : a < b => <<a, b>> \in R
  BY DEF OpToRel
<1> HIDE DEF R
<1>3. PICK x \in T : \A y \in T : ~(<<y, x>> \in R)
  BY <1>1, WFMin
<1>4. \A y \in T : ~(y < x)
  BY <1>2, <1>3
<1> QED BY <1>4

\* Induction, for a set in the place of a predicate.
LEMMA SetInduction ==
  ASSUME NEW S, 0 \in S, \A n \in Nat : n \in S => n + 1 \in S
  PROVE  Nat \subseteq S
<1> DEFINE T == Nat \ S
<1> SUFFICES ASSUME T # {} PROVE FALSE
  OBVIOUS
<1>1. PICK x \in T : \A y \in T : x <= y
  BY LeastElement
<1>2. x # 0 /\ x - 1 \in Nat
  OBVIOUS
<1>3. x - 1 \in S
  BY <1>1, <1>2
<1> QED BY <1>2, <1>3

\* Induction over sequences, from the front to the back.
LEMMA SequenceInduction ==
  ASSUME NEW T, NEW Q, <<>> \in Q, \A s \in Seq(T) : s \in Q => \A x \in T : Append(s, x) \in Q
  PROVE  Seq(T) \subseteq Q
<1> DEFINE S == {n \in Nat : \A s \in Seq(T) : Len(s) = n => s \in Q}
<1>1. 0 \in S
  BY EmptySeq
<1>2. ASSUME NEW n \in Nat, n \in S PROVE n + 1 \in S
  <2> SUFFICES ASSUME NEW s \in Seq(T), Len(s) = n + 1 PROVE s \in Q
    OBVIOUS
  <2>1. s # <<>>
    BY EmptySeq
  <2>2. PICK u \in Seq(T), x \in T : s = Append(u, x)
    BY <2>1, SequenceEmptyOrAppend
  <2>3. Len(u) = n
    BY <2>2, AppendProperties
  <2>4. u \in Q
    BY <1>2, <2>3
  <2> QED BY <2>2, <2>4
<1>3. Nat \subseteq S
  BY <1>1, <1>2, SetInduction
<1> SUFFICES ASSUME NEW s \in Seq(T) PROVE s \in Q
  OBVIOUS
<1>4. Len(s) \in S
  BY <1>3
<1> QED BY <1>4

\* One sequence behind the other, under a name the provers do not look into.
Join(x, y) == x \o y

LEMMA JoinTwo ==
  ASSUME NEW T, NEW a \in Seq(T), NEW b \in Seq(T)
  PROVE  Join(a, b) \in Seq(T) /\ Len(Join(a, b)) = Len(a) + Len(b)
BY ConcatProperties DEF Join

LEMMA JoinThree ==
  ASSUME NEW T, NEW a \in Seq(T), NEW b \in Seq(T), NEW c \in Seq(T)
  PROVE  Join(Join(a, b), c) = Join(a, Join(b, c))
BY ConcatAssociative, SMTT(60) DEF Join

LEMMA JoinEmpty ==
  ASSUME NEW T, NEW a \in Seq(T)
  PROVE  <<>> \in Seq(T) /\ Join(<<>>, a) = a /\ Join(a, <<>>) = a
BY ConcatEmptySeq DEF Join

\* One member more behind the second.
LEMMA JoinAppend ==
  ASSUME NEW T, NEW a \in Seq(T), NEW b \in Seq(T), NEW x \in T
  PROVE  Join(a, Append(b, x)) = Append(Join(a, b), x)
<1>1. Append(b, x) = Join(b, <<x>>) /\ <<x>> \in Seq(T)
  BY AppendIsConcat DEF Join
<1>2. Join(a, b) \in Seq(T)
  BY JoinTwo
<1>3. Append(Join(a, b), x) = Join(Join(a, b), <<x>>)
  BY <1>2, AppendIsConcat DEF Join
<1> DEFINE e == <<x>>
<1>4. e \in Seq(T)
  BY <1>1
<1> HIDE DEF e
<1>5. Join(Join(a, b), e) = Join(a, Join(b, e))
  BY ONLY a \in Seq(T), b \in Seq(T), <1>4, JoinThree
<1> QED BY ONLY <1>1, <1>3, <1>5 DEF e

\* What is between two places of a sequence.
Slice(s, a, b) == SubSeq(s, a + 1, b)

LEMMA SliceIs ==
  ASSUME NEW T, NEW s \in Seq(T), NEW b \in 0..Len(s), NEW a \in 0..b
  PROVE  /\ Slice(s, a, b) \in Seq(T) /\ Len(Slice(s, a, b)) = b - a
         /\ \A i \in 1..(b - a) : Slice(s, a, b)[i] = s[a + i]
<1>1. Len(s) \in Nat /\ \A i \in 1..Len(s) : s[i] \in T
  BY ElementOfSeq
<1>2. a + 1 \in Int /\ b \in Int /\ \A i \in (a + 1)..b : s[i] \in T
  BY ONLY <1>1, b \in 0..Len(s), a \in 0..b
<1> DEFINE c == SubSeq(s, a + 1, b)
<1>3. /\ c \in Seq(T) /\ Len(c) = (IF a + 1 <= b THEN b - (a + 1) + 1 ELSE 0)
      /\ \A i \in 1..(b - (a + 1) + 1) : c[i] = s[a + 1 + i - 1]
  BY ONLY <1>2, SubSeqProperties
<1> HIDE DEF c
<1>4. a \in Int /\ b \in Int /\ a <= b
  BY ONLY <1>1, b \in 0..Len(s), a \in 0..b
<1>5. Len(c) = b - a /\ b - (a + 1) + 1 = b - a
  BY ONLY <1>3, <1>4
<1>6. \A i \in 1..(b - a) : c[i] = s[a + i]
  <2> SUFFICES ASSUME NEW i \in 1..(b - a) PROVE c[i] = s[a + i]
    OBVIOUS
  <2>1. a + 1 + i - 1 = a + i
    BY ONLY <1>4, i \in 1..(b - a)
  <2> QED BY ONLY <1>3, <1>5, <2>1, i \in 1..(b - a)
<1> QED BY ONLY <1>3, <1>5, <1>6 DEF Slice, c

\* Two pieces that meet are one.
LEMMA SlicesMeet ==
  ASSUME NEW T, NEW s \in Seq(T), NEW c \in 0..Len(s), NEW b \in 0..c, NEW a \in 0..b
  PROVE  Join(Slice(s, a, b), Slice(s, b, c)) = Slice(s, a, c)
<1>1. Len(s) \in Nat
  OBVIOUS
<1>2. /\ a + 1 \in 1..(Len(s) + 1) /\ b \in (a + 1 - 1)..Len(s) /\ c \in b..Len(s)
  BY ONLY <1>1, c \in 0..Len(s), b \in 0..c, a \in 0..b
<1> QED BY <1>2, ConcatAdjacentSubSeq, SMTT(30) DEF Join, Slice

\* All of it.
LEMMA SliceAll ==
  ASSUME NEW T, NEW s \in Seq(T)
  PROVE  Slice(s, 0, Len(s)) = s
BY SubSeqFull DEF Slice

\* A piece of the first of two sequences, and the second.
LEMMA SliceOfJoin ==
  ASSUME NEW T, NEW s \in Seq(T), NEW t \in Seq(T)
  PROVE  /\ \A b \in 0..Len(s) : \A a \in 0..b : Slice(Join(s, t), a, b) = Slice(s, a, b)
         /\ Slice(Join(s, t), Len(s), Len(s) + Len(t)) = t
<1> DEFINE w == Join(s, t)
           m == Len(s)
           n == Len(t)
<1>1. m \in Nat /\ n \in Nat
  OBVIOUS
<1>2. /\ w \in Seq(T) /\ Len(w) = m + n
      /\ \A i \in 1..(m + n) : w[i] = IF i <= m THEN s[i] ELSE t[i - m]
  BY ConcatProperties DEF Join
<1>3. Len(s) = m /\ Len(t) = n
  OBVIOUS
<1> HIDE DEF w, m, n
<1>4. ASSUME NEW b \in 0..m, NEW a \in 0..b
      PROVE  Slice(w, a, b) = Slice(s, a, b)
  <2>1. b \in 0..Len(w) /\ b \in 0..Len(s)
    BY ONLY <1>1, <1>2, <1>3, <1>4
  <2>2. /\ Slice(w, a, b) \in Seq(T) /\ Len(Slice(w, a, b)) = b - a
        /\ \A i \in 1..(b - a) : Slice(w, a, b)[i] = w[a + i]
    BY ONLY <1>2, <1>4, <2>1, SliceIs
  <2>3. /\ Slice(s, a, b) \in Seq(T) /\ Len(Slice(s, a, b)) = b - a
        /\ \A i \in 1..(b - a) : Slice(s, a, b)[i] = s[a + i]
    BY ONLY s \in Seq(T), <1>4, <2>1, SliceIs
  <2>4. \A i \in 1..(b - a) : w[a + i] = s[a + i]
    <3> SUFFICES ASSUME NEW i \in 1..(b - a) PROVE w[a + i] = s[a + i]
      OBVIOUS
    <3>1. a + i \in 1..(m + n) /\ a + i <= m
      BY ONLY <1>1, <1>4, i \in 1..(b - a)
    <3> QED BY ONLY <1>2, <3>1
  <2> QED BY ONLY <2>2, <2>3, <2>4, SeqEqual
<1>5. Slice(w, m, m + n) = t
  <2> DEFINE e == m + n
  <2>1. e \in 0..Len(w) /\ m \in 0..e /\ e - m = n
    BY ONLY <1>1, <1>2
  <2>0. w \in Seq(T)
    BY ONLY <1>2
  <2> HIDE DEF e
  <2>4. /\ Slice(w, m, e) \in Seq(T) /\ Len(Slice(w, m, e)) = e - m
        /\ \A i \in 1..(e - m) : Slice(w, m, e)[i] = w[m + i]
    BY ONLY <2>0, <2>1, SliceIs
  <2>2. /\ Slice(w, m, m + n) \in Seq(T) /\ Len(Slice(w, m, m + n)) = n
        /\ \A i \in 1..n : Slice(w, m, m + n)[i] = w[m + i]
    BY ONLY <2>1, <2>4 DEF e
  <2>3. \A i \in 1..n : w[m + i] = t[i]
    <3> SUFFICES ASSUME NEW i \in 1..n PROVE w[m + i] = t[i]
      OBVIOUS
    <3> DEFINE j == m + i
    <3>1. j \in 1..(m + n) /\ ~(j <= m) /\ j - m = i
      BY ONLY <1>1, i \in 1..n
    <3> HIDE DEF j
    <3>2. w[j] = t[j - m]
      BY ONLY <1>2, <3>1
    <3>3. w[j] = t[i]
      BY ONLY <3>1, <3>2
    <3> QED BY ONLY <3>3 DEF j
  <2> QED BY ONLY t \in Seq(T), <1>3, <2>2, <2>3, SeqEqual
<1> QED BY ONLY <1>4, <1>5, Zenon DEF w, m, n

LEMMA SliceOfFirst ==
  ASSUME NEW T, NEW s \in Seq(T), NEW t \in Seq(T), NEW b \in 0..Len(s), NEW a \in 0..b
  PROVE  Slice(Join(s, t), a, b) = Slice(s, a, b)
BY SliceOfJoin, SMTT(30)

\* A sequence with another put in at a place: what was in front of it is as it was,
\* and behind it is what was.
LEMMA Inserted ==
  ASSUME NEW T, NEW d \in Seq(T), NEW b \in Seq(T), NEW p \in 0..Len(d), NEW w,
         w = Join(Join(Slice(d, 0, p), b), Slice(d, p, Len(d)))
  PROVE  /\ w \in Seq(T) /\ Len(w) = Len(d) + Len(b)
         /\ \A n \in 0..p : \A m \in 0..n : Slice(w, m, n) = Slice(d, m, n)
         /\ Slice(w, p, Len(w)) = Join(b, Slice(d, p, Len(d)))
         /\ Slice(w, p + Len(b), Len(w)) = Slice(d, p, Len(d))
<1> DEFINE l == Len(d)
           k == Len(b)
           x == Slice(d, 0, p)
           y == Slice(d, p, l)
<1>0. l \in Nat /\ k \in Nat /\ p \in 0..l /\ l \in 0..Len(d) /\ p \in Nat
  OBVIOUS
<1>1. l = Len(d) /\ k = Len(b)
  OBVIOUS
<1> HIDE DEF l, k
<1>2. p \in 0..Len(d) /\ 0 \in 0..p /\ p - 0 = p
  BY ONLY <1>0, <1>1
<1>3. x \in Seq(T) /\ Len(x) = p
  BY ONLY d \in Seq(T), <1>2, SliceIs
<1>4. y \in Seq(T) /\ Len(y) = l - p
  BY ONLY d \in Seq(T), <1>0, SliceIs
<1>5. d = Join(x, y)
  <2>1. Join(Slice(d, 0, p), Slice(d, p, l)) = Slice(d, 0, l)
    BY ONLY d \in Seq(T), <1>0, <1>2, SlicesMeet
  <2>2. Slice(d, 0, l) = d
    BY ONLY d \in Seq(T), <1>1, SliceAll
  <2> QED BY ONLY <2>1, <2>2 DEF x, y
<1>6. w = Join(Join(x, b), y)
  BY ONLY <1>1, w = Join(Join(Slice(d, 0, p), b), Slice(d, p, Len(d))) DEF x, y
<1> HIDE DEF x, y
<1>7. Join(x, b) \in Seq(T) /\ Len(Join(x, b)) = p + k
  BY ONLY b \in Seq(T), <1>1, <1>3, JoinTwo
<1>8. w \in Seq(T) /\ Len(w) = l + k
  <2>1. /\ Join(Join(x, b), y) \in Seq(T)
        /\ Len(Join(Join(x, b), y)) = Len(Join(x, b)) + Len(y)
    <3>1. Join(x, b) \in Seq(T) /\ y \in Seq(T)
      BY ONLY <1>4, <1>7
    <3> QED BY ONLY <3>1, JoinTwo
  <2>2. p + k + (l - p) = l + k
    BY ONLY <1>0
  <2> QED BY ONLY <1>4, <1>6, <1>7, <2>1, <2>2
<1>9. Join(b, y) \in Seq(T) /\ Len(Join(b, y)) = k + (l - p)
  BY ONLY b \in Seq(T), <1>1, <1>4, JoinTwo
<1>10. w = Join(x, Join(b, y))
  BY ONLY b \in Seq(T), <1>3, <1>4, <1>6, JoinThree
<1>11. \A n \in 0..p : \A m \in 0..n : Slice(w, m, n) = Slice(d, m, n)
  <2>0. x \in Seq(T) /\ y \in Seq(T) /\ Join(b, y) \in Seq(T)
    BY ONLY <1>3, <1>4, <1>9
  <2> SUFFICES ASSUME NEW n \in 0..p, NEW m \in 0..n PROVE Slice(w, m, n) = Slice(d, m, n)
    OBVIOUS
  <2>1. n \in 0..Len(x)
    BY ONLY <1>3, n \in 0..p
  <2>2. Slice(Join(x, Join(b, y)), m, n) = Slice(x, m, n)
    BY ONLY <2>0, <2>1, m \in 0..n, SliceOfFirst
  <2>3. Slice(Join(x, y), m, n) = Slice(x, m, n)
    BY ONLY <2>0, <2>1, m \in 0..n, SliceOfFirst
  <2> QED BY ONLY <1>5, <1>10, <2>2, <2>3
<1>12. Slice(w, p, l + k) = Join(b, y)
  <2>0. x \in Seq(T) /\ Join(b, y) \in Seq(T)
    BY ONLY <1>3, <1>9
  <2>1. Slice(Join(x, Join(b, y)), Len(x), Len(x) + Len(Join(b, y))) = Join(b, y)
    BY ONLY <2>0, SliceOfJoin
  <2>2. p + (k + (l - p)) = l + k
    BY ONLY <1>0
  <2> QED BY ONLY <1>3, <1>9, <1>10, <2>1, <2>2
<1>13. Slice(w, p + k, l + k) = y
  <2>0. Join(x, b) \in Seq(T) /\ y \in Seq(T)
    BY ONLY <1>4, <1>7
  <2>1. Slice(Join(Join(x, b), y), Len(Join(x, b)), Len(Join(x, b)) + Len(y)) = y
    BY ONLY <2>0, SliceOfJoin
  <2>2. p + k + (l - p) = l + k
    BY ONLY <1>0
  <2> QED BY ONLY <1>4, <1>6, <1>7, <2>1, <2>2
<1> QED BY ONLY <1>1, <1>8, <1>11, <1>12, <1>13 DEF y

\* Behind a sequence.
LEMMA Appended ==
  ASSUME NEW T, NEW d \in Seq(T), NEW b \in Seq(T), NEW p \in 0..Len(d)
  PROVE  Slice(Join(d, b), p, Len(d) + Len(b)) = Join(Slice(d, p, Len(d)), b)
<1> DEFINE w == Join(d, b)
           l == Len(d)
           k == Len(b)
<1>0. l \in Nat /\ k \in Nat /\ p \in 0..l /\ l \in 0..(l + k) /\ l \in 0..Len(d)
  OBVIOUS
<1>1. l = Len(d) /\ k = Len(b)
  OBVIOUS
<1> HIDE DEF w, l, k
<1>2. w \in Seq(T) /\ Len(w) = l + k
  BY ONLY d \in Seq(T), b \in Seq(T), <1>1, JoinTwo DEF w
<1>3. l + k \in 0..Len(w)
  BY ONLY <1>0, <1>2
<1>4. Join(Slice(w, p, l), Slice(w, l, l + k)) = Slice(w, p, l + k)
  BY ONLY <1>0, <1>2, <1>3, SlicesMeet
<1>5. /\ \A x \in 0..Len(d) : \A y \in 0..x : Slice(Join(d, b), y, x) = Slice(d, y, x)
      /\ Slice(Join(d, b), Len(d), Len(d) + Len(b)) = b
  BY ONLY d \in Seq(T), b \in Seq(T), SliceOfJoin
<1>6. Slice(w, p, l) = Slice(d, p, l) /\ Slice(w, l, l + k) = b
  BY ONLY <1>0, <1>1, <1>5 DEF w
<1>7. Slice(w, p, l + k) = Join(Slice(d, p, l), b)
  BY ONLY <1>4, <1>6
<1> QED BY ONLY <1>1, <1>7 DEF w

-----------------------------------------------------------------------------

Kinds  == {"int", "string", "byte", "tag", "array", "map", "bstr", "openArray", "openMap",
           "break", "more"}
Token  == Kinds \X Int
Level  == [major : Kinds, count : Int, start : Nat]
Errors == {"SUCCESS", "ARRAY_TOO_LONG", "TOO_MANY_CLOSES", "CLOSE_MISMATCH",
           "ENCODE_UNSUPPORTED", "BUFFER_TOO_LARGE", "NESTING_TOO_DEEP", "CANNOT_CANCEL",
           "BUFFER_TOO_SMALL"}

Bytes  == Seq(Token)
Stacks == Seq(Level)

\* The starts of the levels, one behind the other and none behind n.
Ordered(stack, n) ==
  \A l \in 1..Len(stack) :
    /\ stack[l].start <= n
    /\ \A m \in 1..l : stack[m].start <= stack[l].start

(***************************************************************************)
(* The inductive invariant of all states, those after an error included.    *)
(***************************************************************************)
Types ==
  /\ size \in Nat /\ late \in Nat /\ err \in BOOLEAN /\ uError \in Errors
  /\ data \in Bytes /\ nesting \in Stacks
  /\ nesting = <<>> => uError # "SUCCESS"

IInv == Types /\ Ordered(nesting, Len(data)) /\ OverflowNeverSucceeds

-----------------------------------------------------------------------------
(* Heads and the output                                                     *)

LEMMA HeadIsBytes ==
  ASSUME NEW major \in Kinds, NEW n \in Int
  PROVE  EncodeHead(major, n) \in Bytes /\ Len(EncodeHead(major, n)) \in {1, 2}
<1> DEFINE one == <<<<major, n>>>>
           two == <<<<"more", 0>>>>
<1>1. one \in Bytes /\ two \in Bytes /\ Len(one) = 1 /\ Len(two) = 1
  BY DEF Bytes, Token, Kinds
<1> HIDE DEF one, two
<1>2. Join(one, two) \in Bytes /\ Len(Join(one, two)) = 2
  <2>1. one \in Seq(Token) /\ two \in Seq(Token)
    BY ONLY <1>1 DEF Bytes
  <2>2. Join(one, two) \in Seq(Token) /\ Len(Join(one, two)) = Len(one) + Len(two)
    BY ONLY <2>1, JoinTwo
  <2> QED BY ONLY <1>1, <2>2 DEF Bytes
<1>3. Join(one, <<>>) = one
  BY ONLY <1>1, JoinEmpty DEF Bytes
<1>4. EncodeHead(major, n) = IF n > Direct THEN Join(one, two) ELSE Join(one, <<>>)
  BY DEF EncodeHead, Join, one, two
<1> QED BY ONLY <1>1, <1>2, <1>3, <1>4

\* An insertion leaves the output a sequence that is no shorter, and in front of
\* its position what it was.
InsertedIn(old, new, p) ==
  /\ new \in Bytes /\ Len(old) <= Len(new)
  /\ \A n \in 0..p : \A m \in 0..n : Slice(new, m, n) = Slice(old, m, n)

LEMMA InsertWorks ==
  ASSUME data \in Bytes, err \in BOOLEAN, NEW b \in Bytes, NEW p \in 0..Len(data),
         InsertUsefulBuf(b, p)
  PROVE  /\ err' \in BOOLEAN /\ (err => err') /\ InsertedIn(data, data', p)
         /\ ~err' => /\ ~err
                     /\ Len(data') = Len(data) + Len(b)
                     /\ Slice(data', p, Len(data')) = Join(b, Slice(data, p, Len(data)))
                     /\ Slice(data', p + Len(b), Len(data')) = Slice(data, p, Len(data))
<1> DEFINE w == Join(Join(Slice(data, 0, p), b), Slice(data, p, Len(data)))
<1>1. InsertedIn(data, data, p)
  BY DEF InsertedIn, Bytes
<1>2. /\ w \in Bytes /\ Len(w) = Len(data) + Len(b)
      /\ \A n \in 0..p : \A m \in 0..n : Slice(w, m, n) = Slice(data, m, n)
      /\ Slice(w, p, Len(w)) = Join(b, Slice(data, p, Len(data)))
      /\ Slice(w, p + Len(b), Len(w)) = Slice(data, p, Len(data))
  BY Inserted DEF Bytes
<1>3. Len(data) \in Nat /\ Len(b) \in Nat
  BY DEF Bytes
<1>4. SubSeq(data, 1, p) \o b \o SubSeq(data, p + 1, Len(data)) = w
  BY DEF Slice, Join
<1> HIDE DEF w
<1>5. InsertedIn(data, w, p)
  BY ONLY <1>2, <1>3 DEF InsertedIn
<1>6. \/ err' = err /\ data' = data /\ err
      \/ err' = TRUE /\ data' = data
      \/ ~err /\ data' = w /\ err' = err
  BY <1>4 DEF InsertUsefulBuf
<1> QED BY ONLY <1>1, <1>2, <1>5, <1>6, err \in BOOLEAN

LEMMA AppendWorks ==
  ASSUME data \in Bytes, err \in BOOLEAN, NEW b \in Bytes, AppendUsefulBuf(b)
  PROVE  /\ err' \in BOOLEAN /\ (err => err') /\ InsertedIn(data, data', Len(data))
         /\ ~err' => ~err /\ data' = Join(data, b)
<1>1. Len(data) \in 0..Len(data) /\ Len(data) \in Nat
  BY DEF Bytes
<1>2. InsertUsefulBuf(b, Len(data))
  BY DEF AppendUsefulBuf
<1>3. err' \in BOOLEAN /\ (err => err') /\ InsertedIn(data, data', Len(data))
  BY ONLY data \in Bytes, err \in BOOLEAN, b \in Bytes, <1>1, <1>2, InsertWorks
<1>4. ASSUME ~err' PROVE ~err /\ data' = Join(data, b)
  <2> DEFINE tail == SubSeq(data, Len(data) + 1, Len(data))
  <2>1. ~err /\ data' = SubSeq(data, 1, Len(data)) \o b \o tail
    BY <1>2, <1>4 DEF InsertUsefulBuf
  <2>2. tail = <<>>
    BY <1>1
  <2>3. SubSeq(data, 1, Len(data)) = data
    BY SubSeqFull DEF Bytes
  <2>4. Join(data, b) \in Bytes
    BY JoinTwo DEF Bytes
  <2>5. Join(Join(data, b), <<>>) = Join(data, b)
    BY ONLY <2>4, JoinEmpty DEF Bytes
  <2> HIDE DEF tail
  <2>6. data' = Join(Join(data, b), <<>>)
    BY ONLY <2>1, <2>2, <2>3 DEF Join
  <2> QED BY ONLY <2>1, <2>5, <2>6
<1> QED BY ONLY <1>3, <1>4

-----------------------------------------------------------------------------
(* The stack                                                                *)

\* A level with another count.
Recount(s, l, c) == [s EXCEPT ![l].count = c]

LEMMA RecountIs ==
  ASSUME NEW s \in Stacks, NEW l \in 1..Len(s), NEW c \in Int
  PROVE  /\ Recount(s, l, c) \in Stacks /\ Len(Recount(s, l, c)) = Len(s)
         /\ \A i \in 1..Len(s) :
              /\ Recount(s, l, c)[i].start = s[i].start
              /\ Recount(s, l, c)[i].major = s[i].major
              /\ Recount(s, l, c)[i].count = IF i = l THEN c ELSE s[i].count
<1> DEFINE n == Len(s)
           t == Recount(s, l, c)
           new == [s[l] EXCEPT !.count = c]
<1>1. n \in Nat /\ s \in [1..n -> Level] /\ l \in 1..n /\ n = Len(s)
  BY DEF Stacks
<1>2. t = [i \in 1..n |-> IF i = l THEN new ELSE s[i]]
  BY <1>1 DEF Recount
<1>3. s[l] \in Level
  BY ONLY <1>1
<1> HIDE DEF n, t
<1>4. new \in Level /\ new.start = s[l].start /\ new.major = s[l].major /\ new.count = c
  BY ONLY <1>3, c \in Int DEF Level
<1> HIDE DEF new
<1>5. t \in [1..n -> Level]
  BY ONLY <1>1, <1>2, <1>4
<1>6. t \in Stacks /\ Len(t) = n
  BY ONLY <1>1, <1>5 DEF Stacks
<1>7. \A i \in 1..n : /\ t[i].start = s[i].start /\ t[i].major = s[i].major
                      /\ t[i].count = IF i = l THEN c ELSE s[i].count
  BY ONLY <1>2, <1>4
<1> QED BY ONLY <1>1, <1>6, <1>7 DEF t

LEMMA RecountKeeps ==
  ASSUME NEW s \in Stacks, NEW l \in 1..Len(s), NEW c \in Int, NEW n, Ordered(s, n)
  PROVE  Ordered(Recount(s, l, c), n)
<1>1. /\ Len(Recount(s, l, c)) = Len(s) /\ Len(s) \in Nat
      /\ \A i \in 1..Len(s) : Recount(s, l, c)[i].start = s[i].start
  BY RecountIs DEF Stacks
<1> DEFINE t == Recount(s, l, c)
           k == Len(s)
<1>2. /\ \A i \in 1..k : s[i].start <= n /\ \A m \in 1..i : s[m].start <= s[i].start
      /\ Len(t) = k /\ k \in Nat /\ \A i \in 1..k : t[i].start = s[i].start
  BY <1>1 DEF Ordered
<1> HIDE DEF t, k
<1>3. ASSUME NEW i \in 1..k
      PROVE  t[i].start <= n /\ \A m \in 1..i : t[m].start <= t[i].start
  <2>1. \A m \in 1..i : m \in 1..k
    BY ONLY <1>2, <1>3
  <2> QED BY ONLY <1>2, <1>3, <2>1
<1> QED BY ONLY <1>2, <1>3 DEF Ordered, t

LEMMA FrontIs ==
  ASSUME NEW s \in Stacks, s # <<>>
  PROVE  /\ Len(s) \in Nat \ {0} /\ Last(s) = s[Len(s)] /\ Last(s) \in Level
         /\ Front(s) \in Stacks /\ Len(Front(s)) = Len(s) - 1
         /\ \A i \in 1..(Len(s) - 1) : Front(s)[i] = s[i]
<1>1. Len(s) \in Nat /\ s \in Seq(Level) /\ Len(s) # 0
  BY EmptySeq DEF Stacks
<1>2. Last(s) = s[Len(s)] /\ s[Len(s)] \in Level
  BY ONLY <1>1, ElementOfSeq DEF Last
<1> DEFINE m == Len(s) - 1
<1>3. m \in 0..Len(s) /\ 0 \in 0..m /\ m - 0 = m /\ (\A i \in 1..m : 0 + i = i) /\ 0 + 1 = 1
  BY ONLY <1>1
<1>4. Front(s) = SubSeq(s, 1, m)
  BY DEF Front
<1> HIDE DEF m
<1>5. /\ Slice(s, 0, m) \in Seq(Level) /\ Len(Slice(s, 0, m)) = m - 0
      /\ \A i \in 1..(m - 0) : Slice(s, 0, m)[i] = s[0 + i]
  BY ONLY <1>1, <1>3, SliceIs
<1>6. Slice(s, 0, m) = Front(s)
  BY ONLY <1>3, <1>4 DEF Slice
<1>7. Front(s) \in Stacks /\ Len(Front(s)) = m /\ \A i \in 1..m : Front(s)[i] = s[i]
  BY ONLY <1>3, <1>5, <1>6 DEF Stacks
<1> QED BY ONLY <1>1, <1>2, <1>7 DEF m

LEMMA FrontKeeps ==
  ASSUME NEW s \in Stacks, s # <<>>, NEW n, Ordered(s, n)
  PROVE  Ordered(Front(s), n)
<1>1. /\ Len(s) \in Nat /\ Len(Front(s)) = Len(s) - 1
      /\ \A i \in 1..(Len(s) - 1) : Front(s)[i] = s[i]
  BY FrontIs
<1> DEFINE t == Front(s)
           l == Len(s)
<1>2. /\ \A i \in 1..l : s[i].start <= n /\ \A m \in 1..i : s[m].start <= s[i].start
      /\ Len(t) = l - 1 /\ \A i \in 1..(l - 1) : t[i] = s[i]
      /\ l \in Nat
  BY <1>1 DEF Ordered
<1> HIDE DEF t, l
<1>3. ASSUME NEW i \in 1..(l - 1)
      PROVE  t[i].start <= n /\ \A m \in 1..i : t[m].start <= t[i].start
  <2>1. i \in 1..l /\ \A m \in 1..i : m \in 1..(l - 1)
    BY ONLY <1>2, <1>3
  <2> QED BY ONLY <1>2, <1>3, <2>1
<1> QED BY ONLY <1>2, <1>3 DEF Ordered, t

\* A level that begins at the end.
Opened(major, n) == [major |-> major, count |-> 0, start |-> n]

LEMMA OpenedIs ==
  ASSUME NEW s \in Stacks, NEW major \in Kinds, NEW n \in Nat
  PROVE  /\ Append(s, Opened(major, n)) \in Stacks /\ Len(Append(s, Opened(major, n))) = Len(s) + 1
         /\ \A i \in 1..Len(s) : Append(s, Opened(major, n))[i] = s[i]
         /\ Append(s, Opened(major, n))[Len(s) + 1] = Opened(major, n)
<1>1. Opened(major, n) \in Level
  BY DEF Opened, Level
<1>2. s \in Seq(Level)
  BY DEF Stacks
<1> QED BY ONLY <1>1, <1>2, AppendProperties DEF Stacks

LEMMA OpenedKeeps ==
  ASSUME NEW s \in Stacks, NEW major \in Kinds, NEW n \in Nat, Ordered(s, n)
  PROVE  Ordered(Append(s, Opened(major, n)), n)
<1> DEFINE t == Append(s, Opened(major, n))
           l == Len(s)
<1>1. /\ Len(t) = l + 1 /\ l \in Nat /\ (\A i \in 1..l : t[i] = s[i]) /\ t[l + 1].start = n
  BY OpenedIs DEF Opened, Stacks
<1>2. \A i \in 1..l : s[i].start <= n /\ \A m \in 1..i : s[m].start <= s[i].start
  BY DEF Ordered
<1> HIDE DEF t, l
<1>3. ASSUME NEW i \in 1..(l + 1)
      PROVE  t[i].start <= n /\ \A m \in 1..i : t[m].start <= t[i].start
  <2>1. CASE i \in 1..l
    <3>1. \A m \in 1..i : m \in 1..l
      BY ONLY <1>1, <2>1
    <3> QED BY ONLY <1>1, <1>2, <2>1, <3>1
  <2>2. CASE i = l + 1
    <3>1. \A m \in 1..i : m \in 1..l \/ m = l + 1
      BY ONLY <1>1, <2>2
    <3> QED BY ONLY <1>1, <1>2, <2>2, <3>1, n \in Nat
  <2> QED BY ONLY <1>1, <2>1, <2>2, <1>3
<1> QED BY ONLY <1>1, <1>3 DEF Ordered, t

LEMMA OrderedMore ==
  ASSUME NEW s \in Stacks, NEW m \in Nat, NEW n \in Nat, m <= n, Ordered(s, m)
  PROVE  Ordered(s, n)
<1>1. \A l \in 1..Len(s) : s[l].start \in Nat
  <2>1. s \in [1..Len(s) -> Level]
    BY DEF Stacks
  <2> QED BY ONLY <2>1 DEF Level
<1>2. \A l \in 1..Len(s) : s[l].start <= m /\ \A i \in 1..l : s[i].start <= s[l].start
  BY DEF Ordered
<1>3. \A l \in 1..Len(s) : s[l].start <= n
  BY ONLY <1>1, <1>2, m \in Nat, n \in Nat, m <= n
<1> QED BY ONLY <1>2, <1>3 DEF Ordered

-----------------------------------------------------------------------------
(* The steps                                                                *)

\* What every call leaves as it must be.
StackRight == /\ nesting' \in Stacks /\ uError' \in Errors
              /\ (nesting' = <<>> => uError' # "SUCCESS")
Kept ==
  /\ data' \in Bytes /\ err' \in BOOLEAN /\ late' \in Nat
  /\ StackRight /\ Ordered(nesting', Len(data'))
  /\ OverflowNeverSucceeds'

LEMMA Facts ==
  ASSUME IInv
  PROVE  /\ size \in Nat /\ late \in Nat /\ err \in BOOLEAN /\ uError \in Errors
         /\ data \in Bytes /\ nesting \in Stacks /\ (nesting = <<>> => uError # "SUCCESS")
         /\ Ordered(nesting, Len(data)) /\ Len(data) \in Nat /\ Len(nesting) \in Nat
BY DEF IInv, Types, Bytes, Stacks

LEMMA NoteCounts ==
  ASSUME IInv, NEW error, NEW misuse, Note(error, misuse)
  PROVE  late' \in Nat
BY Facts DEF Note

LEMMA NothingReturned ==
  ASSUME returned' = Nothing PROVE OverflowNeverSucceeds'
BY DEF OverflowNeverSucceeds, Nothing

\* A level is counted, or that is refused.
LEMMA IncrementIs ==
  ASSUME IInv, nesting # <<>>
  PROVE  /\ Len(nesting) \in 1..Len(nesting) /\ Current.count + 1 \in Int
         /\ Incremented(nesting) = Recount(nesting, Len(nesting), Current.count + 1)
<1>1. /\ Len(nesting) \in Nat \ {0} /\ Current = nesting[Len(nesting)] /\ Current \in Level
  BY Facts, FrontIs DEF Current
<1> QED BY <1>1 DEF Incremented, Recount, Level

LEMMA IncrementKeeps ==
  ASSUME IInv, IncrementMapOrArrayCount
  PROVE  StackRight /\ Ordered(nesting', Len(data))
<1>1. CASE nesting' = nesting
  BY <1>1, Facts DEF IncrementMapOrArrayCount, StackRight, Errors
<1>2. CASE nesting' # nesting
  <2>1. uError = "SUCCESS" /\ uError' = uError /\ nesting' = Incremented(nesting)
    BY <1>2 DEF IncrementMapOrArrayCount
  <2>2. nesting # <<>> /\ nesting \in Stacks /\ Ordered(nesting, Len(data))
    BY <2>1, Facts
  <2> DEFINE l == Len(nesting)
             c == Current.count + 1
  <2>3. l \in 1..Len(nesting) /\ c \in Int /\ nesting' = Recount(nesting, l, c)
    BY <2>1, <2>2, IncrementIs
  <2> HIDE DEF l, c
  <2>4. Recount(nesting, l, c) \in Stacks /\ Len(Recount(nesting, l, c)) = Len(nesting)
    BY ONLY <2>2, <2>3, RecountIs
  <2>5. Ordered(Recount(nesting, l, c), Len(data))
    BY ONLY <2>2, <2>3, RecountKeeps
  <2>6. nesting' # <<>>
    BY ONLY <2>3, <2>4
  <2> QED BY ONLY <2>1, <2>3, <2>4, <2>5, <2>6 DEF StackRight, Errors
<1> QED BY <1>1, <1>2

\* A call that only appends and counts.
LEMMA GrownKeeps ==
  ASSUME IInv, NEW p, InsertedIn(data, data', p), err' \in BOOLEAN, late' \in Nat,
         StackRight, Ordered(nesting', Len(data)), returned' = Nothing
  PROVE  Kept
<1>1. /\ data' \in Bytes /\ Len(data) <= Len(data') /\ Len(data') \in Nat
      /\ Len(data) \in Nat /\ nesting' \in Stacks
  BY Facts DEF InsertedIn, Bytes, StackRight
<1>2. Ordered(nesting', Len(data'))
  BY ONLY <1>1, Ordered(nesting', Len(data)), OrderedMore
<1>3. OverflowNeverSucceeds'
  BY NothingReturned
<1> QED BY <1>1, <1>2, <1>3 DEF Kept

LEMMA AddInt64Keeps == IInv /\ AddInt64 => Kept
<1> SUFFICES ASSUME IInv, AddInt64 PROVE Kept
  OBVIOUS
<1>1. EncodeHead("int", 0) \in Bytes
  BY HeadIsBytes DEF Kinds
<1>2. /\ AppendUsefulBuf(EncodeHead("int", 0)) /\ IncrementMapOrArrayCount
      /\ Note(FALSE, FALSE) /\ returned' = Nothing
  BY DEF AddInt64
<1>3. err' \in BOOLEAN /\ InsertedIn(data, data', Len(data))
  BY <1>1, <1>2, Facts, AppendWorks
<1> QED BY <1>2, <1>3, NoteCounts, IncrementKeeps, GrownKeeps

LEMMA AddTagKeeps == IInv /\ AddTag => Kept
<1> SUFFICES ASSUME IInv, AddTag PROVE Kept
  OBVIOUS
<1>1. EncodeHead("tag", 0) \in Bytes
  BY HeadIsBytes DEF Kinds
<1>2. /\ AppendUsefulBuf(EncodeHead("tag", 0)) /\ UNCHANGED <<nesting, uError>>
      /\ Note(FALSE, FALSE) /\ returned' = Nothing
  BY DEF AddTag
<1>3. err' \in BOOLEAN /\ InsertedIn(data, data', Len(data))
  BY <1>1, <1>2, Facts, AppendWorks
<1>4. StackRight /\ Ordered(nesting', Len(data))
  BY <1>2, Facts DEF StackRight
<1> QED BY <1>2, <1>3, <1>4, NoteCounts, GrownKeeps

\* Nothing is written.
LEMMA StillIn == ASSUME IInv, UNCHANGED <<data, err>>
                 PROVE  err' \in BOOLEAN /\ InsertedIn(data, data', Len(data))
BY Facts DEF InsertedIn

LEMMA ReservedKeeps == IInv /\ AddType7Reserved => Kept
<1> SUFFICES ASSUME IInv, AddType7Reserved PROVE Kept
  OBVIOUS
<1>1. EncodeHead("int", 0) \in Bytes
  BY HeadIsBytes DEF Kinds
<1>2. Note(FALSE, FALSE) /\ returned' = Nothing /\ nesting' = nesting
  BY DEF AddType7Reserved
<1>3. err' \in BOOLEAN /\ InsertedIn(data, data', Len(data))
  <2>1. CASE uError = "SUCCESS"
    BY <2>1, StillIn DEF AddType7Reserved
  <2>2. CASE uError # "SUCCESS"
    <3>1. AppendUsefulBuf(EncodeHead("int", 0))
      BY <2>2 DEF AddType7Reserved
    <3> QED BY <1>1, <3>1, Facts, AppendWorks
  <2> QED BY <2>1, <2>2
<1>4. StackRight /\ Ordered(nesting', Len(data))
  BY <1>2, Facts DEF StackRight, AddType7Reserved, Errors
<1> QED BY <1>2, <1>3, <1>4, NoteCounts, GrownKeeps

LEMMA BothWork ==
  ASSUME data \in Bytes, err \in BOOLEAN, NEW h \in Bytes, NEW b \in Bytes, AppendBoth(h, b)
  PROVE  /\ err' \in BOOLEAN /\ InsertedIn(data, data', Len(data))
         /\ ~err' => ~err /\ data' = Join(data, Join(h, b))
<1>1. Join(h, b) \in Bytes /\ h \o b = Join(h, b)
  BY JoinTwo DEF Bytes, Join
<1>2. CASE err \/ ~Fits(h)
  <2>1. AppendUsefulBuf(h)
    BY <1>2 DEF AppendBoth
  <2>2. err' \in BOOLEAN /\ (err => err') /\ InsertedIn(data, data', Len(data))
    BY <2>1, AppendWorks
  <2>3. err'
    BY <1>2, <2>1, <2>2 DEF AppendUsefulBuf, InsertUsefulBuf
  <2> QED BY <2>2, <2>3
<1>3. CASE ~(err \/ ~Fits(h)) /\ Fits(h \o b)
  <2>1. AppendUsefulBuf(Join(h, b))
    BY <1>1, <1>3 DEF AppendBoth
  <2> QED BY ONLY <1>1, <2>1, data \in Bytes, err \in BOOLEAN, AppendWorks
<1>4. CASE ~(err \/ ~Fits(h)) /\ ~Fits(h \o b)
  <2>1. data' = Join(data, h) /\ err' = TRUE
    BY <1>4 DEF AppendBoth, Join
  <2>2. /\ Join(data, h) \in Bytes /\ Len(Join(data, h)) = Len(data) + Len(h)
        /\ Len(data) \in Nat /\ Len(h) \in Nat
    <3>1. data \in Seq(Token) /\ h \in Seq(Token)
      BY DEF Bytes
    <3>2. Join(data, h) \in Seq(Token) /\ Len(Join(data, h)) = Len(data) + Len(h)
      BY ONLY <3>1, JoinTwo
    <3> QED BY ONLY <3>1, <3>2 DEF Bytes
  <2>3. \A n \in 0..Len(data) : \A m \in 0..n : Slice(Join(data, h), m, n) = Slice(data, m, n)
    BY SliceOfFirst DEF Bytes
  <2>4. InsertedIn(data, Join(data, h), Len(data))
    BY ONLY <2>2, <2>3 DEF InsertedIn
  <2> QED BY ONLY <2>1, <2>4
<1> QED BY <1>2, <1>3, <1>4

\* What AddBuffer() of each kind writes.
Written(kind) == CASE kind = "string"  -> Join(EncodeHead("string", 1), <<<<"byte", 0>>>>)
                   [] kind = "raw"     -> EncodeHead("int", 0)
                   [] kind = "lenOnly" -> EncodeHead("string", 1)

LEMMA BufferWorks ==
  ASSUME IInv, NEW kind \in {"string", "raw", "lenOnly"}, AddBuffer(kind)
  PROVE  /\ err' \in BOOLEAN /\ InsertedIn(data, data', Len(data)) /\ Written(kind) \in Bytes
         /\ ~err' => ~err /\ data' = Join(data, Written(kind))
<1>1. /\ EncodeHead("string", 1) \in Bytes /\ EncodeHead("int", 0) \in Bytes
  BY HeadIsBytes DEF Kinds
<1>2. <<<<"byte", 0>>>> \in Bytes
  BY DEF Bytes, Token, Kinds
<1>3. data \in Bytes /\ err \in BOOLEAN
  BY Facts
<1>4. CASE kind = "string"
  <2> DEFINE h == EncodeHead("string", 1)
             b == <<<<"byte", 0>>>>
  <2>1. AppendBoth(h, b) /\ Written(kind) = Join(h, b)
    BY <1>4 DEF AddBuffer, Written
  <2>2. h \in Bytes /\ b \in Bytes
    BY <1>1, <1>2
  <2> HIDE DEF h, b
  <2>3. Join(h, b) \in Bytes
    BY ONLY <2>2, JoinTwo DEF Bytes
  <2> QED BY ONLY <1>3, <2>1, <2>2, <2>3, BothWork
<1>5. CASE kind \in {"raw", "lenOnly"}
  <2>1. AppendUsefulBuf(Written(kind)) /\ Written(kind) \in Bytes
    BY <1>1, <1>5 DEF AddBuffer, Written
  <2> QED BY ONLY <1>3, <2>1, AppendWorks
<1> QED BY <1>4, <1>5

LEMMA AddBufferKeeps ==
  ASSUME IInv, NEW kind \in {"string", "raw", "lenOnly"}, AddBuffer(kind)
  PROVE  Kept
<1>1. IncrementMapOrArrayCount /\ Note(FALSE, kind = "lenOnly") /\ returned' = Nothing
  BY DEF AddBuffer
<1> QED BY <1>1, BufferWorks, NoteCounts, IncrementKeeps, GrownKeeps

\* A level is opened, counted or not.
LEMMA OpenKeeps ==
  ASSUME IInv, nesting # <<>>, NEW major \in Kinds, NEW position \in Nat,
         Len(data) <= position, OpenLevel(major, position)
  PROVE  /\ StackRight /\ Ordered(nesting', position)
         /\ late' \in Nat /\ returned' = Nothing
<1> DEFINE counted == uError = "SUCCESS" /\ CanIncrement
           stack == IF counted THEN Incremented(nesting) ELSE nesting
<1>1. stack \in Stacks /\ Ordered(stack, Len(data)) /\ stack # <<>>
  <2>1. nesting \in Stacks /\ Ordered(nesting, Len(data))
    BY Facts
  <2> DEFINE l == Len(nesting)
             c == Current.count + 1
  <2>2. l \in 1..Len(nesting) /\ c \in Int /\ Incremented(nesting) = Recount(nesting, l, c)
    BY IncrementIs
  <2> HIDE DEF l, c
  <2>3. Recount(nesting, l, c) \in Stacks /\ Len(Recount(nesting, l, c)) = Len(nesting)
    BY ONLY <2>1, <2>2, RecountIs
  <2>4. Ordered(Recount(nesting, l, c), Len(data))
    BY ONLY <2>1, <2>2, RecountKeeps
  <2>5. Recount(nesting, l, c) # <<>>
    BY ONLY <2>2, <2>3
  <2> QED BY <2>1, <2>2, <2>3, <2>4, <2>5
<1>2. Note(~counted, FALSE) /\ returned' = Nothing
  BY DEF OpenLevel
<1>3. \/ nesting' = stack /\ uError' \in {"BUFFER_TOO_LARGE", "NESTING_TOO_DEEP"}
      \/ nesting' = Append(stack, Opened(major, position)) /\ uError' = "SUCCESS"
  BY DEF OpenLevel, Opened
<1>4. late' \in Nat
  BY ONLY <1>2, IInv, NoteCounts
<1> HIDE DEF stack
<1>5. Ordered(stack, position)
  <2>1. Len(data) \in Nat
    BY Facts
  <2> QED BY ONLY <1>1, <2>1, position \in Nat, Len(data) <= position, OrderedMore
<1>6. /\ Append(stack, Opened(major, position)) \in Stacks
      /\ Len(Append(stack, Opened(major, position))) = Len(stack) + 1
      /\ Len(stack) \in Nat
  BY ONLY <1>1, major \in Kinds, position \in Nat, OpenedIs DEF Stacks
<1>7. Ordered(Append(stack, Opened(major, position)), position)
  BY ONLY <1>1, <1>5, major \in Kinds, position \in Nat, OpenedKeeps
<1>8. Append(stack, Opened(major, position)) # <<>>
  BY ONLY <1>6
<1>9. CASE nesting' = stack /\ uError' \in {"BUFFER_TOO_LARGE", "NESTING_TOO_DEEP"}
  BY ONLY <1>1, <1>2, <1>4, <1>5, <1>9 DEF StackRight, Errors
<1>10. CASE nesting' = Append(stack, Opened(major, position)) /\ uError' = "SUCCESS"
  BY ONLY <1>2, <1>4, <1>6, <1>7, <1>8, <1>10 DEF StackRight, Errors
<1> QED BY ONLY <1>3, <1>9, <1>10

LEMMA OpenMapOrArrayKeeps ==
  ASSUME IInv, NEW major \in Kinds, OpenMapOrArray(major)
  PROVE  Kept
<1>1. nesting # <<>> /\ UNCHANGED <<data, err>> /\ OpenLevel(major, Len(data))
  BY DEF OpenMapOrArray
<1>2. Len(data) \in Nat /\ Len(data) <= Len(data)
  BY Facts
<1>3. err' \in BOOLEAN /\ InsertedIn(data, data', Len(data))
  BY <1>1, StillIn
<1> QED BY ONLY IInv, major \in Kinds, <1>1, <1>2, <1>3, OpenKeeps, GrownKeeps

LEMMA OpenIndefiniteKeeps ==
  ASSUME IInv, NEW major \in Endless, OpenMapOrArrayIndefiniteLength(major)
  PROVE  Kept
<1>1. EncodeHead(major, 0) \in Bytes /\ major \in Kinds
  BY HeadIsBytes DEF Kinds, Endless
<1>2. /\ nesting # <<>> /\ AppendUsefulBuf(EncodeHead(major, 0))
      /\ OpenLevel(major, Len(data'))
  BY DEF OpenMapOrArrayIndefiniteLength
<1>3. err' \in BOOLEAN /\ InsertedIn(data, data', Len(data))
  BY <1>1, <1>2, Facts, AppendWorks
<1>4. data' \in Bytes /\ Len(data') \in Nat /\ Len(data) <= Len(data')
  BY ONLY <1>3 DEF InsertedIn, Bytes
<1>5. StackRight /\ Ordered(nesting', Len(data')) /\ late' \in Nat /\ returned' = Nothing
  BY ONLY IInv, <1>1, <1>2, <1>4, OpenKeeps
<1>6. OverflowNeverSucceeds'
  BY <1>5, NothingReturned
<1> QED BY ONLY <1>3, <1>4, <1>5, <1>6 DEF Kept

\* Where the innermost level starts.
LEMMA CurrentIs ==
  ASSUME IInv, nesting # <<>>
  PROVE  /\ Current = nesting[Len(nesting)] /\ Current \in Level
         /\ Current.start \in 0..Len(data)
<1>1. /\ Len(nesting) \in Nat \ {0} /\ Current = nesting[Len(nesting)] /\ Current \in Level
  BY Facts, FrontIs DEF Current
<1>2. Ordered(nesting, Len(data)) /\ Len(data) \in Nat
  BY Facts
<1>3. nesting[Len(nesting)].start <= Len(data)
  BY ONLY <1>1, <1>2 DEF Ordered
<1>4. Current.start \in Nat
  BY ONLY <1>1 DEF Level
<1> QED BY ONLY <1>1, <1>2, <1>3, <1>4

\* The innermost level is left, or that is refused.
LEMMA LeaveKeeps ==
  ASSUME IInv, nesting # <<>>,
         \/ nesting' = nesting /\ uError' \in Errors \ {"SUCCESS"}
         \/ nesting' = Front(nesting) /\ uError' = uError /\ (uError = "SUCCESS" => Len(nesting) > 1)
  PROVE  StackRight /\ Ordered(nesting', Len(data))
<1>0. /\ nesting \in Stacks /\ Ordered(nesting, Len(data)) /\ uError \in Errors
      /\ nesting # <<>>
  BY Facts
<1>1. CASE nesting' = nesting /\ uError' \in Errors \ {"SUCCESS"}
  BY ONLY <1>0, <1>1 DEF StackRight
<1>2. CASE /\ nesting' = Front(nesting) /\ uError' = uError
           /\ (uError = "SUCCESS" => Len(nesting) > 1)
  <2>1. /\ Front(nesting) \in Stacks /\ Len(Front(nesting)) = Len(nesting) - 1
        /\ Len(nesting) \in Nat
    BY ONLY <1>0, FrontIs
  <2>2. Ordered(Front(nesting), Len(data))
    BY ONLY <1>0, FrontKeeps
  <2>3. Len(nesting) > 1 => Front(nesting) # <<>>
    BY ONLY <2>1
  <2> QED BY ONLY <1>0, <1>2, <2>1, <2>2, <2>3 DEF StackRight
<1> QED BY <1>1, <1>2

LEMMA CloseErrorIs ==
  ASSUME NEW major \in Kinds
  PROVE  /\ CloseError(major) \in Errors
         /\ uError = "SUCCESS" /\ CloseError(major) = "SUCCESS" /\ nesting \in Stacks /\ nesting # <<>>
              => Len(nesting) > 1 /\ Current.major = major
<1>1. nesting \in Stacks /\ nesting # <<>> => Len(nesting) \in Nat \ {0}
  BY FrontIs
<1>2. CloseError(major) \in Errors
  BY DEF CloseError, Errors
<1>3. ASSUME uError = "SUCCESS", CloseError(major) = "SUCCESS", nesting \in Stacks, nesting # <<>>
      PROVE  Len(nesting) > 1 /\ Current.major = major
  <2>1. Len(nesting) # 1
    BY <1>3 DEF CloseError
  <2>2. Len(nesting) > 1
    BY ONLY <1>1, <1>3, <2>1
  <2>3. Current.major = major
    BY <1>3, <2>2 DEF CloseError
  <2> QED BY <2>2, <2>3
<1> QED BY ONLY <1>2, <1>3

LEMMA HeadInserted ==
  ASSUME IInv, nesting # <<>>, NEW major \in Kinds, NEW n \in Int, InsertCBORHead(major, n)
  PROVE  /\ err' \in BOOLEAN /\ InsertedIn(data, data', Current.start)
         /\ StackRight /\ Ordered(nesting', Len(data))
<1>1. /\ CloseError(major) \in Errors
      /\ uError = "SUCCESS" /\ CloseError(major) = "SUCCESS" => Len(nesting) > 1
  BY Facts, CloseErrorIs
<1>2. CASE CloseError(major) # "SUCCESS"
  <2>1. /\ uError' \in Errors \ {"SUCCESS"} /\ UNCHANGED <<data, err, nesting>>
    BY <1>1, <1>2 DEF InsertCBORHead
  <2>2. InsertedIn(data, data', Current.start)
    BY <2>1, Facts DEF InsertedIn
  <2> QED BY <2>1, <2>2, Facts, LeaveKeeps
<1>3. CASE CloseError(major) = "SUCCESS"
  <2> DEFINE head == EncodeHead(major, n)
             st == Current.start
  <2>1. /\ InsertUsefulBuf(head, st) /\ nesting' = Front(nesting) /\ uError' = uError
    BY <1>3 DEF InsertCBORHead
  <2>2. head \in Bytes /\ st \in 0..Len(data) /\ data \in Bytes /\ err \in BOOLEAN
    BY HeadIsBytes, CurrentIs, Facts
  <2> HIDE DEF head, st
  <2>3. err' \in BOOLEAN /\ InsertedIn(data, data', st)
    BY ONLY <2>1, <2>2, InsertWorks
  <2>4. StackRight /\ Ordered(nesting', Len(data))
    BY <1>1, <1>3, <2>1, LeaveKeeps
  <2> QED BY <2>3, <2>4 DEF st
<1> QED BY <1>2, <1>3

LEMMA CloseKeeps ==
  ASSUME IInv, NEW major \in Majors, CloseMapOrArray(major)
  PROVE  Kept
<1>1. nesting # <<>> /\ InsertCBORHead(major, GetCount) /\ returned' = Nothing
  BY DEF CloseMapOrArray
<1>2. major \in Kinds
  BY DEF Majors, Kinds
<1>3. GetCount \in Int
  BY <1>1, CurrentIs DEF GetCount, Level
<1>4. late' \in Nat
  BY NoteCounts DEF CloseMapOrArray
<1>5. /\ err' \in BOOLEAN /\ InsertedIn(data, data', Current.start)
      /\ StackRight /\ Ordered(nesting', Len(data))
  BY ONLY IInv, <1>1, <1>2, <1>3, HeadInserted
<1> QED BY ONLY IInv, <1>1, <1>4, <1>5, GrownKeeps

\* A call that may give something back.
LEMMA GivenKeeps ==
  ASSUME IInv, NEW p, InsertedIn(data, data', p), err' \in BOOLEAN, late' \in Nat,
         StackRight, Ordered(nesting', Len(data)), OverflowNeverSucceeds'
  PROVE  Kept
<1>1. /\ data' \in Bytes /\ Len(data) <= Len(data') /\ Len(data') \in Nat
      /\ Len(data) \in Nat /\ nesting' \in Stacks
  BY Facts DEF InsertedIn, Bytes, StackRight
<1>2. Ordered(nesting', Len(data'))
  BY ONLY <1>1, Ordered(nesting', Len(data)), OrderedMore
<1> QED BY <1>1, <1>2 DEF Kept

LEMMA WrapKeeps ==
  ASSUME IInv, NEW include \in BOOLEAN, CloseBstrWrap2(include)
  PROVE  Kept
<1>1. nesting # <<>> /\ InsertCBORHead("bstr", Len(data) - Current.start)
  BY DEF CloseBstrWrap2
<1>2. "bstr" \in Kinds
  BY DEF Kinds
<1>3. Len(data) - Current.start \in Int
  BY <1>1, CurrentIs, Facts
<1>4. late' \in Nat
  BY NoteCounts DEF CloseBstrWrap2
<1>5. /\ err' \in BOOLEAN /\ InsertedIn(data, data', Current.start)
      /\ StackRight /\ Ordered(nesting', Len(data))
  BY ONLY IInv, <1>1, <1>2, <1>3, HeadInserted
<1>6. OverflowNeverSucceeds'
  <2>1. err' => returned' = Nothing
    BY DEF CloseBstrWrap2
  <2> QED BY <2>1 DEF OverflowNeverSucceeds, Nothing
<1> QED BY ONLY IInv, <1>4, <1>5, <1>6, GivenKeeps

LEMMA CloseIndefiniteKeeps ==
  ASSUME IInv, NEW major \in Endless, CloseMapOrArrayIndefiniteLength(major)
  PROVE  Kept
<1>1. nesting # <<>> /\ returned' = Nothing /\ major \in Kinds
  BY DEF CloseMapOrArrayIndefiniteLength, Endless, Kinds
<1>2. late' \in Nat
  BY NoteCounts DEF CloseMapOrArrayIndefiniteLength
<1>3. /\ CloseError(major) \in Errors
      /\ uError = "SUCCESS" /\ CloseError(major) = "SUCCESS" => Len(nesting) > 1
  BY <1>1, Facts, CloseErrorIs
<1>4. err' \in BOOLEAN /\ InsertedIn(data, data', Len(data))
  <2>1. CASE CloseError(major) # "SUCCESS"
    BY <2>1, StillIn DEF CloseMapOrArrayIndefiniteLength
  <2>2. CASE CloseError(major) = "SUCCESS"
    <3>1. AppendUsefulBuf(EncodeHead("break", 0)) /\ EncodeHead("break", 0) \in Bytes
      BY <2>2, HeadIsBytes DEF CloseMapOrArrayIndefiniteLength, Kinds
    <3> QED BY <3>1, Facts, AppendWorks
  <2> QED BY <2>1, <2>2
<1>5. StackRight /\ Ordered(nesting', Len(data))
  <2>1. \/ nesting' = nesting /\ uError' \in Errors \ {"SUCCESS"}
        \/ nesting' = Front(nesting) /\ uError' = uError /\ (uError = "SUCCESS" => Len(nesting) > 1)
    BY <1>3 DEF CloseMapOrArrayIndefiniteLength
  <2> QED BY <1>1, <2>1, LeaveKeeps
<1> QED BY ONLY IInv, <1>1, <1>2, <1>4, <1>5, GrownKeeps

LEMMA CancelKeeps == IInv /\ CancelBstrWrap => Kept
<1> SUFFICES ASSUME IInv, CancelBstrWrap PROVE Kept
  OBVIOUS
<1> DEFINE outer == Front(nesting)
           l == Len(outer)
           c == Decremented(Last(outer).count)
<1>1. nesting # <<>> /\ returned' = Nothing /\ UNCHANGED <<data, err>>
  BY DEF CancelBstrWrap
<1>2. late' \in Nat
  <2>1. Note(FALSE, FALSE)
    BY DEF CancelBstrWrap
  <2> QED BY ONLY IInv, <2>1, NoteCounts
<1>3. err' \in BOOLEAN /\ InsertedIn(data, data', Len(data))
  BY <1>1, StillIn
<1>4. /\ CloseError("bstr") \in Errors
      /\ uError = "SUCCESS" /\ CloseError("bstr") = "SUCCESS" => Len(nesting) > 1
  BY <1>1, Facts, CloseErrorIs DEF Kinds
<1>5. CancelError \in Errors /\ (CancelError = "SUCCESS" => CloseError("bstr") = "SUCCESS")
  BY <1>4 DEF CancelError, Errors
<1>6. \/ nesting' = nesting /\ uError' = CancelError /\ CancelError # "SUCCESS"
      \/ /\ CancelError = "SUCCESS" /\ uError' = uError
         /\ nesting' = IF outer = <<>> THEN outer
                       ELSE [outer EXCEPT ![l].count = Decremented(@)]
  BY DEF CancelBstrWrap
<1>7. /\ outer \in Stacks /\ l = Len(nesting) - 1 /\ Len(nesting) \in Nat
      /\ Ordered(outer, Len(data))
  BY <1>1, Facts, FrontIs, FrontKeeps
<1>8. CASE nesting' = nesting /\ uError' = CancelError /\ CancelError # "SUCCESS"
  <2>1. nesting' = nesting /\ uError' \in Errors \ {"SUCCESS"}
    BY <1>5, <1>8
  <2>2. StackRight /\ Ordered(nesting', Len(data))
    BY ONLY IInv, <1>1, <2>1, LeaveKeeps
  <2> QED BY ONLY IInv, <1>1, <1>2, <1>3, <2>2, GrownKeeps
<1>9. CASE CancelError = "SUCCESS" /\ uError' = uError /\ outer = <<>> /\ nesting' = outer
  <2>1. uError = "SUCCESS" => Len(nesting) > 1
    BY ONLY <1>4, <1>5, <1>9
  <2>2. StackRight /\ Ordered(nesting', Len(data))
    BY ONLY IInv, <1>1, <1>9, <2>1, LeaveKeeps DEF outer
  <2> QED BY ONLY IInv, <1>1, <1>2, <1>3, <2>2, GrownKeeps
<1>10. CASE /\ CancelError = "SUCCESS" /\ uError' = uError /\ outer # <<>>
            /\ nesting' = [outer EXCEPT ![l].count = Decremented(@)]
  <2>1. /\ l \in 1..Len(outer) /\ Last(outer) = outer[l] /\ Last(outer) \in Level
    <3>1. Len(outer) \in Nat \ {0} /\ Last(outer) = outer[Len(outer)] /\ Last(outer) \in Level
      BY ONLY <1>7, <1>10, FrontIs
    <3> QED BY ONLY <3>1
  <2>2. c \in Int
    <3>1. Last(outer).count \in Int
      BY ONLY <2>1 DEF Level
    <3> QED BY ONLY <3>1, SMT DEF c, Decremented
  <2>3. nesting' = Recount(outer, l, c)
    BY ONLY <1>7, <1>10, <2>1 DEF Recount, Stacks, c
  <2> HIDE DEF outer, l, c
  <2>4. Recount(outer, l, c) \in Stacks /\ Len(Recount(outer, l, c)) = Len(outer)
    BY ONLY <1>7, <2>1, <2>2, RecountIs
  <2>5. Ordered(Recount(outer, l, c), Len(data))
    BY ONLY <1>7, <2>1, <2>2, RecountKeeps
  <2>6. Recount(outer, l, c) # <<>>
    BY ONLY <2>1, <2>4
  <2>7. StackRight /\ Ordered(nesting', Len(data))
    <3>1. uError \in Errors
      BY ONLY IInv, Facts
    <3> QED BY ONLY <1>10, <2>3, <2>4, <2>5, <2>6, <3>1 DEF StackRight
  <2> QED BY ONLY IInv, <1>1, <1>2, <1>3, <2>7, GrownKeeps
<1> QED BY <1>6, <1>8, <1>9, <1>10

LEMMA FinishKeeps == IInv /\ Finish => Kept
<1> SUFFICES ASSUME IInv, Finish PROVE Kept
  OBVIOUS
<1>1. /\ uError' = (IF err THEN "BUFFER_TOO_SMALL" ELSE uError)
      /\ UNCHANGED <<data, err, nesting>> /\ Note(FALSE, FALSE)
      /\ uError' # "SUCCESS" => returned' = [Nothing EXCEPT !.code = uError']
  BY DEF Finish, GetErrorState
<1>2. late' \in Nat
  BY <1>1, NoteCounts
<1>3. err' \in BOOLEAN /\ InsertedIn(data, data', Len(data))
  BY <1>1, StillIn
<1>4. StackRight /\ Ordered(nesting', Len(data))
  BY <1>1, Facts DEF StackRight, Errors
<1>5. OverflowNeverSucceeds'
  <2>1. err' => returned'.code = "BUFFER_TOO_SMALL"
    BY <1>1 DEF Nothing
  <2> QED BY <2>1 DEF OverflowNeverSucceeds
<1> QED BY ONLY IInv, <1>2, <1>3, <1>4, <1>5, GivenKeeps

LEMMA NextKeeps == IInv /\ [Next]_vars => IInv'
<1> SUFFICES ASSUME IInv, [Next]_vars PROVE IInv'
  OBVIOUS
<1>1. CASE UNCHANGED vars
  BY <1>1 DEF vars, IInv, Types, Ordered, OverflowNeverSucceeds
<1>2. CASE Next
  <2>1. Kept
    BY <1>2, AddInt64Keeps, ReservedKeeps, AddTagKeeps, AddBufferKeeps, OpenMapOrArrayKeeps,
       OpenIndefiniteKeeps, CloseKeeps, WrapKeeps, CancelKeeps, CloseIndefiniteKeeps, FinishKeeps
       DEF Next, Majors, Kinds
  <2>2. size' \in Nat
    BY <1>2, Facts DEF Next
  <2> QED BY <2>1, <2>2 DEF Kept, StackRight, IInv, Types
<1> QED BY <1>1, <1>2

LEMMA Begins == Init => IInv
<1> SUFFICES ASSUME Init PROVE IInv
  OBVIOUS
<1>1. size \in Nat
  BY BoundsAssumption DEF Init
<1>2. data = <<>> /\ err = FALSE /\ uError = "SUCCESS" /\ late = 0 /\ returned = Nothing
  BY DEF Init
<1>3. nesting = <<[major |-> "array", count |-> 0, start |-> 0]>>
  BY DEF Init
<1>4. nesting \in Stacks /\ nesting # <<>> /\ Len(nesting) = 1
  BY <1>3 DEF Stacks, Level, Kinds
<1>5. Ordered(nesting, Len(data))
  BY <1>2, <1>3, <1>4 DEF Ordered
<1>6. data \in Bytes
  BY <1>2 DEF Bytes
<1> QED BY <1>1, <1>2, <1>4, <1>5, <1>6 DEF IInv, Types, Errors, OverflowNeverSucceeds

LEMMA Invariant == Spec => []IInv
BY Begins, NextKeeps, PTL DEF Spec

-----------------------------------------------------------------------------
(* The theorems                                                             *)

\* "This subtraction can't go negative": the levels start one behind the other
\* inside the output, whatever was called and also after errors.
THEOREM StartsRight == Spec => []StartsInOrder
<1>1. IInv => StartsInOrder
  <2> SUFFICES ASSUME IInv, NEW l \in 1..Len(nesting)
               PROVE  /\ nesting[l].start <= Len(data)
                      /\ l > 1 => nesting[l - 1].start <= nesting[l].start
    BY DEF StartsInOrder
  <2>1. l > 1 => l - 1 \in 1..l
    OBVIOUS
  <2> QED BY <2>1 DEF IInv, Ordered
<1> QED BY <1>1, Invariant, PTL

\* An output that did not fit is not reported as a success by QCBOREncode_Finish()
\* or handed out by QCBOREncode_CloseBstrWrap2().
THEOREM OverflowReported == Spec => []OverflowNeverSucceeds
<1>1. IInv => OverflowNeverSucceeds
  BY DEF IInv
<1> QED BY <1>1, Invariant, PTL

\* A call after which there is no error met none.
LEMMA NoteMeans ==
  ASSUME IInv, NEW error \in BOOLEAN, NEW misuse, Note(error, misuse), ~failed'
  PROVE  ~failed /\ ~err' /\ uError' = "SUCCESS" /\ ~error
<1>1. late \in Nat
  BY Facts
<1>2. late' = IF failed \/ err' \/ uError' # "SUCCESS" \/ error THEN late + 1 ELSE 0
  BY DEF Note
<1>3. ~(late' > 0)
  BY DEF failed
<1> QED BY <1>1, <1>2, <1>3 DEF failed

\* What an insertion that meets no error did.
LEMMA InsertedHead ==
  ASSUME IInv, nesting # <<>>, NEW major \in Kinds, NEW n \in Int, InsertCBORHead(major, n),
         ~err', uError' = "SUCCESS"
  PROVE  LET head == EncodeHead(major, n)
             st   == Current.start
         IN  /\ nesting' = Front(nesting) /\ Len(nesting) > 1 /\ Current.major = major
             /\ InsertedIn(data, data', st) /\ Len(data') = Len(data) + Len(head)
             /\ Slice(data', st, Len(data')) = Join(head, Slice(data, st, Len(data)))
             /\ Slice(data', st + Len(head), Len(data')) = Slice(data, st, Len(data))
<1> DEFINE head == EncodeHead(major, n)
           st == Current.start
<1>1. CloseError(major) = "SUCCESS" /\ uError = "SUCCESS"
  BY DEF InsertCBORHead
<1>2. InsertUsefulBuf(head, st) /\ nesting' = Front(nesting)
  BY <1>1 DEF InsertCBORHead
<1>3. Len(nesting) > 1 /\ Current.major = major
  BY <1>1, Facts, CloseErrorIs
<1>4. head \in Bytes /\ st \in 0..Len(data) /\ data \in Bytes /\ err \in BOOLEAN
  BY HeadIsBytes, CurrentIs, Facts
<1> HIDE DEF head, st
<1>5. /\ InsertedIn(data, data', st) /\ Len(data') = Len(data) + Len(head)
      /\ Slice(data', st, Len(data')) = Join(head, Slice(data, st, Len(data)))
      /\ Slice(data', st + Len(head), Len(data')) = Slice(data, st, Len(data))
  BY ONLY <1>2, <1>4, ~err', InsertWorks
<1> QED BY <1>2, <1>3, <1>5 DEF head, st

Content ==
  returned'.code = "wrapped" /\ ~failed' =>
    returned'.bytes = (IF returned'.head THEN EncodeHead("bstr", Len(Collected)) ELSE <<>>)
                        \o Collected

LEMMA WrapGives ==
  ASSUME IInv, NEW include \in BOOLEAN, CloseBstrWrap2(include)
  PROVE  Content
<1> SUFFICES ASSUME returned'.code = "wrapped", ~failed'
             PROVE  returned'.bytes = (IF returned'.head THEN EncodeHead("bstr", Len(Collected))
                                       ELSE <<>>) \o Collected
  BY DEF Content
<1> DEFINE st == Current.start
           head == EncodeHead("bstr", Len(data) - st)
           from == WrappedFrom(include, st)
<1>1. nesting # <<>> /\ InsertCBORHead("bstr", Len(data) - st) /\ Note(FALSE, Dangling(st))
  BY DEF CloseBstrWrap2
<1>2. ~err' /\ uError' = "SUCCESS"
  BY <1>1, NoteMeans
<1>3. returned'.head = include /\ returned'.bytes = Slice(data', from, Len(data'))
  BY <1>2 DEF CloseBstrWrap2, Slice
<1>4. st \in 0..Len(data) /\ data \in Bytes /\ Len(data) \in Nat /\ Len(data) - st \in Int
  BY <1>1, CurrentIs, Facts
<1>5. "bstr" \in Kinds
  BY DEF Kinds
<1>6. /\ Len(data') = Len(data) + Len(head)
      /\ Slice(data', st, Len(data')) = Join(head, Slice(data, st, Len(data)))
      /\ Slice(data', st + Len(head), Len(data')) = Slice(data, st, Len(data))
  BY <1>1, <1>2, <1>4, <1>5, InsertedHead
<1>7. head \in Bytes /\ Len(head) \in {1, 2}
  BY <1>4, <1>5, HeadIsBytes
<1>8. /\ Slice(data, st, Len(data)) \in Bytes
      /\ Len(Slice(data, st, Len(data))) = Len(data) - st
  <2>1. st \in 0..Len(data) /\ data \in Seq(Token) /\ Len(data) \in 0..Len(data)
    BY <1>4 DEF Bytes
  <2> HIDE DEF st
  <2> QED BY ONLY <2>1, SliceIs DEF Bytes
<1>9. Collected = Slice(data, st, Len(data))
  BY DEF Collected, Slice
<1>10. CASE include
  <2>1. from = st
    BY <1>10 DEF WrappedFrom
  <2>2. returned'.bytes = Join(head, Collected) /\ head = EncodeHead("bstr", Len(Collected))
    BY <1>3, <1>6, <1>8, <1>9, <2>1
  <2> QED BY <1>3, <1>10, <2>2 DEF Join
<1>11. CASE ~include
  <2>1. from = st + Len(data') - Len(data)
    BY <1>11 DEF WrappedFrom
  <2> HIDE DEF st, head, from
  <2>2. from = st + Len(head)
    BY ONLY <1>4, <1>6, <1>7, <2>1
  <2>3. returned'.bytes = Collected
    BY ONLY <1>3, <1>6, <1>9, <2>2
  <2>4. Join(<<>>, Collected) = Collected
    BY ONLY <1>8, <1>9, JoinEmpty DEF Bytes
  <2> QED BY <1>3, <1>11, <2>3, <2>4 DEF Join
<1> QED BY <1>10, <1>11

\* QCBOREncode_CloseBstrWrap2() gives back the bytes it wrapped, although the head
\* it inserts has just moved them.
THEOREM WrappedRight == Spec => WrappedIsContent
<1>1. IInv /\ [Next]_vars => [Content]_vars
  <2> SUFFICES ASSUME IInv, Next PROVE Content
    OBVIOUS
  <2>1. CASE \E include \in BOOLEAN : CloseBstrWrap2(include)
    BY <2>1, WrapGives
  <2>2. CASE ~\E include \in BOOLEAN : CloseBstrWrap2(include)
    <3>1. returned' = Nothing \/ Finish
      BY <2>2 DEF Next, AddInt64, AddType7Reserved, AddTag, AddBuffer, OpenMapOrArray,
         OpenMapOrArrayIndefiniteLength, OpenLevel, CloseMapOrArray, CancelBstrWrap,
         CloseMapOrArrayIndefiniteLength
    <3>2. CASE Finish
      <4>1. GetErrorState \in Errors
        BY Facts DEF GetErrorState, Errors
      <4>2. returned'.code \in Errors \cup {"ARRAY_OR_MAP_STILL_OPEN"}
        BY <3>2, <4>1 DEF Finish, Nothing, Errors
      <4> QED BY <4>2 DEF Content, Errors
    <3>3. CASE returned' = Nothing
      BY <3>3 DEF Content, Nothing
    <3> QED BY <3>1, <3>2, <3>3
  <2> QED BY <2>1, <2>2
<1>2. Spec => [][Content]_vars
  BY <1>1, Invariant, PTL DEF Spec
<1> QED BY <1>2 DEF WrappedIsContent, Content

-----------------------------------------------------------------------------
(* The refinement: every call of the encoder maps to a call of NestedItems.  *)

Item == [major : Kinds, count : Int, items : Bytes]

\* Where the items of a level end, and the level as NestedItems has it.
EndOf(d, s, l) == IF l = Len(s) THEN Len(d) ELSE s[l + 1].start
Entry(d, s, l) ==
  [major |-> s[l].major, count |-> s[l].count, items |-> Slice(d, s[l].start, EndOf(d, s, l))]
View(d, s)     == [l \in 1..Len(s) |-> Entry(d, s, l)]

\* A level with n more items, and their bytes.
Enlarged(item, n, b) ==
  [major |-> item.major, count |-> item.count + n, items |-> Join(item.items, b)]

-----------------------------------------------------------------------------
(* Levels                                                                   *)

LEMMA EntryIs ==
  ASSUME NEW d \in Bytes, NEW s \in Stacks, Ordered(s, Len(d)), NEW l \in 1..Len(s)
  PROVE  /\ s[l].start \in 0..EndOf(d, s, l) /\ EndOf(d, s, l) \in 0..Len(d)
         /\ Entry(d, s, l) \in Item
<1> DEFINE k == Len(s)
           z == Len(d)
           e == EndOf(d, s, l)
<1>1. s \in [1..k -> Level] /\ k \in Nat /\ z \in Nat /\ d \in Seq(Token) /\ l \in 1..k
  BY DEF Stacks, Bytes
<1>2. \A i \in 1..k : s[i].start <= z /\ \A m \in 1..i : s[m].start <= s[i].start
  BY DEF Ordered
<1>3. e = IF l = k THEN z ELSE s[l + 1].start
  BY DEF EndOf
<1>4. e \in 0..z => e \in 0..Len(d)
  OBVIOUS
<1> HIDE DEF k, z, e
<1>5. \A i \in 1..k : s[i].start \in Nat /\ s[i].major \in Kinds /\ s[i].count \in Int
  BY ONLY <1>1 DEF Level
<1>6. l # k => l + 1 \in 1..k /\ l \in 1..(l + 1)
  BY ONLY <1>1
<1>7. l # k => s[l].start <= s[l + 1].start /\ s[l + 1].start <= z /\ s[l + 1].start \in Nat
  BY ONLY <1>2, <1>5, <1>6
<1>8. s[l].start \in 0..e /\ e \in 0..z
  BY ONLY <1>1, <1>2, <1>3, <1>5, <1>7
<1>9. e \in 0..Len(d)
  BY ONLY <1>4, <1>8
<1>10. Slice(d, s[l].start, e) \in Seq(Token)
  BY ONLY <1>1, <1>8, <1>9, SliceIs
<1>11. [major |-> s[l].major, count |-> s[l].count, items |-> Slice(d, s[l].start, e)] \in Item
  BY ONLY <1>1, <1>5, <1>10 DEF Item, Bytes
<1> QED BY ONLY <1>8, <1>9, <1>11 DEF Entry, e

LEMMA ViewIs ==
  ASSUME NEW d \in Bytes, NEW s \in Stacks, Ordered(s, Len(d))
  PROVE  /\ View(d, s) \in Seq(Item) /\ Len(View(d, s)) = Len(s)
         /\ \A l \in 1..Len(s) : View(d, s)[l] = Entry(d, s, l)
<1>1. Len(s) \in Nat
  BY DEF Stacks
<1>2. \A l \in 1..Len(s) : Entry(d, s, l) \in Item
  BY EntryIs
<1>3. View(d, s) \in [1..Len(s) -> Item]
  BY ONLY <1>2 DEF View
<1>4. \A l \in 1..Len(s) : View(d, s)[l] = Entry(d, s, l)
  BY DEF View
<1> QED BY ONLY <1>1, <1>3, <1>4

LEMMA EnlargedIs ==
  ASSUME NEW x \in Item, NEW n, NEW b
  PROVE  [[x EXCEPT !.count = x.count + n] EXCEPT !.items = x.items \o b] = Enlarged(x, n, b)
<1> DEFINE c == x.count + n
           y == x.items \o b
           r == [x EXCEPT !.count = c]
<1>1. Enlarged(x, n, b) = [major |-> x.major, count |-> c, items |-> y]
  BY DEF Enlarged, Join
<1> HIDE DEF c, y
<1>2. r = [major |-> x.major, count |-> c, items |-> x.items]
  BY DEF Item
<1> HIDE DEF r
<1>3. [r EXCEPT !.items = y] = [major |-> x.major, count |-> c, items |-> y]
  BY ONLY <1>2
<1> QED BY ONLY <1>1, <1>3 DEF r, c, y

LEMMA ExtendedIs ==
  ASSUME NEW lv \in Seq(Item), lv # <<>>, NEW n \in Int, NEW b
  PROVE  /\ Nested!Extended(lv, n, b) =
              [i \in 1..Len(lv) |-> IF i = Len(lv) THEN Enlarged(lv[i], n, b) ELSE lv[i]]
         /\ Len(lv) \in 1..Len(lv)
<1> DEFINE k == Len(lv)
           e == [lv EXCEPT ![k].count = @ + n, ![k].items = @ \o b]
           r == [[lv[k] EXCEPT !.count = lv[k].count + n] EXCEPT !.items = lv[k].items \o b]
<1>1. k \in 1..k /\ lv \in [1..k -> Item] /\ k = Len(lv)
  BY EmptySeq
<1>2. Nested!Extended(lv, n, b) = e
  BY DEF Nested!Extended
<1> HIDE DEF k
<1>3. lv[k] \in Item
  BY ONLY <1>1
<1>4. r = Enlarged(lv[k], n, b)
  BY ONLY <1>3, EnlargedIs
<1>5. e = [i \in 1..k |-> IF i = k THEN r ELSE lv[i]]
  BY ONLY <1>1, <1>3 DEF Item
<1> HIDE DEF e, r
<1>6. e = [i \in 1..k |-> IF i = k THEN Enlarged(lv[i], n, b) ELSE lv[i]]
  BY ONLY <1>4, <1>5
<1> QED BY ONLY <1>1, <1>2, <1>6

\* Levels that differ in the innermost alone, which has more.
LEMMA EnlargedView ==
  ASSUME NEW lv \in Seq(Item), lv # <<>>, NEW n \in Int, NEW b,
         NEW d \in Bytes, NEW s \in Stacks, Ordered(s, Len(d)), Len(s) = Len(lv),
         \A i \in 1..(Len(lv) - 1) : Entry(d, s, i) = lv[i],
         Entry(d, s, Len(lv)) = Enlarged(lv[Len(lv)], n, b)
  PROVE  View(d, s) = Nested!Extended(lv, n, b)
<1>1. /\ View(d, s) = [l \in 1..Len(lv) |-> Entry(d, s, l)]
  BY DEF View
<1>2. /\ Nested!Extended(lv, n, b) =
           [i \in 1..Len(lv) |-> IF i = Len(lv) THEN Enlarged(lv[i], n, b) ELSE lv[i]]
      /\ Len(lv) \in 1..Len(lv) /\ Len(lv) \in Nat
  BY ONLY lv \in Seq(Item), lv # <<>>, n \in Int, ExtendedIs
<1>3. ASSUME NEW i \in 1..Len(lv)
      PROVE  Entry(d, s, i) = IF i = Len(lv) THEN Enlarged(lv[i], n, b) ELSE lv[i]
  <2>1. i # Len(lv) => i \in 1..(Len(lv) - 1)
    BY ONLY <1>2, <1>3
  <2> QED BY <2>1
<1> QED BY ONLY <1>1, <1>2, <1>3

\* t is s with n more items counted in the innermost level.
Counted(s, t, n) ==
  /\ t \in Stacks /\ Len(t) = Len(s)
  /\ \A i \in 1..Len(s) : /\ t[i].start = s[i].start /\ t[i].major = s[i].major
                          /\ t[i].count = IF i = Len(s) THEN s[i].count + n ELSE s[i].count

LEMMA CountedIs ==
  ASSUME NEW s \in Stacks, s # <<>>, NEW n \in Int
  PROVE  /\ Counted(s, Recount(s, Len(s), s[Len(s)].count + n), n)
         /\ Counted(s, s, 0)
<1> DEFINE l == Len(s)
           c == s[l].count + n
<1>1. l \in 1..Len(s) /\ s \in [1..l -> Level] /\ l = Len(s)
  BY FrontIs DEF Stacks
<1>2. \A i \in 1..l : s[i].count \in Int
  BY ONLY <1>1 DEF Level
<1>3. c \in Int /\ c = s[l].count + n
  BY ONLY <1>1, <1>2, n \in Int
<1> HIDE DEF l, c
<1>4. /\ Recount(s, l, c) \in Stacks /\ Len(Recount(s, l, c)) = Len(s)
      /\ \A i \in 1..Len(s) :
           /\ Recount(s, l, c)[i].start = s[i].start
           /\ Recount(s, l, c)[i].major = s[i].major
           /\ Recount(s, l, c)[i].count = IF i = l THEN c ELSE s[i].count
  <2>1. l \in 1..Len(s) /\ c \in Int
    BY ONLY <1>1, <1>3
  <2> QED BY ONLY s \in Stacks, <2>1, RecountIs
<1>5. Counted(s, Recount(s, l, c), n)
  BY ONLY <1>1, <1>3, <1>4 DEF Counted
<1>6. Counted(s, s, 0)
  <2>1. \A i \in 1..Len(s) : s[i].count = IF i = Len(s) THEN s[i].count + 0 ELSE s[i].count
    <3> SUFFICES ASSUME NEW i \in 1..Len(s) PROVE s[i].count = s[i].count + 0
      OBVIOUS
    <3>1. s[i].count \in Int
      BY ONLY <1>1, <1>2, i \in 1..Len(s)
    <3> QED BY ONLY <3>1
  <2> QED BY ONLY s \in Stacks, <2>1 DEF Counted
<1> QED BY ONLY <1>1, <1>3, <1>5, <1>6

LEMMA CountedKeeps ==
  ASSUME NEW s \in Stacks, NEW t, NEW n, NEW m, Ordered(s, m), Counted(s, t, n)
  PROVE  Ordered(t, m)
<1> DEFINE k == Len(s)
<1>1. k \in Nat /\ Len(t) = k /\ \A i \in 1..k : t[i].start = s[i].start
  BY DEF Counted, Stacks
<1>2. \A i \in 1..k : s[i].start <= m /\ \A j \in 1..i : s[j].start <= s[i].start
  BY DEF Ordered
<1> HIDE DEF k
<1>3. \A i \in 1..k : \A j \in 1..i : j \in 1..k
  BY ONLY <1>1
<1>4. \A i \in 1..k : t[i].start <= m /\ \A j \in 1..i : t[j].start <= t[i].start
  BY ONLY <1>1, <1>2, <1>3
<1> QED BY ONLY <1>1, <1>4 DEF Ordered

\* Bytes behind everything are the innermost level's.
LEMMA AppendedView ==
  ASSUME NEW d \in Bytes, NEW s \in Stacks, s # <<>>, Ordered(s, Len(d)), NEW b \in Bytes,
         NEW n \in Int, NEW t, Counted(s, t, n)
  PROVE  View(Join(d, b), t) = Nested!Extended(View(d, s), n, b)
<1> DEFINE k == Len(s)
           z == Len(d)
           w == Join(d, b)
           lv == View(d, s)
<1>1. /\ k \in Nat \ {0} /\ z \in Nat /\ d \in Seq(Token) /\ b \in Seq(Token) /\ Len(b) \in Nat
      /\ k = Len(s) /\ z = Len(d)
  BY FrontIs DEF Bytes
<1>2. lv \in Seq(Item) /\ Len(lv) = k /\ \A i \in 1..k : lv[i] = Entry(d, s, i)
  BY ViewIs
<1>3. /\ t \in Stacks /\ Len(t) = k
      /\ \A i \in 1..k : /\ t[i].start = s[i].start /\ t[i].major = s[i].major
                         /\ t[i].count = IF i = k THEN s[i].count + n ELSE s[i].count
  BY DEF Counted
<1>4. \A i \in 1..k : s[i].start \in 0..EndOf(d, s, i) /\ EndOf(d, s, i) \in 0..Len(d)
  BY EntryIs
<1>5. w \in Seq(Token) /\ Len(w) = z + Len(b)
  BY JoinTwo DEF Bytes
<1>6. Ordered(t, z)
  BY CountedKeeps
<1> HIDE DEF k, z, w, lv
<1>7. Ordered(t, Len(w)) /\ w \in Bytes
  <2>1. z <= z + Len(b) /\ z + Len(b) \in Nat
    BY ONLY <1>1
  <2>2. Ordered(t, z + Len(b))
    BY ONLY <1>1, <1>3, <1>6, <2>1, OrderedMore
  <2> QED BY ONLY <1>5, <2>2 DEF Bytes
<1>8. ASSUME NEW i \in 1..(k - 1) PROVE Entry(w, t, i) = lv[i]
  <2>1. i \in 1..k /\ i + 1 \in 1..k /\ i # k
    BY ONLY <1>1, <1>8
  <2>2. EndOf(w, t, i) = EndOf(d, s, i)
    BY ONLY <1>1, <1>3, <2>1 DEF EndOf
  <2> DEFINE e == EndOf(d, s, i)
             a == s[i].start
  <2>3. a \in 0..e /\ e \in 0..Len(d)
    BY ONLY <1>4, <2>1
  <2> HIDE DEF e, a
  <2>4. Slice(w, a, e) = Slice(d, a, e)
    BY ONLY <1>1, <2>3, SliceOfFirst DEF w
  <2>5. Slice(w, s[i].start, EndOf(w, t, i)) = Slice(d, s[i].start, EndOf(d, s, i))
    BY ONLY <2>2, <2>4 DEF a, e
  <2>6. Entry(w, t, i) = Entry(d, s, i)
    BY ONLY <1>3, <2>1, <2>5 DEF Entry
  <2> QED BY ONLY <1>2, <2>1, <2>6
<1>9. Entry(w, t, k) = Enlarged(lv[k], n, b)
  <2>1. EndOf(w, t, k) = z + Len(b) /\ EndOf(d, s, k) = z /\ k \in 1..k
    BY ONLY <1>1, <1>3, <1>5 DEF EndOf
  <2> DEFINE a == s[k].start
  <2>2. a \in 0..Len(d)
    BY ONLY <1>1, <1>4, <2>1
  <2> HIDE DEF a
  <2>3. Slice(w, a, z + Len(b)) = Join(Slice(d, a, z), b)
    BY ONLY <1>1, <2>2, Appended DEF w
  <2>4. Slice(w, s[k].start, EndOf(w, t, k)) = Join(Slice(d, s[k].start, EndOf(d, s, k)), b)
    BY ONLY <2>1, <2>3 DEF a
  <2>5. Entry(w, t, k) = Enlarged(Entry(d, s, k), n, b)
    BY ONLY <1>3, <2>1, <2>4 DEF Entry, Enlarged
  <2> QED BY ONLY <1>2, <2>1, <2>5
<1>10. lv # <<>>
  BY ONLY <1>1, <1>2
<1>11. View(w, t) = Nested!Extended(lv, n, b)
  <2>1. /\ Len(t) = Len(lv) /\ Entry(w, t, Len(lv)) = Enlarged(lv[Len(lv)], n, b)
        /\ \A i \in 1..(Len(lv) - 1) : Entry(w, t, i) = lv[i]
    BY ONLY <1>2, <1>3, <1>8, <1>9
  <2> QED BY ONLY <1>2, <1>3, <1>7, <1>10, <2>1, n \in Int, EnlargedView
<1> QED BY ONLY <1>11 DEF w, lv

\* A level that begins at the end has nothing yet.
LEMMA OpenedView ==
  ASSUME NEW d \in Bytes, NEW s \in Stacks, s # <<>>, Ordered(s, Len(d)), NEW major \in Kinds
  PROVE  View(d, Append(s, Opened(major, Len(d))))
           = Append(View(d, s), [major |-> major, count |-> 0, items |-> <<>>])
<1> DEFINE k == Len(s)
           z == Len(d)
           t == Append(s, Opened(major, z))
           lv == View(d, s)
           new == [major |-> major, count |-> 0, items |-> <<>>]
<1>1. /\ k \in Nat \ {0} /\ z \in Nat /\ d \in Seq(Token) /\ k = Len(s) /\ z = Len(d)
      /\ z \in 0..Len(d) /\ z \in 0..z
  BY FrontIs DEF Bytes
<1>2. lv \in Seq(Item) /\ Len(lv) = k /\ \A i \in 1..k : lv[i] = Entry(d, s, i)
  BY ViewIs
<1>3. /\ t \in Stacks /\ Len(t) = k + 1 /\ (\A i \in 1..k : t[i] = s[i])
      /\ t[k + 1] = Opened(major, z)
  BY <1>1, OpenedIs
<1>4. new \in Item
  BY DEF Item, Bytes
<1> HIDE DEF k, z, t, lv
<1>5. ASSUME NEW i \in 1..k PROVE Entry(d, t, i) = lv[i]
  <2>1. i # k + 1 /\ (i # k => i + 1 \in 1..k) /\ i \in 1..k
    BY ONLY <1>1, <1>5
  <2>2. t[k + 1].start = z
    BY ONLY <1>3 DEF Opened
  <2>3. EndOf(d, t, i) = EndOf(d, s, i)
    <3>1. CASE i = k
      BY ONLY <1>1, <1>3, <2>1, <2>2, <3>1 DEF EndOf
    <3>2. CASE i # k
      BY ONLY <1>1, <1>3, <2>1, <3>2 DEF EndOf
    <3> QED BY ONLY <3>1, <3>2
  <2>4. Entry(d, t, i) = Entry(d, s, i)
    BY ONLY <1>3, <2>1, <2>3 DEF Entry
  <2> QED BY ONLY <1>2, <2>1, <2>4
<1>6. Entry(d, t, k + 1) = new
  <2>1. EndOf(d, t, k + 1) = z
    BY ONLY <1>1, <1>3 DEF EndOf
  <2>0. d \in Seq(Token) /\ z \in 0..Len(d) /\ z \in 0..z
    BY ONLY <1>1
  <2>2. Slice(d, z, z) \in Seq(Token) /\ Len(Slice(d, z, z)) = z - z
    BY ONLY <2>0, SliceIs
  <2>3. Slice(d, z, z) = <<>>
    BY ONLY <1>1, <2>2
  <2> QED BY ONLY <1>3, <2>1, <2>3 DEF Entry, Opened, new
<1> HIDE DEF new
<1>7. /\ Append(lv, new) \in Seq(Item) /\ Len(Append(lv, new)) = k + 1
      /\ \A i \in 1..k : Append(lv, new)[i] = lv[i]
      /\ Append(lv, new)[k + 1] = new
  <2>1. /\ Len(Append(lv, new)) = Len(lv) + 1 /\ Append(lv, new) \in Seq(Item)
        /\ \A i \in 1..Len(lv) : Append(lv, new)[i] = lv[i]
        /\ Append(lv, new)[Len(lv) + 1] = new
    BY ONLY <1>2, <1>4, AppendProperties
  <2> QED BY ONLY <1>2, <2>1
<1>8. View(d, t) = [i \in 1..(k + 1) |-> Entry(d, t, i)]
  BY ONLY <1>3 DEF View
<1>9. \A i \in 1..(k + 1) : Entry(d, t, i) = Append(lv, new)[i]
  <2> SUFFICES ASSUME NEW i \in 1..(k + 1) PROVE Entry(d, t, i) = Append(lv, new)[i]
    OBVIOUS
  <2>1. i \in 1..k \/ i = k + 1
    BY ONLY <1>1, i \in 1..(k + 1)
  <2> QED BY ONLY <1>5, <1>6, <1>7, <2>1
<1>10. Append(lv, new) = [i \in 1..(k + 1) |-> Append(lv, new)[i]]
  <2> DEFINE a == Append(lv, new)
  <2>1. a \in Seq(Item) /\ Len(a) = k + 1
    BY ONLY <1>7
  <2> HIDE DEF a
  <2>2. a = [i \in 1..(k + 1) |-> a[i]]
    BY ONLY <2>1
  <2> QED BY ONLY <2>2 DEF a
<1>11. View(d, t) = Append(lv, new)
  BY ONLY <1>8, <1>9, <1>10
<1> QED BY ONLY <1>11 DEF z, t, lv, new

\* The innermost level becomes bytes at the end of the level around it.
LEMMA ClosedView ==
  ASSUME NEW d \in Bytes, NEW s \in Stacks, s # <<>>, Len(s) > 1, Ordered(s, Len(d)),
         NEW w \in Bytes, Len(d) <= Len(w), NEW b \in Bytes,
         \A m \in 0..s[Len(s)].start : \A i \in 0..m : Slice(w, i, m) = Slice(d, i, m),
         Slice(w, s[Len(s)].start, Len(w)) = b,
         NEW n \in Int, NEW t, Counted(Front(s), t, n)
  PROVE  View(w, t) = Nested!Extended(Front(View(d, s)), n, b)
<1> DEFINE k  == Len(s)
           st == s[Len(s)].start
           f  == Front(s)
           lv == View(d, s)
           fv == Front(lv)
<1>1. /\ k \in Nat /\ k > 1 /\ k = Len(s) /\ Len(d) \in Nat /\ Len(w) \in Nat
      /\ d \in Seq(Token) /\ w \in Seq(Token)
  BY FrontIs DEF Bytes
<1>2. lv \in Seq(Item) /\ Len(lv) = k /\ \A i \in 1..k : lv[i] = Entry(d, s, i)
  BY ViewIs
<1>3. /\ f \in Stacks /\ Len(f) = k - 1 /\ (\A i \in 1..(k - 1) : f[i] = s[i])
      /\ Ordered(f, Len(d))
  BY FrontIs, FrontKeeps
<1>4. /\ t \in Stacks /\ Len(t) = Len(f)
      /\ \A i \in 1..Len(f) : /\ t[i].start = f[i].start /\ t[i].major = f[i].major
                              /\ t[i].count = IF i = Len(f) THEN f[i].count + n ELSE f[i].count
  BY DEF Counted
<1>5. \A i \in 1..k : s[i].start \in 0..EndOf(d, s, i) /\ EndOf(d, s, i) \in 0..Len(d)
  BY EntryIs
<1>6. \A i \in 1..(k - 1) : EndOf(d, s, i) = s[i + 1].start
  BY <1>1 DEF EndOf
<1>7. fv = SubSeq(lv, 1, Len(lv) - 1)
  BY DEF Front
<1>8. /\ \A m \in 0..st : \A i \in 0..m : Slice(w, i, m) = Slice(d, i, m)
      /\ Slice(w, st, Len(w)) = b /\ st = s[k].start
  OBVIOUS
<1>9. Ordered(t, Len(w))
  <2>1. Ordered(t, Len(d))
    BY ONLY <1>3, Counted(Front(s), t, n), CountedKeeps DEF f
  <2> QED BY ONLY <1>1, <1>4, <2>1, Len(d) <= Len(w), OrderedMore
<1>10. EndOf(d, s, k - 1) = st
  BY ONLY <1>1, <1>6, <1>8
<1>16. \A i \in 1..k : \A m \in 1..i : s[m].start <= s[i].start
  BY DEF Ordered
<1>17. st \in Nat /\ st <= Len(d) /\ k \in 1..k /\ Len(d) <= Len(w)
  BY <1>1, <1>5, <1>8 DEF EndOf
<1> HIDE DEF k, st, f, lv, fv
<1>11. fv \in Seq(Item) /\ Len(fv) = k - 1 /\ \A i \in 1..(k - 1) : fv[i] = lv[i]
  <2>1. Len(lv) - 1 \in 0..Len(lv) /\ 0 \in 0..(Len(lv) - 1) /\ 0 + 1 = 1 /\ Len(lv) - 1 - 0 = k - 1
    BY ONLY <1>1, <1>2
  <2> DEFINE e == Len(lv) - 1
  <2>2. fv = Slice(lv, 0, e)
    BY ONLY <1>7, <2>1 DEF Slice
  <2>3. e \in 0..Len(lv) /\ 0 \in 0..e /\ e - 0 = k - 1 /\ \A i \in 1..(k - 1) : 0 + i = i
    BY ONLY <1>1, <2>1
  <2> HIDE DEF e
  <2>4. /\ Slice(lv, 0, e) \in Seq(Item) /\ Len(Slice(lv, 0, e)) = e - 0
        /\ \A i \in 1..(e - 0) : Slice(lv, 0, e)[i] = lv[0 + i]
    <3>1. lv \in Seq(Item) /\ e \in 0..Len(lv) /\ 0 \in 0..e
      BY ONLY <1>2, <2>3
    <3> QED BY ONLY <3>1, SliceIs
  <2> QED BY ONLY <2>2, <2>3, <2>4
<1>12. ASSUME NEW i \in 1..(k - 2) PROVE Entry(w, t, i) = fv[i]
  <2>1. i \in 1..k /\ i \in 1..(k - 1) /\ i + 1 \in 1..(k - 1) /\ i # k - 1 /\ i + 1 \in 1..k
    BY ONLY <1>1, <1>12
  <2>2. EndOf(w, t, i) = EndOf(d, s, i)
    BY ONLY <1>3, <1>4, <1>6, <2>1 DEF EndOf
  <2>3. s[i + 1].start <= st
    BY ONLY <1>1, <1>8, <1>16, <2>1
  <2> DEFINE e == EndOf(d, s, i)
             a == s[i].start
  <2>4. a \in 0..e /\ e \in 0..st
    BY ONLY <1>1, <1>5, <1>6, <1>8, <1>10, <1>17, <2>1, <2>3
  <2> HIDE DEF e, a
  <2>5. Slice(w, a, e) = Slice(d, a, e)
    BY ONLY <1>8, <2>4
  <2>6. Slice(w, s[i].start, EndOf(w, t, i)) = Slice(d, s[i].start, EndOf(d, s, i))
    BY ONLY <2>2, <2>5 DEF a, e
  <2>7. /\ t[i].start = s[i].start /\ t[i].major = s[i].major /\ t[i].count = s[i].count
    BY ONLY <1>3, <1>4, <2>1
  <2>8. Entry(w, t, i) = Entry(d, s, i)
    BY ONLY <2>6, <2>7 DEF Entry
  <2> QED BY ONLY <1>2, <1>11, <2>1, <2>8
<1>13. Entry(w, t, k - 1) = Enlarged(fv[k - 1], n, b)
  <2> DEFINE j == k - 1
             a == s[j].start
  <2>1. j \in 1..k /\ j \in 1..(k - 1) /\ j = k - 1
    BY ONLY <1>1
  <2>2. EndOf(w, t, j) = Len(w) /\ EndOf(d, s, j) = st
    BY ONLY <1>3, <1>4, <1>10 DEF EndOf
  <2>3. a \in 0..st /\ st \in 0..Len(w) /\ Len(w) \in 0..Len(w) /\ st \in 0..st
    BY ONLY <1>1, <1>5, <1>8, <1>10, <1>17, <2>1
  <2>4. /\ t[j].start = s[j].start /\ t[j].major = s[j].major /\ t[j].count = s[j].count + n
    BY ONLY <1>3, <1>4, <2>1
  <2>5. a = s[j].start
    OBVIOUS
  <2>6. fv[k - 1] = Entry(d, s, j)
    BY ONLY <1>2, <1>11, <2>1
  <2> HIDE DEF j, a
  <2>7. Join(Slice(w, a, st), Slice(w, st, Len(w))) = Slice(w, a, Len(w))
    BY ONLY <1>1, <2>3, SlicesMeet
  <2>8. Slice(w, a, st) = Slice(d, a, st)
    BY ONLY <1>8, <2>3
  <2>9. Slice(w, s[j].start, EndOf(w, t, j)) = Join(Slice(d, s[j].start, EndOf(d, s, j)), b)
    BY ONLY <1>8, <2>2, <2>5, <2>7, <2>8
  <2>10. Entry(w, t, j) = Enlarged(Entry(d, s, j), n, b)
    BY ONLY <2>4, <2>9 DEF Entry, Enlarged
  <2> QED BY ONLY <2>1, <2>6, <2>10
<1>14. fv # <<>>
  BY ONLY <1>1, <1>11
<1>15. View(w, t) = Nested!Extended(fv, n, b)
  <2>1. /\ Len(t) = Len(fv) /\ Entry(w, t, Len(fv)) = Enlarged(fv[Len(fv)], n, b)
        /\ \A i \in 1..(Len(fv) - 1) : Entry(w, t, i) = fv[i]
    <3>1. Len(t) = k - 1 /\ Len(fv) = k - 1 /\ k - 1 - 1 = k - 2
      BY ONLY <1>1, <1>3, <1>4, <1>11
    <3> QED BY ONLY <1>12, <1>13, <3>1
  <2> QED BY ONLY <1>4, <1>9, <1>11, <1>14, <2>1, n \in Int, w \in Bytes, EnlargedView
<1> QED BY ONLY <1>15 DEF fv, lv

\* One item less.
LEMMA UncountedIs ==
  ASSUME NEW lv \in Seq(Item), lv # <<>>, lv[Len(lv)].items \in Bytes
  PROVE  Nested!Extended(lv, -1, <<>>) = [lv EXCEPT ![Len(lv)].count = @ - 1]
<1> DEFINE k == Len(lv)
           x == lv[k]
           r == [x EXCEPT !.count = x.count - 1]
<1>1. /\ k \in 1..k /\ lv \in [1..k -> Item] /\ k = Len(lv)
      /\ Nested!Extended(lv, -1, <<>>) =
           [i \in 1..k |-> IF i = k THEN Enlarged(lv[i], -1, <<>>) ELSE lv[i]]
  <2>1. -1 \in Int
    OBVIOUS
  <2> QED BY <2>1, ExtendedIs
<1>2. Join(x.items, <<>>) = x.items
  BY JoinEmpty DEF Bytes
<1> HIDE DEF k
<1>3. x \in Item
  BY ONLY <1>1
<1>4. x.count \in Int
  BY ONLY <1>3 DEF Item
<1> HIDE DEF x
<1>5. r = [major |-> x.major, count |-> x.count - 1, items |-> x.items]
  BY ONLY <1>3 DEF Item
<1>6. r = Enlarged(x, -1, <<>>)
  BY ONLY <1>2, <1>4, <1>5 DEF Enlarged
<1>7. [lv EXCEPT ![k].count = @ - 1] = [i \in 1..k |-> IF i = k THEN r ELSE lv[i]]
  BY ONLY <1>1, <1>3 DEF x
<1> HIDE DEF r
<1>8. [lv EXCEPT ![k].count = @ - 1]
        = [i \in 1..k |-> IF i = k THEN Enlarged(lv[i], -1, <<>>) ELSE lv[i]]
  BY ONLY <1>6, <1>7 DEF x
<1> QED BY ONLY <1>1, <1>8

-----------------------------------------------------------------------------
(* While no call has met an error                                           *)

\* The outermost level is around everything, and a level that encloses another has
\* it counted, so that Nesting_Decrement() does not go below zero.
Good(s) ==
  /\ s # <<>> /\ s[1].start = 0
  /\ \A l \in 1..Len(s) : s[l].count \in 0..MaxItems /\ (l < Len(s) => s[l].count > 0)

Whole == ~failed => ~err /\ uError = "SUCCESS" /\ Good(nesting)

LEMMA GoodCounted ==
  ASSUME NEW s \in Stacks, Good(s), NEW n \in Int, NEW t, Counted(s, t, n),
         s[Len(s)].count + n \in 0..MaxItems
  PROVE  Good(t)
<1> DEFINE k == Len(s)
           c == s[Len(s)].count + n
<1>1. /\ k \in Nat \ {0} /\ s[1].start = 0 /\ c \in 0..MaxItems
      /\ \A l \in 1..k : s[l].count \in 0..MaxItems /\ (l < k => s[l].count > 0)
  BY FrontIs DEF Good
<1>2. /\ t \in Stacks /\ Len(t) = k
      /\ \A i \in 1..k : t[i].start = s[i].start /\ t[i].count = IF i = k THEN c ELSE s[i].count
  BY DEF Counted
<1> HIDE DEF k, c
<1>3. t # <<>> /\ 1 \in 1..k
  BY ONLY <1>1, <1>2
<1>4. \A l \in 1..k : t[l].count \in 0..MaxItems /\ (l < k => t[l].count > 0)
  BY ONLY <1>1, <1>2
<1> QED BY ONLY <1>1, <1>2, <1>3, <1>4 DEF Good

LEMMA GoodOpened ==
  ASSUME NEW s \in Stacks, Good(s), s[Len(s)].count > 0, NEW major \in Kinds, NEW p \in Nat
  PROVE  Good(Append(s, Opened(major, p)))
<1> DEFINE k == Len(s)
           t == Append(s, Opened(major, p))
<1>1. /\ k \in Nat \ {0} /\ s[1].start = 0 /\ s[k].count > 0
      /\ \A l \in 1..k : s[l].count \in 0..MaxItems /\ (l < k => s[l].count > 0)
  BY FrontIs DEF Good
<1>2. Len(t) = k + 1 /\ (\A i \in 1..k : t[i] = s[i]) /\ t[k + 1].count = 0
  BY OpenedIs DEF Opened
<1>3. 0 \in 0..MaxItems
  BY BoundsAssumption
<1> HIDE DEF k, t
<1>4. t # <<>> /\ t[1].start = 0
  BY ONLY <1>1, <1>2
<1>5. ASSUME NEW l \in 1..(k + 1)
      PROVE  t[l].count \in 0..MaxItems /\ (l < k + 1 => t[l].count > 0)
  <2>0. k \in Nat \ {0}
    BY ONLY <1>1
  <2>1. l = k + 1 \/ l = k \/ (l \in 1..k /\ l < k)
    BY ONLY <2>0, l \in 1..(k + 1)
  <2>2. k \in 1..k /\ ~(k + 1 < k + 1)
    BY ONLY <1>1
  <2> QED BY ONLY <1>1, <1>2, <1>3, <2>1, <2>2
<1> QED BY ONLY <1>2, <1>4, <1>5 DEF Good, t

LEMMA GoodFront ==
  ASSUME NEW s \in Stacks, Good(s), Len(s) > 1
  PROVE  Good(Front(s)) /\ Front(s)[Len(Front(s))].count \in 1..MaxItems
<1> DEFINE k == Len(s)
           t == Front(s)
<1>1. /\ k \in Nat \ {0} /\ s[1].start = 0 /\ k > 1
      /\ \A l \in 1..k : s[l].count \in 0..MaxItems /\ (l < k => s[l].count > 0)
  BY FrontIs DEF Good
<1>2. Len(t) = k - 1 /\ (\A i \in 1..(k - 1) : t[i] = s[i])
  BY FrontIs DEF Good
<1>3. MaxItems \in Nat
  BY BoundsAssumption
<1> HIDE DEF k, t
<1>4. t # <<>> /\ t[1].start = 0
  BY ONLY <1>1, <1>2
<1>5. \A l \in 1..(k - 1) : t[l].count \in 1..MaxItems
  <2> SUFFICES ASSUME NEW l \in 1..(k - 1) PROVE t[l].count \in 1..MaxItems
    OBVIOUS
  <2>1. l \in 1..k /\ l < k
    BY ONLY <1>1, l \in 1..(k - 1)
  <2> QED BY ONLY <1>1, <1>2, <1>3, <2>1
<1>6. \A l \in 1..(k - 1) : t[l].count \in 0..MaxItems /\ t[l].count > 0
  BY ONLY <1>3, <1>5
<1>7. k - 1 \in 1..(k - 1)
  BY ONLY <1>1
<1> QED BY ONLY <1>2, <1>4, <1>5, <1>6, <1>7 DEF Good, t

LEMMA WholeFacts ==
  ASSUME IInv, Whole, ~failed
  PROVE  /\ nesting \in Stacks /\ nesting # <<>> /\ Good(nesting) /\ data \in Bytes
         /\ Ordered(nesting, Len(data)) /\ uError = "SUCCESS" /\ ~err
         /\ Levels = View(data, nesting)
<1>1. Good(nesting) /\ uError = "SUCCESS" /\ ~err
  BY DEF Whole
<1>2. Levels = View(data, nesting)
  BY DEF Levels, LevelItems, View, Entry, EndOf, Slice
<1> QED BY <1>1, <1>2, Facts DEF Good

LEMMA LevelsNext == ASSUME ~failed' PROVE Levels' = View(data', nesting')
BY DEF Levels, LevelItems, View, Entry, EndOf, Slice

-----------------------------------------------------------------------------
(* The steps                                                                *)

\* The items of the innermost level.
LEMMA LastIs ==
  ASSUME NEW d \in Bytes, NEW s \in Stacks, s # <<>>, Ordered(s, Len(d))
  PROVE  /\ Len(s) \in 1..Len(s) /\ Last(View(d, s)) = Entry(d, s, Len(s))
         /\ EndOf(d, s, Len(s)) = Len(d) /\ View(d, s) # <<>>
<1>1. Len(s) \in 1..Len(s) /\ Len(s) \in Nat
  BY FrontIs
<1>2. Len(View(d, s)) = Len(s) /\ View(d, s)[Len(s)] = Entry(d, s, Len(s))
  BY <1>1, ViewIs
<1>3. View(d, s) # <<>>
  BY <1>1, <1>2
<1> QED BY <1>1, <1>2, <1>3 DEF Last, EndOf

\* What is behind x in x and b.
LEMMA More ==
  ASSUME NEW x \in Bytes, NEW b \in Bytes
  PROVE  SubSeq(Join(x, b), Len(x) + 1, Len(Join(x, b))) = b
<1>1. Slice(Join(x, b), Len(x), Len(x) + Len(b)) = b /\ Len(Join(x, b)) = Len(x) + Len(b)
  BY SliceOfJoin, JoinTwo DEF Bytes
<1> QED BY <1>1 DEF Slice

\* Bytes at the end, and at most one more item.
LEMMA AddMaps ==
  ASSUME IInv, Whole, ~failed, ~failed', NEW b \in Bytes, data' = Join(data, b), NEW n \in {0, 1},
         Counted(nesting, nesting', n), Current.count + n \in 0..MaxItems, returned' = Nothing
  PROVE  Good(nesting') /\ Nested!Add /\ Levels' = Nested!Extended(Levels, n, b)
<1> DEFINE lv == Levels
           lw == Levels'
           x  == Last(lv).items
<1>1. /\ nesting \in Stacks /\ nesting # <<>> /\ Good(nesting) /\ data \in Bytes
      /\ Ordered(nesting, Len(data)) /\ lv = View(data, nesting) /\ n \in Int
  BY WholeFacts
<1>2. lw = View(data', nesting')
  BY LevelsNext
<1>3. Good(nesting')
  <2>1. Current = nesting[Len(nesting)]
    BY <1>1, CurrentIs
  <2> QED BY <1>1, <2>1, GoodCounted
<1>4. View(Join(data, b), nesting') = Nested!Extended(View(data, nesting), n, b)
  BY <1>1, AppendedView
<1>5. lv \in Seq(Item) /\ lv # <<>>
  BY <1>1, ViewIs, LastIs
<1>6. nesting' \in Stacks /\ Len(nesting') = Len(nesting)
  BY DEF Counted
<1>8. (IF returned.code = "SUCCESS" /\ ~failed THEN returned.bytes ELSE <<>>)' = <<>>
  BY DEF Nothing
<1> HIDE DEF lv, lw, x
<1>9. lw = Nested!Extended(lv, n, b)
  BY <1>1, <1>2, <1>4
<1>10. /\ Nested!Extended(lv, n, b) =
              [i \in 1..Len(lv) |-> IF i = Len(lv) THEN Enlarged(lv[i], n, b) ELSE lv[i]]
       /\ Len(lv) \in 1..Len(lv)
  BY ONLY <1>1, <1>5, ExtendedIs
<1>11. Len(lw) = Len(lv)
  BY ONLY <1>5, <1>9, <1>10
<1>12. Last(lw) = Enlarged(Last(lv), n, b) /\ Last(lv) \in Item
  BY ONLY <1>5, <1>9, <1>10, <1>11 DEF Last
<1>13. Last(lw).items = Join(x, b) /\ x \in Bytes
  BY ONLY <1>12 DEF Enlarged, Item, x
<1>14. SubSeq(Last(lw).items, Len(x) + 1, Len(Last(lw).items)) = b
  BY ONLY <1>13, b \in Bytes, More
<1>15. /\ Len(lw) = Len(lv)
       /\ lw = Nested!Extended(lv, n, SubSeq(Last(lw).items, Len(Last(lv).items) + 1, Len(Last(lw).items)))
  BY ONLY <1>9, <1>11, <1>14 DEF x
<1>16. UNCHANGED failed
  BY DEF failed
<1>17. Nested!Add
  BY ONLY n \in {0, 1}, <1>8, <1>15, <1>16 DEF Nested!Add, Nested!Last, Last, lv, lw
<1> QED BY <1>3, <1>9, <1>17 DEF lv, lw

\* A call that gives nothing back delivers nothing.
LEMMA NothingDelivered ==
  ASSUME returned' = Nothing \/ returned'.code = "wrapped" \/ failed'
  PROVE  (IF returned.code = "SUCCESS" /\ ~failed THEN returned.bytes ELSE <<>>)' = <<>>
BY DEF Nothing

LEMMA StillWhole == ASSUME ~failed, ~failed' PROVE UNCHANGED failed
BY DEF failed

\* A level is opened behind bytes that are the head of an indefinite length, or none.
LEMMA OpenMaps ==
  ASSUME IInv, Whole, ~failed, ~failed', ~err', uError' = "SUCCESS", NEW major \in Kinds,
         NEW b \in Bytes, data' = Join(data, b), data' \in Bytes, OpenLevel(major, Len(data'))
  PROVE  Good(nesting') /\ Nested!Open(major, b)
<1> DEFINE k == Len(nesting)
           c == nesting[k].count + 1
           t == Recount(nesting, k, c)
           z == Len(data')
           new == [major |-> major, count |-> 0, items |-> <<>>]
<1>1. /\ nesting \in Stacks /\ nesting # <<>> /\ Good(nesting) /\ data \in Bytes
      /\ Ordered(nesting, Len(data)) /\ Levels = View(data, nesting)
  BY WholeFacts
<1>2. Levels' = View(data', nesting')
  BY LevelsNext
<1>3. k \in 1..Len(nesting) /\ nesting[k] \in Level /\ Current = nesting[k]
  BY <1>1, CurrentIs, FrontIs
<1>4. Note(~(uError = "SUCCESS" /\ CanIncrement), FALSE)
  BY DEF OpenLevel
<1>5. uError = "SUCCESS" /\ CanIncrement
  BY <1>4, NoteMeans
<1>6. nesting' = Append(t, Opened(major, z)) /\ returned' = Nothing
  <2>1. Incremented(nesting) = t
    BY <1>1, <1>3, IncrementIs
  <2> QED BY <1>5, <2>1 DEF OpenLevel, Opened
<1>7. c \in 1..MaxItems /\ c \in 0..MaxItems /\ c = nesting[k].count + 1
  <2>1. nesting[k].count \in 0..MaxItems /\ MaxItems \in Nat
    BY <1>1, <1>3, BoundsAssumption DEF Good
  <2>2. 1 < MaxItems - nesting[k].count
    BY <1>3, <1>5 DEF CanIncrement
  <2> DEFINE x == nesting[k].count
  <2> HIDE DEF x
  <2>3. x + 1 \in 1..MaxItems /\ x + 1 \in 0..MaxItems
    BY ONLY <2>1, <2>2 DEF x
  <2> QED BY <2>3 DEF x
<1>8. Counted(nesting, t, 1)
  <2>1. 1 \in Int
    OBVIOUS
  <2> QED BY <1>1, <2>1, CountedIs
<1>9. t \in Stacks /\ Len(t) = k /\ t[k].count = c
  BY <1>3, <1>8 DEF Counted
<1>10. z \in Nat /\ Len(data) \in Nat /\ Len(data) <= z
  <2>1. Len(Join(data, b)) = Len(data) + Len(b) /\ Len(data) \in Nat /\ Len(b) \in Nat
    <3>1. data \in Seq(Token) /\ b \in Seq(Token)
      BY <1>1 DEF Bytes
    <3>2. Len(Join(data, b)) = Len(data) + Len(b)
      BY ONLY <3>1, JoinTwo
    <3> QED BY ONLY <3>1, <3>2
  <2> QED BY <2>1
<1>11. /\ z = Len(data') /\ k = Len(nesting) /\ t # <<>>
  BY <1>3, <1>9
<1> HIDE DEF k, c, t, z
<1>12. Good(t)
  <2>1. nesting[Len(nesting)].count + 1 \in 0..MaxItems /\ 1 \in Int
    BY ONLY <1>7, <1>11
  <2> QED BY ONLY <1>1, <1>8, <2>1, GoodCounted
<1>13. Good(nesting')
  <2>1. t[Len(t)].count > 0
    BY ONLY <1>7, <1>9
  <2> QED BY ONLY <1>6, <1>9, <1>10, <1>12, <2>1, major \in Kinds, GoodOpened
<1>14. Ordered(t, z)
  <2>1. Ordered(t, Len(data))
    BY ONLY <1>1, <1>8, CountedKeeps
  <2> QED BY ONLY <1>9, <1>10, <2>1, OrderedMore
<1>15. View(data', t) = Nested!Extended(Levels, 1, b)
  <2>1. 1 \in Int
    OBVIOUS
  <2>2. View(Join(data, b), t) = Nested!Extended(View(data, nesting), 1, b)
    BY ONLY <1>1, <1>8, <2>1, b \in Bytes, AppendedView
  <2> QED BY ONLY <1>1, <2>2, data' = Join(data, b)
<1>16. View(data', nesting') = Append(View(data', t), new)
  <2> DEFINE w == data'
  <2>1. w \in Bytes /\ Ordered(t, Len(w)) /\ z = Len(w)
    BY <1>11, <1>14
  <2> HIDE DEF w
  <2>2. View(w, Append(t, Opened(major, z))) = Append(View(w, t), new)
    BY ONLY <1>9, <1>11, <2>1, major \in Kinds, OpenedView
  <2> QED BY ONLY <1>6, <2>2 DEF w
<1>17. Levels' = Append(Nested!Extended(Levels, 1, b), new)
  BY ONLY <1>2, <1>15, <1>16
<1>18. UNCHANGED failed
  BY StillWhole
<1>19. (IF returned.code = "SUCCESS" /\ ~failed THEN returned.bytes ELSE <<>>)' = <<>>
  BY <1>6, NothingDelivered
<1>20. Nested!Open(major, b)
  BY ONLY <1>17, <1>18, <1>19 DEF Nested!Open, new
<1> QED BY ONLY <1>13, <1>20

\* The innermost level is closed: its bytes have become b.
LEMMA CloseMaps ==
  ASSUME IInv, Whole, ~failed, ~failed', Len(nesting) > 1, nesting' = Front(nesting),
         NEW b \in Bytes, NEW p, Current.start \in 0..p, p \in Nat, InsertedIn(data, data', p),
         Slice(data', Current.start, Len(data')) = b
  PROVE  /\ Good(nesting') /\ UNCHANGED failed
         /\ Len(Levels) > 1 /\ Last(Levels) = Entry(data, nesting, Len(nesting))
         /\ EndOf(data, nesting, Len(nesting)) = Len(data)
         /\ Levels' = Nested!Extended(Front(Levels), 0, b)
<1> DEFINE st == Current.start
<1>1. /\ nesting \in Stacks /\ nesting # <<>> /\ Good(nesting) /\ data \in Bytes
      /\ Ordered(nesting, Len(data)) /\ Levels = View(data, nesting)
  BY WholeFacts
<1>2. Levels' = View(data', nesting')
  BY LevelsNext
<1>3. Good(nesting') /\ UNCHANGED failed
  BY <1>1, GoodFront, StillWhole
<1>4. Len(Levels) > 1
  BY <1>1, ViewIs
<1>5. /\ Last(Levels) = Entry(data, nesting, Len(nesting))
      /\ EndOf(data, nesting, Len(nesting)) = Len(data)
  BY <1>1, LastIs
<1>6. st = nesting[Len(nesting)].start
  BY <1>1, CurrentIs
<1>7. Counted(Front(nesting), Front(nesting), 0) /\ 0 \in Int
  <2>1. Front(nesting) \in Stacks /\ Front(nesting) # <<>>
    BY <1>1, GoodFront, FrontIs DEF Good
  <2> QED BY <2>1, CountedIs
<1>8. /\ data' \in Bytes /\ Len(data) <= Len(data')
      /\ \A m \in 0..p : \A i \in 0..m : Slice(data', i, m) = Slice(data, i, m)
  BY DEF InsertedIn
<1>9. \A m \in 0..st : m \in 0..p
  BY ONLY st \in 0..p, p \in Nat
<1> DEFINE w == data'
<1>10. w \in Bytes /\ Len(data) <= Len(w) /\ Slice(w, st, Len(w)) = b
  BY <1>8
<1>11. \A m \in 0..st : \A i \in 0..m : Slice(w, i, m) = Slice(data, i, m)
  BY <1>8, <1>9
<1> HIDE DEF st, w
<1>12. View(w, Front(nesting)) = Nested!Extended(Front(View(data, nesting)), 0, b)
  BY ONLY <1>1, <1>6, <1>7, <1>10, <1>11, Len(nesting) > 1, b \in Bytes, ClosedView
<1>13. Levels' = Nested!Extended(Front(Levels), 0, b)
  BY ONLY <1>1, <1>2, <1>12, nesting' = Front(nesting) DEF w
<1> QED BY <1>3, <1>4, <1>5, <1>13

\* One more item is counted, after a call that met no error.
LEMMA IncrementCounts ==
  ASSUME IInv, Whole, ~failed, uError' = "SUCCESS", IncrementMapOrArrayCount
  PROVE  Counted(nesting, nesting', 1) /\ Current.count + 1 \in 0..MaxItems
<1>1. nesting \in Stacks /\ nesting # <<>> /\ Good(nesting) /\ uError = "SUCCESS"
  BY WholeFacts
<1>2. CanIncrement /\ nesting' = Incremented(nesting)
  BY <1>1 DEF IncrementMapOrArrayCount
<1>3. /\ nesting' = Recount(nesting, Len(nesting), Current.count + 1)
      /\ Len(nesting) \in 1..Len(nesting)
  BY <1>1, <1>2, IncrementIs
<1>4. Current = nesting[Len(nesting)]
  BY <1>1, CurrentIs
<1>5. Counted(nesting, nesting', 1)
  <2>1. 1 \in Int
    OBVIOUS
  <2> QED BY <1>1, <1>3, <1>4, <2>1, CountedIs
<1>6. Current.count + 1 \in 0..MaxItems
  <2> DEFINE x == Current.count
  <2>1. x \in 0..MaxItems /\ MaxItems \in Nat
    BY <1>1, <1>3, <1>4, BoundsAssumption DEF Good
  <2>2. 1 < MaxItems - x
    BY <1>2 DEF CanIncrement
  <2> HIDE DEF x
  <2>3. x + 1 \in 0..MaxItems
    BY ONLY <2>1, <2>2
  <2> QED BY <2>3 DEF x
<1> QED BY <1>5, <1>6

\* Every call, if none has met an error.
Mapped == ~failed' => ~failed /\ ~err' /\ uError' = "SUCCESS" /\ Good(nesting') /\ Nested!Next

LEMMA IntMaps ==
  ASSUME IInv, Whole, AddInt64
  PROVE  Mapped /\ (~failed' => Levels' = Nested!Extended(Levels, 1, EncodeHead("int", 0)))
<1> SUFFICES ASSUME ~failed'
             PROVE  Mapped /\ Levels' = Nested!Extended(Levels, 1, EncodeHead("int", 0))
  BY DEF Mapped
<1>1. /\ AppendUsefulBuf(EncodeHead("int", 0)) /\ IncrementMapOrArrayCount
      /\ Note(FALSE, FALSE) /\ returned' = Nothing
  BY DEF AddInt64
<1>2. ~failed /\ ~err' /\ uError' = "SUCCESS"
  BY <1>1, NoteMeans
<1>3. EncodeHead("int", 0) \in Bytes
  BY HeadIsBytes DEF Kinds
<1>4. data' = Join(data, EncodeHead("int", 0))
  BY <1>1, <1>2, <1>3, Facts, AppendWorks
<1>5. Counted(nesting, nesting', 1) /\ Current.count + 1 \in 0..MaxItems
  BY <1>1, <1>2, IncrementCounts
<1>6. Good(nesting') /\ Nested!Add /\ Levels' = Nested!Extended(Levels, 1, EncodeHead("int", 0))
  <2>1. 1 \in {0, 1}
    OBVIOUS
  <2> QED BY ONLY IInv, Whole, ~failed', <1>1, <1>2, <1>3, <1>4, <1>5, <2>1, AddMaps
<1> QED BY <1>2, <1>6 DEF Mapped, Nested!Next

LEMMA TagMaps ==
  ASSUME IInv, Whole, AddTag
  PROVE  Mapped /\ (~failed' => Levels' = Nested!Extended(Levels, 0, EncodeHead("tag", 0)))
<1> SUFFICES ASSUME ~failed'
             PROVE  Mapped /\ Levels' = Nested!Extended(Levels, 0, EncodeHead("tag", 0))
  BY DEF Mapped
<1>1. /\ AppendUsefulBuf(EncodeHead("tag", 0)) /\ nesting' = nesting
      /\ Note(FALSE, FALSE) /\ returned' = Nothing
  BY DEF AddTag
<1>2. ~failed /\ ~err' /\ uError' = "SUCCESS"
  BY <1>1, NoteMeans
<1>3. EncodeHead("tag", 0) \in Bytes
  BY HeadIsBytes DEF Kinds
<1>4. data' = Join(data, EncodeHead("tag", 0))
  BY <1>1, <1>2, <1>3, Facts, AppendWorks
<1>5. Counted(nesting, nesting', 0) /\ Current.count + 0 \in 0..MaxItems
  <2>1. nesting \in Stacks /\ nesting # <<>> /\ Good(nesting)
    BY <1>2, WholeFacts
  <2>2. Current = nesting[Len(nesting)] /\ Len(nesting) \in 1..Len(nesting)
    BY <2>1, CurrentIs, FrontIs
  <2> DEFINE x == Current.count
  <2>3. x \in 0..MaxItems
    BY <2>1, <2>2 DEF Good
  <2> HIDE DEF x
  <2>4. x + 0 \in 0..MaxItems
    BY ONLY <2>3
  <2>5. Counted(nesting, nesting, 0)
    <3>1. 0 \in Int
      OBVIOUS
    <3> QED BY <2>1, <3>1, CountedIs
  <2> QED BY <1>1, <2>4, <2>5 DEF x
<1>6. Good(nesting') /\ Nested!Add /\ Levels' = Nested!Extended(Levels, 0, EncodeHead("tag", 0))
  <2>1. 0 \in {0, 1}
    OBVIOUS
  <2> QED BY ONLY IInv, Whole, ~failed', <1>1, <1>2, <1>3, <1>4, <1>5, <2>1, AddMaps
<1> QED BY <1>2, <1>6 DEF Mapped, Nested!Next

LEMMA BufferMaps ==
  ASSUME IInv, Whole, NEW kind \in {"string", "raw", "lenOnly"}, AddBuffer(kind)
  PROVE  Mapped /\ (~failed' => Levels' = Nested!Extended(Levels, 1, Written(kind)))
<1> SUFFICES ASSUME ~failed'
             PROVE  Mapped /\ Levels' = Nested!Extended(Levels, 1, Written(kind))
  BY DEF Mapped
<1>1. IncrementMapOrArrayCount /\ Note(FALSE, kind = "lenOnly") /\ returned' = Nothing
  BY DEF AddBuffer
<1>2. ~failed /\ ~err' /\ uError' = "SUCCESS"
  BY <1>1, NoteMeans
<1>3. Written(kind) \in Bytes /\ data' = Join(data, Written(kind))
  BY <1>2, BufferWorks
<1>4. Counted(nesting, nesting', 1) /\ Current.count + 1 \in 0..MaxItems
  BY <1>1, <1>2, IncrementCounts
<1>5. Good(nesting') /\ Nested!Add /\ Levels' = Nested!Extended(Levels, 1, Written(kind))
  <2>1. 1 \in {0, 1}
    OBVIOUS
  <2> QED BY ONLY IInv, Whole, ~failed', <1>1, <1>2, <1>3, <1>4, <2>1, AddMaps
<1> QED BY <1>2, <1>5 DEF Mapped, Nested!Next

\* The reserved simple values are always an error.
LEMMA ReservedMaps == ASSUME IInv, Whole, AddType7Reserved PROVE Mapped /\ failed'
<1> SUFFICES ASSUME ~failed' PROVE FALSE
  BY DEF Mapped
<1>1. Note(FALSE, FALSE)
  BY DEF AddType7Reserved
<1>2. ~failed /\ uError' = "SUCCESS"
  BY <1>1, NoteMeans
<1>3. uError = "SUCCESS"
  BY <1>2, WholeFacts
<1> QED BY <1>2, <1>3 DEF AddType7Reserved

LEMMA OpenLevelMaps ==
  ASSUME IInv, Whole, NEW major \in Majors \cup {"bstr"}, OpenMapOrArray(major)
  PROVE  Mapped /\ (~failed' => Nested!Open(major, <<>>))
<1> SUFFICES ASSUME ~failed' PROVE Mapped /\ Nested!Open(major, <<>>)
  BY DEF Mapped
<1>1. OpenLevel(major, Len(data)) /\ data' = data /\ err' = err
  BY DEF OpenMapOrArray
<1>2. Note(~(uError = "SUCCESS" /\ CanIncrement), FALSE)
  BY <1>1 DEF OpenLevel
<1>3. ~failed /\ ~err' /\ uError' = "SUCCESS"
  BY <1>2, NoteMeans
<1>4. major \in Kinds /\ <<>> \in Bytes /\ data' = Join(data, <<>>) /\ data' \in Bytes
  <2>1. data \in Seq(Token)
    BY Facts DEF Bytes
  <2>2. <<>> \in Seq(Token) /\ Join(data, <<>>) = data
    BY ONLY <2>1, JoinEmpty
  <2> QED BY <1>1, <2>1, <2>2 DEF Kinds, Majors, Bytes
<1>5. OpenLevel(major, Len(data'))
  BY <1>1
<1>6. Good(nesting') /\ Nested!Open(major, <<>>)
  BY ONLY IInv, Whole, ~failed', <1>3, <1>4, <1>5, OpenMaps
<1>7. major \in {"array", "map", "bstr"}
  BY DEF Majors
<1> QED BY <1>3, <1>6, <1>7 DEF Mapped, Nested!Next

LEMMA OpenIndefiniteMaps ==
  ASSUME IInv, Whole, NEW major \in Endless, OpenMapOrArrayIndefiniteLength(major)
  PROVE  Mapped /\ (~failed' => Nested!Open(major, EncodeHead(major, 0)))
<1> SUFFICES ASSUME ~failed' PROVE Mapped /\ Nested!Open(major, EncodeHead(major, 0))
  BY DEF Mapped
<1>1. AppendUsefulBuf(EncodeHead(major, 0)) /\ OpenLevel(major, Len(data'))
  BY DEF OpenMapOrArrayIndefiniteLength
<1>2. Note(~(uError = "SUCCESS" /\ CanIncrement), FALSE)
  BY <1>1 DEF OpenLevel
<1>3. ~failed /\ ~err' /\ uError' = "SUCCESS"
  BY <1>2, NoteMeans
<1>4. EncodeHead(major, 0) \in Bytes /\ major \in Kinds
  BY HeadIsBytes DEF Kinds, Endless
<1>5. data' = Join(data, EncodeHead(major, 0)) /\ data' \in Bytes
  BY <1>1, <1>3, <1>4, Facts, AppendWorks DEF InsertedIn
<1>6. Good(nesting') /\ Nested!Open(major, EncodeHead(major, 0))
  BY ONLY IInv, Whole, ~failed', <1>1, <1>3, <1>4, <1>5, OpenMaps
<1>7. major \in {"openArray", "openMap"}
  BY DEF Endless
<1> QED BY <1>3, <1>6, <1>7 DEF Mapped, Nested!Next

\* The innermost level as one item, its head in front.
LEMMA EnclosedIs ==
  ASSUME NEW level \in Item, level.major \in {"array", "map", "bstr"}, NEW n,
         n = CASE level.major = "array" -> level.count
               [] level.major = "map"   -> level.count \div 2
               [] level.major = "bstr"  -> Len(level.items)
  PROVE  Nested!Enclosed(level) = Join(EncodeHead(level.major, n), level.items)
BY DEF Nested!Enclosed, Nested!Argument, Join

\* The innermost level is of this major type, and its items are the bytes since it
\* was opened.
Closed(major) ==
  /\ Last(Levels).major = major /\ Last(Levels).count = Current.count
  /\ Last(Levels).items = Slice(data, Current.start, Len(data))

\* A close that inserts a head.
LEMMA InsertMaps ==
  ASSUME IInv, Whole, ~failed, ~failed', ~err', uError' = "SUCCESS", nesting # <<>>,
         NEW major \in {"array", "map", "bstr"},
         NEW n, n = IF major = "bstr" THEN Len(data) - Current.start ELSE GetCount,
         InsertCBORHead(major, n),
         returned' = Nothing \/ returned'.code = "wrapped"
  PROVE  Good(nesting') /\ Nested!Close /\ Closed(major)
<1> DEFINE st == Current.start
           rest == Slice(data, st, Len(data))
           head == EncodeHead(major, n)
           level == Last(Levels)
<1>1. /\ nesting \in Stacks /\ data \in Bytes /\ Levels = View(data, nesting) /\ Levels # <<>>
      /\ Ordered(nesting, Len(data))
  BY WholeFacts, LastIs
<1>2. /\ Current = nesting[Len(nesting)] /\ Current \in Level /\ st \in 0..Len(data)
      /\ Len(data) \in Nat
  BY CurrentIs, Facts
<1>3. major \in Kinds /\ n \in Int
  BY <1>2 DEF Kinds, GetCount, Level
<1>4. /\ nesting' = Front(nesting) /\ Len(nesting) > 1 /\ Current.major = major
      /\ InsertedIn(data, data', st) /\ Slice(data', st, Len(data')) = Join(head, rest)
  BY <1>3, InsertedHead
<1>5. head \in Bytes
  BY <1>3, HeadIsBytes
<1>6. rest \in Bytes /\ Len(rest) = Len(data) - st
  <2>1. data \in Seq(Token) /\ Len(data) \in 0..Len(data) /\ st \in 0..Len(data)
    BY <1>1, <1>2 DEF Bytes
  <2> HIDE DEF st
  <2> QED BY ONLY <2>1, SliceIs DEF Bytes
<1>7. Join(head, rest) \in Bytes /\ st \in 0..st /\ st \in Nat
  <2>1. head \in Seq(Token) /\ rest \in Seq(Token)
    BY <1>5, <1>6 DEF Bytes
  <2> HIDE DEF head, rest, st
  <2>2. Join(head, rest) \in Bytes
    BY ONLY <2>1, JoinTwo DEF Bytes
  <2> QED BY ONLY <1>2, <2>2
<1>8. /\ Good(nesting') /\ UNCHANGED failed /\ Len(Levels) > 1
      /\ level = Entry(data, nesting, Len(nesting))
      /\ EndOf(data, nesting, Len(nesting)) = Len(data)
      /\ Levels' = Nested!Extended(Front(Levels), 0, Join(head, rest))
  <2> HIDE DEF head, rest
  <2> QED BY <1>4, <1>7, CloseMaps
<1>9. level \in Item
  <2>1. Len(nesting) \in 1..Len(nesting)
    BY <1>1, LastIs
  <2> QED BY <1>1, <1>8, <2>1, EntryIs
<1>10. level.major = major /\ level.count = Current.count /\ level.items = rest
  BY <1>2, <1>4, <1>8 DEF Entry
<1>17. Closed(major)
  BY <1>10 DEF Closed
<1> HIDE DEF level, rest
<1>11. n = CASE level.major = "array" -> level.count
             [] level.major = "map"   -> level.count \div 2
             [] level.major = "bstr"  -> Len(level.items)
  BY <1>4, <1>6, <1>10 DEF GetCount
<1>12. Nested!Enclosed(level) = Join(head, rest)
  <2>1. level.major \in {"array", "map", "bstr"}
    BY <1>10
  <2>2. Nested!Enclosed(level) = Join(EncodeHead(level.major, n), level.items)
    BY ONLY <1>9, <1>11, <2>1, EnclosedIs
  <2> QED BY ONLY <1>10, <2>2 DEF head
<1>13. Nested!Last(Levels) = level /\ Nested!Front(Levels) = Front(Levels)
  BY DEF Nested!Last, Last, Nested!Front, Front, level
<1>14. (IF returned.code = "SUCCESS" /\ ~failed THEN returned.bytes ELSE <<>>)' = <<>>
  BY NothingDelivered
<1>15. /\ level.major \in {"array", "map", "bstr"}
       /\ Levels' = Nested!Extended(Front(Levels), 0, Nested!Enclosed(level))
  BY <1>8, <1>10, <1>12
<1>16. Nested!Close
  BY ONLY <1>8, <1>13, <1>14, <1>15 DEF Nested!Close
<1> QED BY <1>8, <1>16, <1>17

LEMMA CloseMapOrArrayMaps ==
  ASSUME IInv, Whole, NEW major \in Majors, CloseMapOrArray(major)
  PROVE  Mapped /\ (~failed' => Nested!Close /\ Closed(major))
<1> SUFFICES ASSUME ~failed' PROVE Mapped /\ Nested!Close /\ Closed(major)
  BY DEF Mapped
<1> DEFINE misuse == (major = "map" /\ Current.count % 2 = 1) \/ Dangling(Current.start)
<1>1. nesting # <<>> /\ InsertCBORHead(major, GetCount) /\ Note(FALSE, misuse) /\ returned' = Nothing
  BY DEF CloseMapOrArray
<1> HIDE DEF misuse
<1>2. ~failed /\ ~err' /\ uError' = "SUCCESS"
  BY <1>1, NoteMeans
<1>3. /\ major \in {"array", "map", "bstr"}
      /\ GetCount = IF major = "bstr" THEN Len(data) - Current.start ELSE GetCount
  BY DEF Majors
<1>4. Good(nesting') /\ Nested!Close /\ Closed(major)
  BY ONLY IInv, Whole, ~failed', <1>1, <1>2, <1>3, InsertMaps
<1> QED BY <1>2, <1>4 DEF Mapped, Nested!Next

LEMMA WrapMaps ==
  ASSUME IInv, Whole, NEW include \in BOOLEAN, CloseBstrWrap2(include)
  PROVE  Mapped /\ (~failed' => Nested!Close /\ Closed("bstr"))
<1> SUFFICES ASSUME ~failed' PROVE Mapped /\ Nested!Close /\ Closed("bstr")
  BY DEF Mapped
<1> DEFINE n == Len(data) - Current.start
<1>1. nesting # <<>> /\ InsertCBORHead("bstr", n) /\ Note(FALSE, Dangling(Current.start))
  BY DEF CloseBstrWrap2
<1>2. ~failed /\ ~err' /\ uError' = "SUCCESS"
  BY <1>1, NoteMeans
<1>3. returned'.code = "wrapped"
  BY <1>2 DEF CloseBstrWrap2
<1>4. /\ "bstr" \in {"array", "map", "bstr"}
      /\ n = IF "bstr" = "bstr" THEN Len(data) - Current.start ELSE GetCount
  OBVIOUS
<1> HIDE DEF n
<1>5. Good(nesting') /\ Nested!Close /\ Closed("bstr")
  BY ONLY IInv, Whole, ~failed', <1>1, <1>2, <1>3, <1>4, InsertMaps
<1> QED BY <1>2, <1>5 DEF Mapped, Nested!Next

LEMMA CloseIndefiniteMaps ==
  ASSUME IInv, Whole, NEW major \in Endless, CloseMapOrArrayIndefiniteLength(major)
  PROVE  Mapped /\ (~failed' => Nested!CloseIndefinite /\ Closed(major))
<1> SUFFICES ASSUME ~failed' PROVE Mapped /\ Nested!CloseIndefinite /\ Closed(major)
  BY DEF Mapped
<1> DEFINE st == Current.start
           rest == Slice(data, st, Len(data))
           brk == EncodeHead("break", 0)
           misuse == (major = "openMap" /\ Current.count % 2 = 1) \/ Dangling(Current.start)
<1>1. nesting # <<>> /\ Note(FALSE, misuse) /\ returned' = Nothing
  BY DEF CloseMapOrArrayIndefiniteLength
<1> HIDE DEF misuse
<1>2. ~failed /\ ~err' /\ uError' = "SUCCESS"
  BY <1>1, NoteMeans
<1>3. CloseError(major) = "SUCCESS" /\ AppendUsefulBuf(brk) /\ nesting' = Front(nesting)
  BY <1>2 DEF CloseMapOrArrayIndefiniteLength
<1>4. /\ nesting \in Stacks /\ data \in Bytes /\ Levels = View(data, nesting) /\ Levels # <<>>
      /\ Ordered(nesting, Len(data)) /\ uError = "SUCCESS" /\ err \in BOOLEAN
  BY <1>2, WholeFacts, LastIs, Facts
<1>5. major \in Kinds /\ major \in {"openArray", "openMap"}
  BY DEF Kinds, Endless
<1>6. Len(nesting) > 1 /\ Current.major = major
  BY <1>1, <1>3, <1>4, <1>5, CloseErrorIs
<1>7. brk \in Bytes
  BY HeadIsBytes DEF Kinds
<1>8. InsertedIn(data, data', Len(data)) /\ data' = Join(data, brk)
  BY <1>2, <1>3, <1>4, <1>7, AppendWorks
<1>9. st \in 0..Len(data) /\ Len(data) \in Nat
  BY <1>1, CurrentIs, Facts
<1>10. /\ Slice(data', st, Len(data')) = Join(rest, brk) /\ Join(rest, brk) \in Bytes
  <2>1. data \in Seq(Token) /\ brk \in Seq(Token) /\ st \in 0..Len(data) /\ Len(data) \in 0..Len(data)
    BY <1>4, <1>7, <1>9 DEF Bytes
  <2> HIDE DEF st, brk
  <2>2. Slice(Join(data, brk), st, Len(data) + Len(brk)) = Join(rest, brk)
    BY ONLY <2>1, Appended
  <2>3. Len(Join(data, brk)) = Len(data) + Len(brk)
    BY ONLY <2>1, JoinTwo
  <2>4. rest \in Seq(Token)
    BY ONLY <2>1, SliceIs
  <2> HIDE DEF rest
  <2>5. Join(rest, brk) \in Seq(Token)
    BY ONLY <2>1, <2>4, JoinTwo
  <2> QED BY ONLY <1>8, <2>2, <2>3, <2>5 DEF Bytes
<1> DEFINE level == Last(Levels)
<1>11. /\ Good(nesting') /\ UNCHANGED failed /\ Len(Levels) > 1
       /\ level = Entry(data, nesting, Len(nesting))
       /\ EndOf(data, nesting, Len(nesting)) = Len(data)
       /\ Levels' = Nested!Extended(Front(Levels), 0, Join(rest, brk))
  <2> HIDE DEF rest, brk
  <2> QED BY <1>2, <1>3, <1>6, <1>8, <1>9, <1>10, CloseMaps
<1>12. Current = nesting[Len(nesting)]
  BY <1>1, CurrentIs
<1>13. level.major = major /\ level.items = rest
  BY <1>6, <1>11, <1>12 DEF Entry
<1>18. Closed(major)
  <2>1. level.count = Current.count
    BY <1>11, <1>12 DEF Entry
  <2> QED BY <1>13, <2>1 DEF Closed
<1>14. Nested!Last(Levels) = level /\ Nested!Front(Levels) = Front(Levels)
  BY DEF Nested!Last, Last, Nested!Front, Front
<1>15. (IF returned.code = "SUCCESS" /\ ~failed THEN returned.bytes ELSE <<>>)' = <<>>
  BY <1>1, NothingDelivered
<1> HIDE DEF level, rest
<1>16. Levels' = Nested!Extended(Front(Levels), 0, level.items \o EncodeHead("break", 0))
  BY ONLY <1>11, <1>13 DEF Join
<1>17. Nested!CloseIndefinite
  BY ONLY <1>5, <1>11, <1>13, <1>14, <1>15, <1>16 DEF Nested!CloseIndefinite
<1> QED BY <1>2, <1>11, <1>17, <1>18 DEF Mapped, Nested!Next

LEMMA DecrementIs ==
  ASSUME NEW c \in 1..MaxItems
  PROVE  Decremented(c) = c - 1 /\ c - 1 \in 0..MaxItems
<1>1. MaxItems \in Nat /\ MaxWraps \in Nat /\ MaxItems + MaxWraps < 65536
  BY BoundsAssumption
<1>2. c \in Nat /\ c >= 1 /\ c < 65536 + 1
  BY ONLY <1>1, c \in 1..MaxItems
<1>3. (c + 65535) % 65536 = c - 1
  BY ONLY <1>1, <1>2, c \in 1..MaxItems
<1> QED BY ONLY <1>1, <1>3, c \in 1..MaxItems DEF Decremented

LEMMA CancelMaps ==
  ASSUME IInv, Whole, CancelBstrWrap
  PROVE  Mapped /\ (~failed' => Nested!Cancel)
<1> SUFFICES ASSUME ~failed' PROVE Mapped /\ Nested!Cancel
  BY DEF Mapped
<1> DEFINE f == Front(nesting)
           c == f[Len(f)].count
           t == Recount(f, Len(f), c + (-1))
           st == Current.start
<1>1. nesting # <<>> /\ Note(FALSE, FALSE) /\ returned' = Nothing /\ UNCHANGED <<data, err>>
  BY DEF CancelBstrWrap
<1>2. ~failed /\ ~err' /\ uError' = "SUCCESS"
  BY <1>1, NoteMeans
<1>3. /\ nesting \in Stacks /\ Good(nesting) /\ data \in Bytes /\ uError = "SUCCESS"
      /\ Ordered(nesting, Len(data)) /\ Levels = View(data, nesting)
      /\ Levels' = View(data', nesting') /\ UNCHANGED failed
  BY <1>2, WholeFacts, LevelsNext, StillWhole
<1>4. /\ CancelError = "SUCCESS"
      /\ nesting' = IF f = <<>> THEN f ELSE [f EXCEPT ![Len(f)].count = Decremented(@)]
  BY <1>2 DEF CancelBstrWrap
<1>5. CloseError("bstr") = "SUCCESS" /\ st = Len(data)
  BY <1>3, <1>4 DEF CancelError
<1>6. Len(nesting) > 1 /\ Current.major = "bstr" /\ Current = nesting[Len(nesting)]
  <2>1. "bstr" \in Kinds
    BY DEF Kinds
  <2> QED BY <1>1, <1>3, <1>5, <2>1, CloseErrorIs, CurrentIs
<1>7. f \in Stacks /\ f # <<>> /\ Good(f) /\ c \in 1..MaxItems /\ Len(f) = Len(nesting) - 1
  BY <1>1, <1>3, <1>6, GoodFront, FrontIs DEF Good
<1>8. Decremented(c) = c - 1 /\ c + (-1) = c - 1 /\ c + (-1) \in 0..MaxItems /\ c + (-1) \in Int
  <2>1. c \in Int /\ Decremented(c) = c - 1 /\ c - 1 \in 0..MaxItems
    BY <1>7, DecrementIs
  <2> HIDE DEF c
  <2>2. c + (-1) = c - 1 /\ c - 1 \in Int
    BY ONLY <2>1
  <2> QED BY ONLY <2>1, <2>2
<1>9. Counted(f, t, -1) /\ -1 \in Int
  <2>1. -1 \in Int
    OBVIOUS
  <2> HIDE DEF f
  <2> QED BY ONLY <1>7, <2>1, CountedIs DEF c, t
<1>10. nesting' = t
  <2>1. Len(f) \in 1..Len(f) /\ f \in [1..Len(f) -> Level]
    BY <1>7, FrontIs DEF Stacks
  <2> HIDE DEF f
  <2>2. nesting' = [f EXCEPT ![Len(f)].count = Decremented(c)]
    BY ONLY <1>4, <1>7, <2>1 DEF c
  <2> QED BY ONLY <1>8, <2>1, <2>2 DEF t, Recount
<1> DEFINE lv == Front(Levels)
<1>11. Levels \in Seq(Item) /\ Len(Levels) = Len(nesting) /\ Levels # <<>>
  BY <1>1, <1>3, ViewIs, LastIs
<1>12. /\ Last(Levels) = Entry(data, nesting, Len(nesting))
       /\ EndOf(data, nesting, Len(nesting)) = Len(data)
  BY <1>1, <1>3, LastIs
<1>13. data \in Seq(Token) /\ Len(data) \in 0..Len(data) /\ Len(data) \in Nat
  BY <1>3 DEF Bytes
<1>14. Slice(data, st, Len(data)) = <<>> /\ <<>> \in Bytes
  <2> DEFINE z == Len(data)
  <2>1. z \in 0..Len(data) /\ z \in 0..z /\ z = Len(data) /\ z - z = 0
    BY ONLY <1>13
  <2> HIDE DEF z
  <2>2. Slice(data, z, z) \in Seq(Token) /\ Len(Slice(data, z, z)) = z - z
    <3>1. data \in Seq(Token) /\ z \in 0..Len(data) /\ z \in 0..z
      BY ONLY <1>13, <2>1
    <3> QED BY ONLY <3>1, SliceIs
  <2>3. Slice(data, z, z) = <<>> /\ <<>> \in Seq(Token)
    BY ONLY <2>1, <2>2
  <2> QED BY <1>5, <2>1, <2>3 DEF Bytes
<1>15. Last(Levels).major = "bstr" /\ Last(Levels).items = <<>>
  BY <1>6, <1>12, <1>14 DEF Entry
<1>16. View(data, t) = Nested!Extended(lv, -1, <<>>)
  <2>1. /\ \A m \in 0..nesting[Len(nesting)].start : \A i \in 0..m : Slice(data, i, m) = Slice(data, i, m)
        /\ Slice(data, nesting[Len(nesting)].start, Len(data)) = <<>>
        /\ Len(data) <= Len(data)
    BY <1>6, <1>13, <1>14
  <2> HIDE DEF t
  <2>2. View(data, t) = Nested!Extended(Front(View(data, nesting)), -1, <<>>)
    BY ONLY <1>1, <1>3, <1>6, <1>9, <1>14, <2>1, ClosedView DEF f
  <2> QED BY ONLY <1>3, <2>2
<1>17. lv \in Seq(Item) /\ lv # <<>> /\ Len(lv) = Len(Levels) - 1 /\ lv[Len(lv)].items \in Bytes
  <2> DEFINE v == Levels
             e == Len(v) - 1
  <2>1. /\ v \in Seq(Item) /\ e \in 0..Len(v) /\ 0 \in 0..e /\ e - 0 = e /\ e \in Nat \ {0}
        /\ e \in 1..(e - 0) /\ 0 + 1 = 1 /\ 0 + e = e /\ e \in 1..Len(v)
    BY <1>6, <1>11
  <2>2. lv = SubSeq(v, 1, e)
    BY DEF Front
  <2> HIDE DEF v, e, lv
  <2>3. /\ Slice(v, 0, e) \in Seq(Item) /\ Len(Slice(v, 0, e)) = e - 0
        /\ \A i \in 1..(e - 0) : Slice(v, 0, e)[i] = v[0 + i]
    <3>1. v \in Seq(Item) /\ e \in 0..Len(v) /\ 0 \in 0..e
      BY ONLY <2>1
    <3> QED BY ONLY <3>1, SliceIs
  <2>4. lv = Slice(v, 0, e)
    BY ONLY <2>1, <2>2 DEF Slice
  <2>5. lv \in Seq(Item) /\ Len(lv) = e /\ lv[e] = v[e] /\ v[e] \in Item
    BY ONLY <2>1, <2>3, <2>4
  <2>6. lv # <<>> /\ lv[Len(lv)].items \in Bytes
    BY ONLY <2>1, <2>5 DEF Item
  <2> QED BY ONLY <2>5, <2>6 DEF v, e
<1>18. Levels' = [lv EXCEPT ![Len(lv)].count = @ - 1]
  <2> HIDE DEF lv, t
  <2>1. Nested!Extended(lv, -1, <<>>) = [lv EXCEPT ![Len(lv)].count = @ - 1]
    BY ONLY <1>17, UncountedIs
  <2> QED BY ONLY <1>1, <1>3, <1>10, <1>16, <2>1
<1>19. Levels' = [Front(Levels) EXCEPT ![Len(Levels) - 1].count = @ - 1]
  BY ONLY <1>17, <1>18
<1>20. (IF returned.code = "SUCCESS" /\ ~failed THEN returned.bytes ELSE <<>>)' = <<>>
  BY <1>1, NothingDelivered
<1>21. Nested!Last(Levels) = Last(Levels) /\ Nested!Front(Levels) = Front(Levels)
  BY DEF Nested!Last, Last, Nested!Front, Front
<1>22. Len(Levels) > 1
  BY <1>6, <1>11
<1>23. Nested!Cancel
  BY ONLY <1>3, <1>15, <1>19, <1>20, <1>21, <1>22 DEF Nested!Cancel
<1>24. Good(nesting')
  <2> HIDE DEF f, t
  <2>1. f[Len(f)].count + (-1) \in 0..MaxItems
    BY ONLY <1>8 DEF c
  <2> QED BY ONLY <1>7, <1>9, <1>10, <2>1, GoodCounted
<1> QED BY <1>2, <1>23, <1>24 DEF Mapped, Nested!Next

LEMMA FinishMaps ==
  ASSUME IInv, Whole, Finish
  PROVE  /\ Mapped
         /\ ~failed' =>
              /\ data' = data /\ Levels' = Levels
              /\ returned'.code = "SUCCESS" =>
                   Len(Levels) = 1 /\ Levels[1].items = data /\ returned'.bytes = data
<1> SUFFICES ASSUME ~failed'
             PROVE  /\ Mapped /\ data' = data /\ Levels' = Levels
                    /\ returned'.code = "SUCCESS" =>
                         Len(Levels) = 1 /\ Levels[1].items = data /\ returned'.bytes = data
  BY DEF Mapped
<1>1. Note(FALSE, FALSE) /\ UNCHANGED <<data, err, nesting>>
  BY DEF Finish
<1>2. ~failed /\ ~err' /\ uError' = "SUCCESS"
  BY <1>1, NoteMeans
<1>3. /\ nesting \in Stacks /\ nesting # <<>> /\ Good(nesting) /\ data \in Bytes
      /\ Ordered(nesting, Len(data)) /\ Levels = View(data, nesting)
      /\ Levels' = View(data', nesting') /\ UNCHANGED failed
  BY <1>2, WholeFacts, LevelsNext, StillWhole
<1>4. UNCHANGED Levels
  BY <1>1, <1>3
<1>5. returned' = IF Len(nesting) > 1 THEN [Nothing EXCEPT !.code = "ARRAY_OR_MAP_STILL_OPEN"]
                  ELSE [Nothing EXCEPT !.code = "SUCCESS", !.bytes = data]
  BY <1>2 DEF Finish
<1> DEFINE D == (IF returned.code = "SUCCESS" /\ ~failed THEN returned.bytes ELSE <<>>)'
<1>6. Len(Levels) = Len(nesting) /\ Len(nesting) \in Nat \ {0}
  BY <1>3, ViewIs, FrontIs
<1>7. /\ D = <<>> \/ (Len(Levels) = 1 /\ D = Levels[1].items)
      /\ returned'.code = "SUCCESS" =>
           Len(Levels) = 1 /\ Levels[1].items = data /\ returned'.bytes = data
  <2>1. CASE Len(nesting) > 1
    BY <1>5, <2>1 DEF Nothing
  <2>2. CASE ~(Len(nesting) > 1)
    <3>1. Len(nesting) = 1 /\ 1 \in 1..Len(nesting)
      BY <1>6, <2>2
    <3>2. D = data /\ returned'.bytes = data
      BY <1>5, <2>2 DEF Nothing
    <3>3. Levels[1] = Entry(data, nesting, 1)
      BY <1>3, <3>1, ViewIs
    <3>4. nesting[1].start = 0 /\ EndOf(data, nesting, 1) = Len(data)
      BY <1>3, <3>1 DEF Good, EndOf
    <3>5. Levels[1].items = data
      BY <1>3, <3>3, <3>4, SliceAll DEF Entry, Bytes
    <3> QED BY <1>6, <3>1, <3>2, <3>5
  <2> QED BY <2>1, <2>2
<1> HIDE DEF D
<1>8. D \in {<<>>} \cup (IF Len(Levels) = 1 THEN {Levels[1].items} ELSE {})
  BY ONLY <1>7
<1>9. Nested!Finish
  BY ONLY <1>3, <1>4, <1>8 DEF Nested!Finish, D
<1>10. Good(nesting')
  BY <1>1, <1>3
<1> QED BY <1>1, <1>2, <1>4, <1>7, <1>9, <1>10 DEF Mapped, Nested!Next

LEMMA NextMaps == ASSUME IInv, Whole, Next PROVE Mapped
<1>1. CASE AddInt64
  BY <1>1, IntMaps
<1>2. CASE AddType7Reserved
  BY <1>2, ReservedMaps
<1>3. CASE AddTag
  BY <1>3, TagMaps
<1>4. ASSUME NEW kind \in {"string", "raw", "lenOnly"}, AddBuffer(kind) PROVE Mapped
  BY <1>4, BufferMaps
<1>5. ASSUME NEW major \in Majors \cup {"bstr"}, OpenMapOrArray(major) PROVE Mapped
  BY <1>5, OpenLevelMaps
<1>6. ASSUME NEW major \in Endless, OpenMapOrArrayIndefiniteLength(major) PROVE Mapped
  BY <1>6, OpenIndefiniteMaps
<1>7. ASSUME NEW major \in Majors, CloseMapOrArray(major) PROVE Mapped
  BY <1>7, CloseMapOrArrayMaps
<1>8. ASSUME NEW include \in BOOLEAN, CloseBstrWrap2(include) PROVE Mapped
  BY <1>8, WrapMaps
<1>9. CASE CancelBstrWrap
  BY <1>9, CancelMaps
<1>10. ASSUME NEW major \in Endless, CloseMapOrArrayIndefiniteLength(major) PROVE Mapped
  BY <1>10, CloseIndefiniteMaps
<1>11. CASE Finish
  BY <1>11, FinishMaps
<1> QED
  BY <1>1, <1>2, <1>3, <1>4, <1>5, <1>6, <1>7, <1>8, <1>9, <1>10, <1>11 DEF Next

\* While no call has met an error, there is none, the outermost level is open, and
\* every level that encloses another has it counted.
LEMMA WholeAlways == Spec => []Whole
<1>1. Init => Whole
  <2> SUFFICES ASSUME Init PROVE Whole
    OBVIOUS
  <2>1. nesting = <<[major |-> "array", count |-> 0, start |-> 0]>> /\ ~err /\ uError = "SUCCESS"
    BY DEF Init
  <2>2. 0 \in 0..MaxItems
    BY BoundsAssumption
  <2>3. Good(nesting)
    BY <2>1, <2>2 DEF Good
  <2> QED BY <2>1, <2>3 DEF Whole
<1>2. IInv /\ Whole /\ [Next]_vars => Whole'
  <2> SUFFICES ASSUME IInv, Whole, [Next]_vars PROVE Whole'
    OBVIOUS
  <2>1. CASE Next
    <3>1. Mapped
      BY <2>1, NextMaps
    <3> QED BY <3>1 DEF Mapped, Whole
  <2>2. CASE UNCHANGED vars
    BY <2>2 DEF vars, Whole, failed, Good
  <2> QED BY <2>1, <2>2
<1> QED BY <1>1, <1>2, Invariant, PTL DEF Spec

\* The encoder's flat output implements the collection of items level by level: a
\* head that is inserted encloses exactly the items written since its level was
\* opened, a cancelled level leaves no trace, and what QCBOREncode_Finish()
\* delivers is what the outermost level collected.
THEOREM EncodesNested == Spec => ImplementsNested
<1>1. Init => Nested!Init
  <2> SUFFICES ASSUME Init PROVE Nested!Init
    OBVIOUS
  <2>1. /\ nesting = <<[major |-> "array", count |-> 0, start |-> 0]>> /\ data = <<>>
        /\ returned = Nothing /\ ~failed /\ failed = FALSE
    BY DEF Init, failed
  <2>2. Levels = <<[major |-> "array", count |-> 0, items |-> <<>>]>>
    BY <2>1 DEF Levels, LevelItems
  <2>3. (IF returned.code = "SUCCESS" /\ ~failed THEN returned.bytes ELSE <<>>) = <<>>
    BY <2>1 DEF Nothing
  <2> QED BY <2>1, <2>2, <2>3 DEF Nested!Init
<1>2. IInv /\ Whole /\ [Next]_vars => [Nested!Next]_(Nested!vars)
  <2> SUFFICES ASSUME IInv, Whole, [Next]_vars PROVE [Nested!Next]_(Nested!vars)
    OBVIOUS
  <2>1. CASE Next /\ ~failed'
    BY <2>1, NextMaps DEF Mapped
  <2>2. CASE Next /\ failed'
    <3>1. (IF returned.code = "SUCCESS" /\ ~failed THEN returned.bytes ELSE <<>>)' = <<>>
      BY <2>2, NothingDelivered
    <3>2. failed' = TRUE
      BY <2>2 DEF failed
    <3>3. Nested!Break
      BY <3>1, <3>2 DEF Nested!Break
    <3> QED BY <3>3 DEF Nested!Next
  <2>3. CASE UNCHANGED vars
    BY <2>3 DEF vars, Nested!vars, Levels, LevelItems, failed
  <2> QED BY <2>1, <2>2, <2>3
<1> QED BY <1>1, <1>2, Invariant, WholeAlways, PTL DEF Spec, ImplementsNested, Nested!Spec

-----------------------------------------------------------------------------
(***************************************************************************)
(* What QCBOREncode_Finish() calls a success is well formed.  The reader of *)
(* QcborEncode reads the items of each open level as that many items, and   *)
(* at most a tag behind them, whatever the level around it still expects.   *)
(***************************************************************************)

Read(st, s) == FoldLeft(ReadToken, st, s)

-----------------------------------------------------------------------------
(* Reading token by token                                                   *)

\* g has, for each set of places, what is read of the tokens there.
Reading(g, st, s, n) ==
  g = [r \in SUBSET (1..n) |-> IF r = {} THEN st ELSE ReadToken(g[r \ {Max(r)}], s[Max(r)])]

LEMMA MaxIs ==
  ASSUME NEW n \in Nat, NEW r \in SUBSET (1..n), r # {}
  PROVE  Max(r) \in r /\ (n \in r => Max(r) = n) /\ r \ {Max(r)} \in SUBSET (1..n)
<1> DEFINE T == {n - x : x \in r}
<1>1. T \subseteq Nat /\ T # {}
  OBVIOUS
<1>2. PICK m \in T : \A y \in T : m <= y
  BY <1>1, LeastElement
<1>3. PICK x \in r : m = n - x
  BY <1>2
<1>4. \A y \in r : x >= y
  <2> SUFFICES ASSUME NEW y \in r PROVE x >= y
    OBVIOUS
  <2>1. n - y \in T
    OBVIOUS
  <2>2. n - x <= n - y
    BY <1>2, <1>3, <2>1
  <2> QED BY <2>2
<1>5. Max(r) \in r /\ \A y \in r : Max(r) >= y
  BY <1>4 DEF Max
<1> DEFINE z == Max(r)
<1> HIDE DEF z
<1>6. z \in r /\ (\A y \in r : z >= y) /\ r \subseteq 1..n
  BY ONLY <1>5, r \in SUBSET (1..n) DEF z
<1>7. n \in r => z = n
  BY ONLY <1>6, n \in Nat
<1> QED BY <1>6, <1>7 DEF z

LEMMA ReadingExists ==
  ASSUME NEW st, NEW s
  PROVE  \A n \in Nat : \E g : Reading(g, st, s, n)
<1> DEFINE S == {n \in Nat : \E g : Reading(g, st, s, n)}
<1>1. 0 \in S
  <2> DEFINE g == [r \in SUBSET (1..0) |-> st]
  <2>1. \A r \in SUBSET (1..0) : r = {}
    OBVIOUS
  <2>2. Reading(g, st, s, 0)
    BY <2>1 DEF Reading
  <2> QED BY <2>2
<1>2. ASSUME NEW n \in Nat, n \in S PROVE n + 1 \in S
  <2>1. PICK g : Reading(g, st, s, n)
    BY <1>2
  <2> DEFINE k == n + 1
             D == SUBSET (1..k)
             h == [r \in D |-> IF k \in r THEN ReadToken(g[r \ {k}], s[k]) ELSE g[r]]
             w(r) == IF r = {} THEN st ELSE ReadToken(h[r \ {Max(r)}], s[Max(r)])
  <2>2. ASSUME NEW r \in D PROVE h[r] = w(r)
    <3>1. CASE r = {}
      <4>1. h[r] = g[r] /\ r \in SUBSET (1..n)
        BY <3>1
      <4> QED BY <2>1, <3>1, <4>1 DEF Reading
    <3>2. CASE k \in r
      <4>1. Max(r) = k /\ r # {}
        <5>1. k \in Nat /\ r # {}
          BY <3>2
        <5> QED BY <3>2, <5>1, MaxIs
      <4>2. r \ {k} \in D /\ k \notin r \ {k}
        BY <2>2
      <4>3. h[r \ {k}] = g[r \ {k}]
        BY <4>2
      <4> HIDE DEF D, k
      <4>4. h[r] = ReadToken(g[r \ {k}], s[k])
        BY <2>2, <3>2
      <4> QED BY <4>1, <4>3, <4>4
    <3>3. CASE ~(r = {}) /\ ~(k \in r)
      <4>1. r \in SUBSET (1..n)
        BY <2>2, <3>3
      <4>2. Max(r) \in r /\ r \ {Max(r)} \in SUBSET (1..n)
        BY <3>3, <4>1, MaxIs
      <4>3. g[r] = ReadToken(g[r \ {Max(r)}], s[Max(r)])
        BY <2>1, <3>3, <4>1 DEF Reading
      <4>4. h[r \ {Max(r)}] = g[r \ {Max(r)}] /\ h[r] = g[r]
        BY <2>2, <3>3, <4>1, <4>2
      <4> QED BY <3>3, <4>3, <4>4
    <3> QED BY <3>1, <3>2, <3>3
  <2>3. h = [r \in D |-> w(r)]
    <3>1. h = [r \in D |-> h[r]]
      OBVIOUS
    <3> HIDE DEF h
    <3> QED BY <2>2, <3>1
  <2>4. Reading(h, st, s, k)
    <3> HIDE DEF h
    <3> QED BY <2>3 DEF Reading
  <2> QED BY <2>4
<1>3. Nat \subseteq S
  BY <1>1, <1>2, SetInduction
<1> QED BY <1>3

\* The fold of FoldLeft().
LEMMA ReadIs ==
  ASSUME NEW st, NEW T, NEW s \in Seq(T)
  PROVE  \E g : Reading(g, st, s, Len(s)) /\ Read(st, s) = g[1..Len(s)]
<1> DEFINE n == Len(s)
           f == CHOOSE g : Reading(g, st, s, n)
<1>1. n \in Nat /\ DOMAIN s = 1..n
  OBVIOUS
<1> HIDE DEF n
<1>2. Reading(f, st, s, n)
  BY <1>1, ReadingExists
<1>3. Read(st, s) = f[1..n]
  BY <1>1 DEF Read, FoldLeft, MapThenFoldSet, Reading
<1> QED BY <1>2, <1>3 DEF n

\* What is read of the first n tokens is the same in each sequence that begins with them.
LEMMA ReadingSame ==
  ASSUME NEW st, NEW s, NEW t, NEW k \in Nat, NEW m \in Nat, NEW f, NEW g,
         Reading(f, st, s, k), Reading(g, st, t, m),
         \A i \in 1..k : s[i] = t[i], k <= m
  PROVE  f[1..k] = g[1..k]
<1> DEFINE S == {n \in Nat : n <= k => f[1..n] = g[1..n]}
<1>1. 0 \in S
  <2>1. (1..0) = {} /\ {} \in SUBSET (1..k) /\ {} \in SUBSET (1..m)
    OBVIOUS
  <2>2. f[{}] = st /\ g[{}] = st
    BY <2>1 DEF Reading
  <2> QED BY <2>1, <2>2
<1>2. ASSUME NEW n \in Nat, n \in S PROVE n + 1 \in S
  <2> SUFFICES ASSUME n + 1 <= k PROVE f[1..(n + 1)] = g[1..(n + 1)]
    OBVIOUS
  <2> DEFINE r == 1..(n + 1)
             x == n + 1
  <2>1. /\ r \in SUBSET (1..k) /\ r \in SUBSET (1..m) /\ r # {} /\ x \in r /\ r \in SUBSET (1..x)
        /\ r \ {x} = 1..n /\ x \in Nat /\ x \in 1..k
    OBVIOUS
  <2> HIDE DEF r, x
  <2>2. Max(r) = x
    BY <2>1, MaxIs
  <2>3. f[r] = ReadToken(f[1..n], s[x]) /\ g[r] = ReadToken(g[1..n], t[x])
    BY <2>1, <2>2 DEF Reading
  <2>4. f[1..n] = g[1..n] /\ s[x] = t[x]
    BY <1>2, <2>1
  <2> QED BY <2>3, <2>4 DEF r
<1>3. Nat \subseteq S
  BY <1>1, <1>2, SetInduction
<1> QED BY <1>3

LEMMA ReadEmpty == ASSUME NEW st PROVE Read(st, <<>>) = st
<1>1. <<>> \in Seq(Int) /\ Len(<<>>) = 0 /\ (1..0) = {} /\ {} \in SUBSET (1..0)
  BY EmptySeq
<1>2. PICK h : Reading(h, st, <<>>, 0) /\ Read(st, <<>>) = h[{}]
  BY <1>1, ReadIs
<1> QED BY <1>1, <1>2 DEF Reading

LEMMA ReadAppend ==
  ASSUME NEW st, NEW T, NEW s \in Seq(T), NEW x \in T
  PROVE  Read(st, Append(s, x)) = ReadToken(Read(st, s), x)
<1> DEFINE n == Len(s)
           k == n + 1
           t == Append(s, x)
<1>1. /\ n \in Nat /\ k \in Nat /\ n <= k /\ t \in Seq(T) /\ Len(t) = k /\ t[k] = x
      /\ \A i \in 1..n : s[i] = t[i]
  OBVIOUS
<1>2. n = Len(s) /\ k = n + 1
  OBVIOUS
<1> HIDE DEF n, k, t
<1>3. PICK f : Reading(f, st, s, n) /\ Read(st, s) = f[1..n]
  BY <1>2, ReadIs
<1>4. PICK g : Reading(g, st, t, k) /\ Read(st, t) = g[1..k]
  BY <1>1, ReadIs
<1>5. f[1..n] = g[1..n]
  BY <1>1, <1>3, <1>4, ReadingSame
<1> DEFINE r == 1..k
<1>6. r \in SUBSET (1..k) /\ r # {} /\ k \in r /\ r \ {k} = 1..n
  BY ONLY <1>1, <1>2
<1> HIDE DEF r
<1>7. Max(r) = k
  BY ONLY <1>1, <1>6, MaxIs
<1>8. g[r] = ReadToken(g[1..n], t[k])
  BY ONLY <1>4, <1>6, <1>7 DEF Reading
<1>9. Read(st, t) = ReadToken(Read(st, s), x)
  BY ONLY <1>1, <1>3, <1>4, <1>5, <1>8 DEF r
<1> QED BY <1>9 DEF t

\* One sequence behind the other.
LEMMA ReadJoin ==
  ASSUME NEW st, NEW T, NEW s \in Seq(T), NEW t \in Seq(T)
  PROVE  Read(st, Join(s, t)) = Read(Read(st, s), t)
<1> DEFINE Q == {u \in Seq(T) : Read(st, Join(s, u)) = Read(Read(st, s), u)}
<1>1. <<>> \in Q
  <2>1. <<>> \in Seq(T) /\ Join(s, <<>>) = s
    BY JoinEmpty
  <2>2. Read(Read(st, s), <<>>) = Read(st, s)
    BY ReadEmpty
  <2> QED BY <2>1, <2>2
<1>2. ASSUME NEW u \in Seq(T), u \in Q, NEW x \in T PROVE Append(u, x) \in Q
  <2>1. Append(u, x) \in Seq(T)
    OBVIOUS
  <2>2. Join(s, Append(u, x)) = Append(Join(s, u), x) /\ Join(s, u) \in Seq(T)
    BY JoinAppend, JoinTwo
  <2>3. Read(st, Append(Join(s, u), x)) = ReadToken(Read(st, Join(s, u)), x)
    BY <2>2, ReadAppend
  <2>4. Read(Read(st, s), Append(u, x)) = ReadToken(Read(Read(st, s), u), x)
    BY ReadAppend
  <2> QED BY <1>2, <2>1, <2>2, <2>3, <2>4
<1>3. Seq(T) \subseteq Q
  BY <1>1, <1>2, SequenceInduction
<1> QED BY <1>3

-----------------------------------------------------------------------------
(* Reading heads                                                            *)

\* Items owed at each open level; the state of a reader in front of an item, and
\* in the middle of one with k tokens to go.
Owed     == Seq(Nat) \ {<<>>}
St(o, k) == [ok |-> TRUE, skip |-> k, owed |-> o]
Less(n)  == IF n > 0 THEN n - 1 ELSE 0
Owing(o, n) == [o EXCEPT ![Len(o)] = n]

LEMMA OwingIs ==
  ASSUME NEW o \in Owed, NEW n \in Nat
  PROVE  /\ Len(o) \in Nat \ {0} /\ o[Len(o)] \in Nat /\ Less(o[Len(o)]) \in Nat
         /\ Owing(o, n) \in Owed /\ Len(Owing(o, n)) = Len(o) /\ Owing(o, n)[Len(o)] = n
         /\ \A m : Owing(Owing(o, n), m) = Owing(o, m)
         /\ Owing(o, o[Len(o)]) = o
<1> DEFINE k == Len(o)
<1>1. k \in Nat \ {0} /\ o \in [1..k -> Nat] /\ k = Len(o)
  BY EmptySeq DEF Owed
<1> HIDE DEF k
<1> DEFINE w == [o EXCEPT ![k] = n]
<1>2. w \in [1..k -> Nat] /\ w[k] = n
  BY ONLY <1>1, n \in Nat
<1>3. w \in Owed /\ Len(w) = k
  <2>1. o \in Seq(Nat) /\ k \in 1..Len(o)
    BY <1>1 DEF Owed
  <2>2. w \in Seq(Nat) /\ Len(w) = Len(o)
    BY ONLY <2>1, n \in Nat, ExceptSeq
  <2>3. w # <<>>
    BY ONLY <1>1, <2>2, EmptySeq
  <2> QED BY ONLY <1>1, <2>2, <2>3 DEF Owed
<1>4. \A m : [w EXCEPT ![k] = m] = [o EXCEPT ![k] = m]
  BY ONLY <1>1
<1>5. [o EXCEPT ![k] = o[k]] = o /\ o[k] \in Nat /\ Less(o[k]) \in Nat
  BY ONLY <1>1 DEF Less
<1> QED BY ONLY <1>1, <1>2, <1>3, <1>4, <1>5 DEF Owing

\* One token.
LEMMA TokenRead ==
  ASSUME NEW o \in Owed, NEW major, NEW n \in Int
  PROVE  LET t    == Less(o[Len(o)])
             tail == Len(EncodeHead(major, n)) - 1
         IN  /\ \A k \in Nat : ReadToken(St(o, k + 1), <<major, n>>) = St(o, k)
             /\ major = "int" => ReadToken(St(o, 0), <<major, n>>) = St(Owing(o, t), tail)
             /\ major \in {"string", "bstr"} =>
                  ReadToken(St(o, 0), <<major, n>>) = St(Owing(o, t), tail + n)
             /\ major = "tag" => ReadToken(St(o, 0), <<major, n>>) = St(Owing(o, t + 1), tail)
             /\ major = "array" => ReadToken(St(o, 0), <<major, n>>) = St(Owing(o, t + n), tail)
             /\ major = "map" => ReadToken(St(o, 0), <<major, n>>) = St(Owing(o, t + 2 * n), tail)
             /\ major \in Endless =>
                  ReadToken(St(o, 0), <<major, n>>) = St(Append(Owing(o, t), 0), 0)
<1>1. /\ St(o, 0).ok = TRUE /\ St(o, 0).skip = 0 /\ St(o, 0).owed = o
      /\ \A k : St(o, k).ok = TRUE /\ St(o, k).skip = k /\ St(o, k).owed = o
  BY DEF St
<1>2. <<major, n>>[1] = major /\ <<major, n>>[2] = n
  OBVIOUS
<1>3. ASSUME NEW k \in Nat PROVE ReadToken(St(o, k + 1), <<major, n>>) = St(o, k)
  <2> DEFINE j == k + 1
  <2>1. j > 0 /\ j - 1 = k /\ j # 0 /\ j \in Nat
    OBVIOUS
  <2> HIDE DEF j
  <2>2. ReadToken(St(o, j), <<major, n>>) = [ok |-> TRUE, skip |-> j - 1, owed |-> o]
    BY <1>1, <2>1 DEF ReadToken
  <2> QED BY <2>1, <2>2 DEF St, j
<1>4. CASE major = "int"
  BY <1>1, <1>2, <1>3, <1>4 DEF ReadToken, St, Less, Owing, Endless
<1>5. CASE major \in {"string", "bstr"}
  BY <1>1, <1>2, <1>3, <1>5 DEF ReadToken, St, Less, Owing, Endless
<1>6. CASE major = "tag"
  BY <1>1, <1>2, <1>3, <1>6 DEF ReadToken, St, Less, Owing, Endless
<1>7. CASE major = "array"
  BY <1>1, <1>2, <1>3, <1>7 DEF ReadToken, St, Less, Owing, Endless
<1>8. CASE major = "map"
  BY <1>1, <1>2, <1>3, <1>8 DEF ReadToken, St, Less, Owing, Endless
<1>9. CASE major \in Endless
  BY <1>1, <1>2, <1>3, <1>9 DEF ReadToken, St, Less, Owing, Endless
<1> QED BY <1>3, <1>4, <1>5, <1>6, <1>7, <1>8, <1>9 DEF Endless

LEMMA BreakRead ==
  ASSUME NEW o \in Owed, Len(o) > 1, o[Len(o)] = 0
  PROVE  ReadToken(St(o, 0), <<"break", 0>>) = St(Front(o), 0)
<1>1. St(o, 0).ok = TRUE /\ St(o, 0).skip = 0 /\ St(o, 0).owed = o
  BY DEF St
<1> QED BY <1>1 DEF ReadToken, St, Endless

\* One token, as a sequence.
LEMMA OneRead ==
  ASSUME NEW st, NEW x \in Token
  PROVE  <<x>> \in Seq(Token) /\ Read(st, <<x>>) = ReadToken(st, x)
<1>1. <<>> \in Seq(Token) /\ <<x>> = Append(<<>>, x) /\ <<x>> \in Seq(Token)
  BY EmptySeq
<1>2. Read(st, Append(<<>>, x)) = ReadToken(Read(st, <<>>), x)
  <2> DEFINE e == <<>>
  <2>1. e \in Seq(Token)
    BY <1>1
  <2> HIDE DEF e
  <2>2. Read(st, Append(e, x)) = ReadToken(Read(st, e), x)
    BY ONLY <2>1, x \in Token, ReadAppend
  <2> QED BY ONLY <2>2 DEF e
<1> QED BY ONLY <1>1, <1>2, ReadEmpty

\* A head is read as its first token says.
LEMMA HeadRead ==
  ASSUME NEW st, NEW o \in Owed, NEW major \in Kinds, NEW n \in Int, NEW k \in Nat,
         ReadToken(st, <<major, n>>) = St(o, Len(EncodeHead(major, n)) - 1 + k)
  PROVE  Read(st, EncodeHead(major, n)) = St(o, k)
<1> DEFINE x == <<major, n>>
           y == <<"more", 0>>
           a == <<x>>
           b == <<y>>
<1>1. x \in Token /\ y \in Token
  BY DEF Token, Kinds
<1>2. a \in Seq(Token) /\ b \in Seq(Token) /\ Read(st, a) = ReadToken(st, x)
      /\ \A s : Read(s, b) = ReadToken(s, y)
  <2> HIDE DEF x, y
  <2> QED BY <1>1, OneRead
<1>3. CASE n > Direct
  <2>1. EncodeHead(major, n) = Join(a, b)
    BY <1>3 DEF EncodeHead, Join
  <2>2. Len(a) = 1 /\ Len(b) = 1
    OBVIOUS
  <2> HIDE DEF a, b, x, y
  <2>3. Len(EncodeHead(major, n)) - 1 + k = k + 1
    <3> DEFINE z == Len(Join(a, b))
    <3>1. Len(EncodeHead(major, n)) = z /\ z = Len(a) + Len(b)
      BY <1>2, <2>1, JoinTwo
    <3> HIDE DEF z
    <3> QED BY <2>2, <3>1
  <2>4. Read(st, Join(a, b)) = Read(Read(st, a), b)
    BY <1>2, ReadJoin
  <2>5. Read(st, a) = St(o, k + 1)
    BY <1>2, <2>3 DEF x
  <2>6. ReadToken(St(o, k + 1), y) = St(o, k)
    BY TokenRead DEF y
  <2> QED BY <1>2, <2>1, <2>4, <2>5, <2>6
<1>4. CASE ~(n > Direct)
  <2>1. EncodeHead(major, n) = Join(a, <<>>)
    BY <1>4 DEF EncodeHead, Join
  <2>2. Len(a) = 1
    OBVIOUS
  <2> HIDE DEF a, x
  <2>3. EncodeHead(major, n) = a
    BY <1>2, <2>1, JoinEmpty
  <2>4. Len(EncodeHead(major, n)) - 1 + k = k
    <3> DEFINE z == Len(a)
    <3>1. Len(EncodeHead(major, n)) = z
      BY <2>3
    <3> HIDE DEF z
    <3> QED BY <2>2, <3>1 DEF z
  <2> QED BY <1>2, <2>3, <2>4 DEF x
<1> QED BY <1>3, <1>4

\* The rest of a string.
LEMMA SkipRead ==
  ASSUME NEW o \in Owed, NEW s \in Bytes
  PROVE  Read(St(o, Len(s)), s) = St(o, 0)
<1> DEFINE Q == {u \in Bytes : \A k \in Nat : Read(St(o, Len(u) + k), u) = St(o, k)}
<1>1. <<>> \in Q
  BY ReadEmpty, EmptySeq DEF Bytes
<1>2. ASSUME NEW u \in Seq(Token), u \in Q, NEW x \in Token PROVE Append(u, x) \in Q
  <2>1. Append(u, x) \in Bytes /\ Len(Append(u, x)) = Len(u) + 1 /\ Len(u) \in Nat
    BY AppendProperties DEF Bytes
  <2> SUFFICES ASSUME NEW k \in Nat PROVE Read(St(o, Len(Append(u, x)) + k), Append(u, x)) = St(o, k)
    BY <2>1
  <2>2. Len(Append(u, x)) + k = Len(u) + (k + 1) /\ k + 1 \in Nat
    BY <2>1
  <2>3. Read(St(o, Len(u) + (k + 1)), u) = St(o, k + 1)
    BY <1>2, <2>2
  <2>4. Read(St(o, Len(Append(u, x)) + k), Append(u, x)) = ReadToken(St(o, k + 1), x)
    BY <2>2, <2>3, ReadAppend
  <2>5. x = <<x[1], x[2]>> /\ x[2] \in Int
    BY DEF Token
  <2>6. ReadToken(St(o, k + 1), <<x[1], x[2]>>) = St(o, k)
    BY <2>5, TokenRead
  <2> QED BY <2>4, <2>5, <2>6
<1>3. s \in Q
  BY <1>1, <1>2, SequenceInduction DEF Bytes
<1>4. Len(s) + 0 = Len(s)
  BY DEF Bytes
<1> QED BY <1>3, <1>4

\* Heads, each with its argument, in front of an item.
LEMMA HeadsRead ==
  ASSUME NEW o \in Owed, NEW n \in Nat
  PROVE  LET t == Less(o[Len(o)])
         IN  /\ \A k \in Int : Read(St(o, 0), EncodeHead("int", k)) = St(Owing(o, t), 0)
             /\ \A k \in Int : Read(St(o, 0), EncodeHead("tag", k)) = St(Owing(o, t + 1), 0)
             /\ \A major \in {"string", "bstr"} :
                  Read(St(o, 0), EncodeHead(major, n)) = St(Owing(o, t), n)
             /\ Read(St(o, 0), EncodeHead("array", n)) = St(Owing(o, t + n), 0)
             /\ Read(St(o, 0), EncodeHead("map", n)) = St(Owing(o, t + 2 * n), 0)
             /\ \A major \in Endless :
                  Read(St(o, 0), EncodeHead(major, 0)) = St(Append(Owing(o, t), 0), 0)
             /\ Len(o) > 1 /\ o[Len(o)] = 0 =>
                  Read(St(o, 0), EncodeHead("break", 0)) = St(Front(o), 0)
<1> DEFINE t == Less(o[Len(o)])
           tail(major, k) == Len(EncodeHead(major, k)) - 1
<1>1. \A m \in Nat : Owing(o, m) \in Owed
  BY OwingIs
<1>2. t \in Nat /\ t + 1 \in Nat /\ t + n \in Nat /\ t + 2 * n \in Nat
  <2>1. t \in Nat
    BY OwingIs
  <2> HIDE DEF t
  <2> QED BY ONLY <2>1, n \in Nat
<1>3. \A major \in Kinds : \A k \in Int : tail(major, k) \in Int /\ tail(major, k) + 0 = tail(major, k)
  BY HeadIsBytes
<1>4. /\ {"int", "tag", "string", "bstr", "array", "map", "break"} \subseteq Kinds
      /\ Endless \subseteq Kinds /\ n \in Int /\ 0 \in Nat /\ 0 \in Int
  BY DEF Kinds, Endless
<1>5. \A major \in Kinds : tail(major, 0) = 0
  <2> SUFFICES ASSUME NEW major \in Kinds PROVE tail(major, 0) = 0
    OBVIOUS
  <2> DEFINE x == <<major, 0>>
             a == <<x>>
  <2>1. ~(0 > Direct)
    BY BoundsAssumption
  <2>2. EncodeHead(major, 0) = Join(a, <<>>)
    BY <2>1 DEF EncodeHead, Join
  <2>3. a \in Seq(Token) /\ Len(a) = 1
    <3>1. x \in Token
      BY DEF Token
    <3> HIDE DEF x
    <3> QED BY <3>1, OneRead
  <2> HIDE DEF a
  <2>4. EncodeHead(major, 0) = a
    BY <2>2, <2>3, JoinEmpty
  <2> QED BY <2>3, <2>4
<1> HIDE DEF t
<1>6. ASSUME NEW k \in Int PROVE Read(St(o, 0), EncodeHead("int", k)) = St(Owing(o, t), 0)
  <2>1. ReadToken(St(o, 0), <<"int", k>>) = St(Owing(o, t), tail("int", k))
    BY TokenRead DEF t
  <2> QED BY <1>1, <1>2, <1>3, <1>4, <2>1, HeadRead
<1>7. ASSUME NEW k \in Int PROVE Read(St(o, 0), EncodeHead("tag", k)) = St(Owing(o, t + 1), 0)
  <2> DEFINE w == Owing(o, t + 1)
  <2>1. ReadToken(St(o, 0), <<"tag", k>>) = St(w, tail("tag", k))
    BY ONLY o \in Owed, <1>7, TokenRead DEF t
  <2>2. w \in Owed
    BY ONLY <1>1, <1>2
  <2> HIDE DEF w
  <2> QED BY ONLY <1>3, <1>4, <1>7, <2>1, <2>2, HeadRead DEF w
<1>8. ASSUME NEW major \in {"string", "bstr"}
      PROVE  Read(St(o, 0), EncodeHead(major, n)) = St(Owing(o, t), n)
  <2> DEFINE w == Owing(o, t)
  <2>1. ReadToken(St(o, 0), <<major, n>>) = St(w, tail(major, n) + n)
    BY ONLY o \in Owed, <1>4, <1>8, TokenRead DEF t
  <2>2. w \in Owed /\ major \in Kinds
    BY ONLY <1>1, <1>2, <1>4, <1>8
  <2> HIDE DEF w
  <2> QED BY ONLY <1>4, n \in Nat, <2>1, <2>2, HeadRead DEF w
<1>9. Read(St(o, 0), EncodeHead("array", n)) = St(Owing(o, t + n), 0)
  <2> DEFINE w == Owing(o, t + n)
  <2>1. ReadToken(St(o, 0), <<"array", n>>) = St(w, tail("array", n))
    <3>1. n \in Int
      BY ONLY <1>4
    <3> QED BY ONLY o \in Owed, <3>1, TokenRead DEF t
  <2>2. w \in Owed
    BY ONLY <1>1, <1>2
  <2> HIDE DEF w
  <2> QED BY ONLY <1>3, <1>4, <2>1, <2>2, HeadRead DEF w
<1>10. Read(St(o, 0), EncodeHead("map", n)) = St(Owing(o, t + 2 * n), 0)
  <2> DEFINE w == Owing(o, t + 2 * n)
  <2>1. ReadToken(St(o, 0), <<"map", n>>) = St(w, tail("map", n))
    <3>1. n \in Int
      BY ONLY <1>4
    <3> QED BY ONLY o \in Owed, <3>1, TokenRead DEF t
  <2>2. w \in Owed
    BY ONLY <1>1, <1>2
  <2> HIDE DEF w
  <2>3. ReadToken(St(o, 0), <<"map", n>>) = St(w, tail("map", n) + 0)
    BY <1>3, <1>4, <2>1
  <2>4. "map" \in Kinds
    BY ONLY <1>4
  <2>5. Read(St(o, 0), EncodeHead("map", n)) = St(w, 0)
    BY ONLY <1>4, <2>2, <2>3, <2>4, HeadRead
  <2> QED BY ONLY <2>5 DEF w
<1>11. ASSUME NEW major \in Endless
       PROVE  Read(St(o, 0), EncodeHead(major, 0)) = St(Append(Owing(o, t), 0), 0)
  <2> DEFINE w == Append(Owing(o, t), 0)
  <2>1. ReadToken(St(o, 0), <<major, 0>>) = St(w, 0)
    BY ONLY o \in Owed, <1>4, <1>11, TokenRead DEF t
  <2>2. w \in Owed
    <3>1. Owing(o, t) \in Seq(Nat)
      BY <1>1, <1>2 DEF Owed
    <3>2. w \in Seq(Nat) /\ w # <<>>
      BY ONLY <1>4, <3>1, AppendProperties
    <3> QED BY ONLY <3>2 DEF Owed
  <2>3. major \in Kinds /\ tail(major, 0) + 0 = 0
    BY <1>4, <1>5
  <2> HIDE DEF w
  <2>4. ReadToken(St(o, 0), <<major, 0>>) = St(w, tail(major, 0) + 0)
    BY ONLY <2>1, <2>3
  <2> QED BY ONLY <1>4, <2>2, <2>3, <2>4, HeadRead DEF w
<1>12. ASSUME Len(o) > 1, o[Len(o)] = 0
       PROVE  Read(St(o, 0), EncodeHead("break", 0)) = St(Front(o), 0)
  <2>1. ReadToken(St(o, 0), <<"break", 0>>) = St(Front(o), 0)
    BY <1>12, BreakRead
  <2>2. Front(o) \in Owed
    <3>1. o \in Seq(Nat) /\ Len(o) \in Nat /\ o # <<>>
      BY DEF Owed
    <3>2. PICK u \in Seq(Nat), x \in Nat : o = Append(u, x)
      BY ONLY <3>1, SequenceEmptyOrAppend
    <3>3. Front(o) = u /\ Len(o) = Len(u) + 1
      BY <3>2, AppendProperties DEF Front
    <3> QED BY <1>12, <3>2, <3>3 DEF Owed
  <2>3. "break" \in Kinds /\ tail("break", 0) + 0 = 0
    BY <1>4, <1>5
  <2>4. ReadToken(St(o, 0), <<"break", 0>>) = St(Front(o), tail("break", 0) + 0)
    BY ONLY <2>1, <2>3
  <2> QED BY ONLY <1>4, <2>2, <2>3, <2>4, HeadRead
<1> QED BY <1>6, <1>7, <1>8, <1>9, <1>10, <1>11, <1>12 DEF t

-----------------------------------------------------------------------------
(* Items                                                                    *)

\* What is owed after c items and p more, a tag or nothing, where t were.
Left(t, c, p) ==
  LET n == IF t > c THEN t - c ELSE 0
  IN  IF n > p THEN n ELSE p

\* Wherever an item can begin, s is read as c items and p tags behind them, which
\* is one or none.
Reads(s, c, p) ==
  \A o \in Owed : Read(St(o, 0), s) = St(Owing(o, Left(o[Len(o)], c, p)), 0)

Tagged(s)      == s # <<>> /\ Last(s)[1] = "tag"
Complete(s, c) == c \in Nat /\ \E p \in {0, 1} : Reads(s, c, p) /\ (p = 1 => Tagged(s))

LEMMA ReadsNothing == Reads(<<>>, 0, 0)
<1> SUFFICES ASSUME NEW o \in Owed
             PROVE  Read(St(o, 0), <<>>) = St(Owing(o, Left(o[Len(o)], 0, 0)), 0)
  BY DEF Reads
<1>1. o[Len(o)] \in Nat /\ Owing(o, o[Len(o)]) = o
  <2>1. 0 \in Nat
    OBVIOUS
  <2> QED BY <2>1, OwingIs
<1>2. Left(o[Len(o)], 0, 0) = o[Len(o)]
  BY <1>1 DEF Left
<1> QED BY <1>1, <1>2, ReadEmpty

\* Items and more items.
LEMMA ReadsThen ==
  ASSUME NEW s \in Bytes, NEW t \in Bytes, NEW c \in Nat, NEW d \in Nat,
         NEW p \in {0, 1}, NEW q \in {0, 1}, p <= d + q, Reads(s, c, p), Reads(t, d, q)
  PROVE  Reads(Join(s, t), c + d, q)
<1> SUFFICES ASSUME NEW o \in Owed
             PROVE  Read(St(o, 0), Join(s, t)) = St(Owing(o, Left(o[Len(o)], c + d, q)), 0)
  BY DEF Reads
<1> DEFINE n == o[Len(o)]
           m == Left(n, c, p)
           w == Owing(o, m)
<1>1. n \in Nat
  <2>1. 0 \in Nat
    OBVIOUS
  <2> QED BY <2>1, OwingIs
<1> HIDE DEF n
<1>2. m \in Nat /\ Left(m, d, q) = Left(n, c + d, q) /\ Left(n, c + d, q) \in Nat
  BY <1>1 DEF Left
<1> HIDE DEF m
<1>3. w \in Owed /\ w[Len(w)] = m /\ \A k : Owing(w, k) = Owing(o, k)
  BY <1>2, OwingIs
<1>4. Read(St(o, 0), s) = St(w, 0)
  BY DEF Reads, m, n
<1> HIDE DEF w
<1>5. Read(St(w, 0), t) = St(Owing(w, Left(m, d, q)), 0)
  BY <1>3 DEF Reads
<1>6. Read(St(o, 0), Join(s, t)) = Read(Read(St(o, 0), s), t)
  BY ReadJoin DEF Bytes
<1> QED BY <1>2, <1>3, <1>4, <1>5, <1>6 DEF n

LEMMA ReadsTag == Reads(EncodeHead("tag", 0), 0, 1)
<1> SUFFICES ASSUME NEW o \in Owed
             PROVE  Read(St(o, 0), EncodeHead("tag", 0)) = St(Owing(o, Left(o[Len(o)], 0, 1)), 0)
  BY DEF Reads
<1>0. 0 \in Nat /\ 0 \in Int
  OBVIOUS
<1>1. o[Len(o)] \in Nat
  BY <1>0, OwingIs
<1>2. Left(o[Len(o)], 0, 1) = Less(o[Len(o)]) + 1
  BY <1>1 DEF Left, Less
<1> QED BY <1>0, <1>2, HeadsRead

\* What is one item.
LEMMA ReadsItem ==
  /\ Reads(EncodeHead("int", 0), 1, 0)
  /\ \A s \in Bytes : \A major \in {"string", "bstr"} : Reads(Join(EncodeHead(major, Len(s)), s), 1, 0)
  /\ \A s \in Bytes : \A n \in Nat : Reads(s, n, 0) => Reads(Join(EncodeHead("array", n), s), 1, 0)
  /\ \A s \in Bytes : \A n \in Nat : Reads(s, 2 * n, 0) => Reads(Join(EncodeHead("map", n), s), 1, 0)
  /\ \A s \in Bytes : \A n \in Nat : \A major \in Endless :
       Reads(s, n, 0) =>
         Reads(Join(Join(EncodeHead(major, 0), s), EncodeHead("break", 0)), 1, 0)
<1>0. 0 \in Nat /\ 0 \in Int
  OBVIOUS
<1>1. ASSUME NEW o \in Owed
      PROVE  /\ Left(o[Len(o)], 1, 0) = Less(o[Len(o)]) /\ Less(o[Len(o)]) \in Nat
             /\ o[Len(o)] \in Nat
             /\ \A n \in Nat : Left(Less(o[Len(o)]) + n, n, 0) = Less(o[Len(o)])
  <2> DEFINE t == o[Len(o)]
  <2>1. t \in Nat
    BY <1>0, OwingIs
  <2> HIDE DEF t
  <2>2. Less(t) \in Nat /\ Left(t, 1, 0) = Less(t)
    BY <2>1 DEF Left, Less
  <2>3. \A n \in Nat : Left(Less(t) + n, n, 0) = Less(t)
    BY <2>2 DEF Left
  <2> QED BY <2>1, <2>2, <2>3 DEF t
<1>2. Reads(EncodeHead("int", 0), 1, 0)
  BY <1>0, <1>1, HeadsRead DEF Reads
<1>3. \A major \in Kinds : \A n \in Int : EncodeHead(major, n) \in Bytes
  BY HeadIsBytes
<1>4. {"string", "bstr", "array", "map", "break"} \subseteq Kinds /\ Endless \subseteq Kinds
  BY DEF Kinds, Endless
<1>5. ASSUME NEW s \in Bytes, NEW major \in {"string", "bstr"}
      PROVE  Reads(Join(EncodeHead(major, Len(s)), s), 1, 0)
  <2> DEFINE n == Len(s)
             h == EncodeHead(major, n)
  <2>1. n \in Nat /\ n = Len(s)
    BY DEF Bytes
  <2> HIDE DEF n
  <2>2. h \in Bytes
    BY <1>3, <1>4, <2>1
  <2> SUFFICES ASSUME NEW o \in Owed
               PROVE  Read(St(o, 0), Join(h, s)) = St(Owing(o, Left(o[Len(o)], 1, 0)), 0)
    BY DEF Reads, n
  <2> DEFINE w == Owing(o, Less(o[Len(o)]))
  <2>3. Read(St(o, 0), h) = St(w, n)
    BY <2>1, HeadsRead
  <2>4. w \in Owed
    BY <1>1, OwingIs
  <2> HIDE DEF w, h
  <2>5. Read(St(w, n), s) = St(w, 0)
    BY <2>1, <2>4, SkipRead
  <2>6. Read(St(o, 0), Join(h, s)) = Read(Read(St(o, 0), h), s)
    BY <2>2, ReadJoin DEF Bytes
  <2> QED BY <1>1, <2>3, <2>5, <2>6 DEF w
<1>6. ASSUME NEW s \in Bytes, NEW major \in Kinds, NEW k \in Nat, NEW n \in Nat, Reads(s, n, 0),
             \A o \in Owed :
               Read(St(o, 0), EncodeHead(major, k)) = St(Owing(o, Less(o[Len(o)]) + n), 0)
      PROVE  Reads(Join(EncodeHead(major, k), s), 1, 0)
  <2> DEFINE h == EncodeHead(major, k)
  <2>1. h \in Bytes
    BY <1>3
  <2> SUFFICES ASSUME NEW o \in Owed
               PROVE  Read(St(o, 0), Join(h, s)) = St(Owing(o, Left(o[Len(o)], 1, 0)), 0)
    BY DEF Reads
  <2> DEFINE t == Less(o[Len(o)])
             w == Owing(o, t + n)
  <2>2. Read(St(o, 0), h) = St(w, 0)
    BY <1>6
  <2>3. t \in Nat /\ Left(o[Len(o)], 1, 0) = t /\ Left(t + n, n, 0) = t
    BY <1>1
  <2> HIDE DEF h, t
  <2>4. t + n \in Nat
    BY <2>3
  <2>5. w \in Owed /\ w[Len(w)] = t + n /\ Owing(w, t) = Owing(o, t)
    BY <2>4, OwingIs
  <2> HIDE DEF w
  <2>6. Read(St(w, 0), s) = St(Owing(w, t), 0)
    BY <1>6, <2>3, <2>5 DEF Reads
  <2>7. Read(St(o, 0), Join(h, s)) = Read(Read(St(o, 0), h), s)
    BY <2>1, ReadJoin DEF Bytes
  <2> QED BY <2>2, <2>3, <2>5, <2>6, <2>7
<1>7. ASSUME NEW s \in Bytes, NEW n \in Nat, Reads(s, n, 0)
      PROVE  Reads(Join(EncodeHead("array", n), s), 1, 0)
  BY <1>4, <1>6, <1>7, HeadsRead
<1>8. ASSUME NEW s \in Bytes, NEW n \in Nat, Reads(s, 2 * n, 0)
      PROVE  Reads(Join(EncodeHead("map", n), s), 1, 0)
  <2> DEFINE k == 2 * n
  <2>1. k \in Nat
    OBVIOUS
  <2>2. \A o \in Owed : Read(St(o, 0), EncodeHead("map", n)) = St(Owing(o, Less(o[Len(o)]) + k), 0)
    BY HeadsRead
  <2>3. Reads(s, k, 0) /\ "map" \in Kinds
    BY <1>4, <1>8
  <2> HIDE DEF k
  <2> QED BY ONLY <1>6, s \in Bytes, n \in Nat, <2>1, <2>2, <2>3
<1>9. ASSUME NEW s \in Bytes, NEW n \in Nat, NEW major \in Endless, Reads(s, n, 0)
      PROVE  Reads(Join(Join(EncodeHead(major, 0), s), EncodeHead("break", 0)), 1, 0)
  <2> DEFINE h == EncodeHead(major, 0)
             b == EncodeHead("break", 0)
  <2>1. h \in Bytes /\ b \in Bytes
    BY <1>0, <1>3, <1>4
  <2>2. Join(h, s) \in Bytes
    BY <2>1, JoinTwo DEF Bytes
  <2> SUFFICES ASSUME NEW o \in Owed
               PROVE  Read(St(o, 0), Join(Join(h, s), b)) = St(Owing(o, Left(o[Len(o)], 1, 0)), 0)
    BY DEF Reads
  <2> DEFINE x == Owing(o, Less(o[Len(o)]))
             w == Append(x, 0)
  <2>3. Read(St(o, 0), h) = St(w, 0)
    BY <1>0, HeadsRead
  <2>4. x \in Owed
    BY <1>1, OwingIs
  <2> HIDE DEF x
  <2>5. w \in Owed /\ Len(w) > 1 /\ w[Len(w)] = 0 /\ Front(w) = x
    BY <2>4, <1>0, AppendProperties, EmptySeq DEF Owed, Front
  <2> HIDE DEF h, b
  <2>6. Owing(w, 0) = w /\ Left(0, n, 0) = 0
    <3>1. Owing(w, w[Len(w)]) = w
      BY <1>0, <2>5, OwingIs
    <3> QED BY <2>5, <3>1 DEF Left
  <2> HIDE DEF w
  <2>7. Read(St(w, 0), s) = St(w, 0)
    BY <1>9, <2>5, <2>6 DEF Reads
  <2>8. Read(St(w, 0), b) = St(x, 0)
    BY <1>0, <2>5, HeadsRead DEF b
  <2>9. /\ Read(St(o, 0), Join(h, s)) = Read(Read(St(o, 0), h), s)
        /\ Read(St(o, 0), Join(Join(h, s), b)) = Read(Read(St(o, 0), Join(h, s)), b)
    BY <2>1, <2>2, ReadJoin DEF Bytes
  <2> QED BY <1>1, <2>3, <2>7, <2>8, <2>9 DEF x
<1> QED BY <1>2, <1>5, <1>7, <1>8, <1>9

-----------------------------------------------------------------------------
(* Levels                                                                   *)

\* What is written around a level when it is opened.
Marker(major) == IF major \in Endless THEN EncodeHead(major, 0) ELSE <<>>

\* Level l has its items, of which the last is the level it is around.
Around(lv, l) ==
  \E s \in Bytes : lv[l].items = Join(s, Marker(lv[l + 1].major)) /\ Complete(s, lv[l].count - 1)

Readable(lv) ==
  /\ Complete(lv[Len(lv)].items, lv[Len(lv)].count)
  /\ \A l \in 1..(Len(lv) - 1) : Around(lv, l)

LEMMA CompleteMore ==
  ASSUME NEW s \in Bytes, NEW c, Complete(s, c)
  PROVE  /\ \A b \in Bytes : Reads(b, 1, 0) => Complete(Join(s, b), c + 1)
         /\ Complete(Join(s, EncodeHead("tag", 0)), c)
         /\ ~Tagged(s) => Reads(s, c, 0)
<1>1. PICK p \in {0, 1} : c \in Nat /\ Reads(s, c, p) /\ (p = 1 => Tagged(s))
  BY DEF Complete
<1>2. ASSUME NEW b \in Bytes, Reads(b, 1, 0) PROVE Complete(Join(s, b), c + 1)
  <2>1. p <= 1 + 0 /\ 1 \in Nat /\ 0 \in {0, 1} /\ c + 1 \in Nat /\ ~(0 = 1)
    BY <1>1
  <2>2. Reads(Join(s, b), c + 1, 0)
    BY ONLY s \in Bytes, <1>1, <1>2, <2>1, ReadsThen
  <2> QED BY ONLY <2>1, <2>2 DEF Complete
<1>3. Complete(Join(s, EncodeHead("tag", 0)), c)
  <2> DEFINE x == <<"tag", 0>>
             a == <<x>>
             h == EncodeHead("tag", 0)
  <2>1. p <= 0 + 1 /\ 0 \in Nat /\ 1 \in {0, 1} /\ c + 0 = c
    BY <1>1
  <2>2. ~(0 > Direct)
    BY BoundsAssumption
  <2>3. h = Join(a, <<>>)
    BY <2>2 DEF EncodeHead, Join
  <2>4. x \in Token /\ x[1] = "tag"
    BY DEF Token, Kinds
  <2> HIDE DEF x, h
  <2>5. a \in Seq(Token) /\ a = Append(<<>>, x) /\ <<>> \in Seq(Token)
    BY <2>4, OneRead, EmptySeq
  <2>6. h = a
    BY <2>3, <2>5, JoinEmpty
  <2>7. Join(s, a) = Append(s, x)
    <3>1. s \in Seq(Token) /\ Join(s, <<>>) = s
      BY JoinEmpty DEF Bytes
    <3>2. Join(s, Append(<<>>, x)) = Append(Join(s, <<>>), x)
      <4>1. x \in Token /\ <<>> \in Seq(Token) /\ s \in Seq(Token)
        BY <2>4, <2>5, <3>1
      <4> DEFINE y == <<>>
      <4>2. y \in Seq(Token)
        BY <4>1
      <4> HIDE DEF y
      <4>3. Join(s, Append(y, x)) = Append(Join(s, y), x)
        BY ONLY <4>1, <4>2, JoinAppend
      <4> QED BY <4>3 DEF y
    <3> QED BY <2>5, <3>1, <3>2
  <2>8. Tagged(Join(s, h))
    <3>1. s \in Seq(Token) /\ Len(s) \in Nat
      BY DEF Bytes
    <3>2. /\ Append(s, x) # <<>> /\ Len(Append(s, x)) = Len(s) + 1
          /\ Append(s, x)[Len(s) + 1] = x
      BY ONLY <2>4, <3>1, AppendProperties
    <3> QED BY <2>4, <2>6, <2>7, <3>2 DEF Tagged, Last
  <2>9. Reads(Join(s, h), c + 0, 1)
    <3>1. a \in Bytes /\ Reads(h, 0, 1)
      BY <2>5, ReadsTag DEF Bytes, h
    <3> QED BY ONLY s \in Bytes, <1>1, <2>1, <2>6, <3>1, ReadsThen
  <2> QED BY <1>1, <2>1, <2>8, <2>9 DEF Complete, h
<1>4. ~Tagged(s) => Reads(s, c, 0)
  BY <1>1
<1> QED BY <1>2, <1>3, <1>4

LEMMA ExtendedHas ==
  ASSUME NEW lv \in Seq(Item), lv # <<>>, NEW n \in Int, NEW b \in Bytes
  PROVE  LET e == Nested!Extended(lv, n, b)
             k == Len(lv)
         IN  /\ e \in Seq(Item) /\ Len(e) = k /\ k \in Nat \ {0}
             /\ e[k].items = Join(lv[k].items, b) /\ e[k].count = lv[k].count + n
             /\ lv[k].items \in Bytes /\ lv[k].count \in Int
             /\ \A i \in 1..k : e[i].major = lv[i].major
             /\ \A i \in 1..(k - 1) : e[i] = lv[i]
<1> DEFINE e == Nested!Extended(lv, n, b)
           k == Len(lv)
           x == Enlarged(lv[k], n, b)
<1>1. /\ e = [i \in 1..k |-> IF i = k THEN Enlarged(lv[i], n, b) ELSE lv[i]] /\ k \in 1..k
  BY ExtendedIs
<1>2. k \in Nat \ {0} /\ lv \in [1..k -> Item]
  BY EmptySeq
<1>3. lv[k] \in Item /\ lv[k].items \in Bytes /\ lv[k].count \in Int /\ lv[k].major \in Kinds
  BY <1>1, <1>2 DEF Item
<1> HIDE DEF e, k
<1>4. x.items = Join(lv[k].items, b) /\ x.count = lv[k].count + n /\ x.major = lv[k].major
  BY DEF Enlarged
<1>5. x \in Item
  <2>1. Join(lv[k].items, b) \in Bytes
    BY <1>3, JoinTwo DEF Bytes
  <2>2. lv[k].count + n \in Int
    BY ONLY <1>3, n \in Int
  <2> QED BY <1>3, <2>1, <2>2 DEF Enlarged, Item
<1> HIDE DEF x
<1>6. e = [i \in 1..k |-> IF i = k THEN x ELSE lv[i]]
  BY <1>1 DEF x
<1>7. e \in [1..k -> Item] /\ e[k] = x /\ \A i \in 1..(k - 1) : e[i] = lv[i]
  BY ONLY <1>1, <1>2, <1>5, <1>6
<1>8. e \in Seq(Item) /\ Len(e) = k
  BY ONLY <1>2, <1>7
<1>9. \A i \in 1..k : e[i].major = lv[i].major
  BY ONLY <1>4, <1>6
<1> QED BY <1>2, <1>3, <1>4, <1>7, <1>8, <1>9 DEF e, k

\* The innermost level has more.
LEMMA ReadableMore ==
  ASSUME NEW lv \in Seq(Item), lv # <<>>, \A l \in 1..(Len(lv) - 1) : Around(lv, l),
         NEW n \in Int, NEW b \in Bytes,
         Complete(Join(lv[Len(lv)].items, b), lv[Len(lv)].count + n)
  PROVE  Readable(Nested!Extended(lv, n, b))
<1> DEFINE e == Nested!Extended(lv, n, b)
           k == Len(lv)
<1>1. /\ Len(e) = k /\ k \in Nat \ {0}
      /\ e[k].items = Join(lv[k].items, b) /\ e[k].count = lv[k].count + n
      /\ \A i \in 1..k : e[i].major = lv[i].major
      /\ \A i \in 1..(k - 1) : e[i] = lv[i]
  BY ExtendedHas
<1> HIDE DEF e
<1>2. ASSUME NEW l \in 1..(k - 1) PROVE Around(e, l)
  <2>1. l + 1 \in 1..k
    BY <1>1
  <2>2. Around(lv, l) /\ e[l] = lv[l] /\ e[l + 1].major = lv[l + 1].major
    BY <1>1, <2>1
  <2> QED BY ONLY <2>2 DEF Around
<1> QED BY <1>1, <1>2 DEF Readable, e

\* A level is opened in it.
LEMMA ReadableOpened ==
  ASSUME NEW lv \in Seq(Item), lv # <<>>, Readable(lv), NEW major \in Kinds
  PROVE  Readable(Append(Nested!Extended(lv, 1, Marker(major)),
                         [major |-> major, count |-> 0, items |-> <<>>]))
<1> DEFINE b   == Marker(major)
           e   == Nested!Extended(lv, 1, b)
           k   == Len(lv)
           new == [major |-> major, count |-> 0, items |-> <<>>]
           w   == Append(e, new)
<1>1. b \in Bytes /\ 1 \in Int
  <2>1. <<>> \in Bytes
    BY EmptySeq DEF Bytes
  <2> QED BY <2>1, HeadIsBytes DEF Marker
<1>2. new \in Item
  BY EmptySeq DEF Item, Bytes
<1> HIDE DEF b
<1>3. /\ e \in Seq(Item) /\ Len(e) = k /\ k \in Nat \ {0}
      /\ e[k].items = Join(lv[k].items, b) /\ e[k].count = lv[k].count + 1
      /\ lv[k].items \in Bytes /\ lv[k].count \in Int
      /\ \A i \in 1..k : e[i].major = lv[i].major
      /\ \A i \in 1..(k - 1) : e[i] = lv[i]
  BY ONLY lv \in Seq(Item), lv # <<>>, <1>1, ExtendedHas
<1>4. new.major = major /\ new.count = 0 /\ new.items = <<>>
  OBVIOUS
<1> HIDE DEF e, new
<1>5. Len(w) = k + 1 /\ w[k + 1] = new /\ \A i \in 1..k : w[i] = e[i]
  BY ONLY <1>2, <1>3, AppendProperties
<1>6. Complete(<<>>, 0)
  <2>1. 0 \in Nat /\ 0 \in {0, 1} /\ ~(0 = 1)
    OBVIOUS
  <2> QED BY ONLY <2>1, ReadsNothing DEF Complete
<1> HIDE DEF w
<1>7. Complete(lv[k].items, lv[k].count) /\ \A l \in 1..(k - 1) : Around(lv, l)
  BY DEF Readable
<1> HIDE DEF k
<1>8. ASSUME NEW l \in 1..k PROVE Around(w, l)
  <2>1. CASE l = k
    <3>1. w[l].items = Join(lv[k].items, b) /\ w[l].count = lv[k].count + 1 /\ w[l + 1].major = major
      BY <1>3, <1>4, <1>5, <2>1
    <3> DEFINE c == w[l].count - 1
    <3>2. c = lv[k].count
      BY ONLY <1>3, <3>1
    <3>3. c = w[l].count - 1
      OBVIOUS
    <3> HIDE DEF c
    <3>4. Complete(lv[k].items, w[l].count - 1)
      BY ONLY <1>7, <3>2, <3>3
    <3> QED BY ONLY <1>3, <3>1, <3>4 DEF Around, b
  <2>2. CASE ~(l = k)
    <3>1. l \in 1..(k - 1) /\ l + 1 \in 1..k /\ l \in 1..k
      BY ONLY <1>3, <2>2, l \in 1..k
    <3>2. Around(lv, l) /\ w[l] = lv[l] /\ w[l + 1].major = lv[l + 1].major
      BY ONLY <1>3, <1>5, <1>7, <3>1
    <3> QED BY ONLY <3>2 DEF Around
  <2> QED BY <2>1, <2>2
<1>9. Len(w) - 1 = k
  BY <1>3, <1>5
<1>10. Complete(w[Len(w)].items, w[Len(w)].count)
  BY ONLY <1>4, <1>5, <1>6
<1>11. Readable(w)
  BY ONLY <1>8, <1>9, <1>10 DEF Readable
<1> QED BY <1>11 DEF w, e, new, b

\* The innermost level is left: it becomes what is complete around it.
LEMMA ReadableLeft ==
  ASSUME NEW lv \in Seq(Item), Len(lv) > 1, Readable(lv), NEW n \in Int, NEW b \in Bytes,
         \A s \in Bytes : \A c \in Nat :
           Complete(s, c) => Complete(Join(Join(s, Marker(Last(lv).major)), b), c + 1 + n)
  PROVE  Readable(Nested!Extended(Front(lv), n, b))
<1> DEFINE k == Len(lv)
           f == Front(lv)
<1>1. k \in Nat /\ k > 1 /\ lv # <<>> /\ lv \in [1..k -> Item] /\ k = Len(lv)
  BY EmptySeq
<1>2. PICK u \in Seq(Item), x \in Item : lv = Append(u, x)
  BY ONLY <1>1, lv \in Seq(Item), SequenceEmptyOrAppend
<1>3. /\ f \in Seq(Item) /\ Len(f) = k - 1 /\ \A i \in 1..(k - 1) : f[i] = lv[i]
  <2>1. f = u /\ k = Len(u) + 1 /\ Len(u) \in Nat /\ \A i \in 1..Len(u) : u[i] = lv[i]
    BY <1>2, AppendProperties DEF Front
  <2> HIDE DEF f, k
  <2>2. k - 1 = Len(u)
    BY ONLY <2>1
  <2> QED BY ONLY <2>1, <2>2
<1>4. \A l \in 1..(k - 1) : Around(lv, l)
  BY DEF Readable
<1>5. Last(lv).major = lv[k].major
  BY DEF Last
<1> DEFINE j == k - 1
<1>6. j \in 1..(k - 1) /\ j + 1 = k /\ j \in Nat \ {0} /\ j = k - 1
  BY <1>1
<1> HIDE DEF k, f, j
<1>7. f # <<>>
  BY <1>3, <1>6, EmptySeq
<1>8. \A l \in 1..(Len(f) - 1) : Around(f, l)
  <2> SUFFICES ASSUME NEW l \in 1..(Len(f) - 1) PROVE Around(f, l)
    OBVIOUS
  <2>1. Len(f) = j
    BY <1>3, <1>6
  <2>2. l \in 1..(k - 1) /\ l + 1 \in 1..(k - 1)
    BY ONLY <1>6, <2>1, l \in 1..(Len(f) - 1)
  <2>3. Around(lv, l) /\ f[l] = lv[l] /\ f[l + 1] = lv[l + 1]
    BY ONLY <1>3, <1>4, <2>2
  <2> QED BY ONLY <2>3 DEF Around
<1>9. PICK s \in Bytes : lv[j].items = Join(s, Marker(lv[j + 1].major)) /\ Complete(s, lv[j].count - 1)
  BY <1>4, <1>6 DEF Around
<1>10. lv[j] = f[Len(f)] /\ lv[j].count \in Int /\ lv[j + 1].major = Last(lv).major
  <2>1. j \in 1..k /\ Len(f) = j
    BY ONLY <1>1, <1>3, <1>6
  <2>2. lv[j] \in Item
    BY ONLY <1>1, <2>1
  <2>3. lv[j] = f[j] /\ lv[j + 1] = lv[k]
    BY ONLY <1>3, <1>6
  <2> QED BY <1>5, <2>1, <2>2, <2>3 DEF Item
<1> DEFINE c == lv[j].count - 1
<1>11. c \in Nat /\ c + 1 + n = lv[j].count + n /\ c = lv[j].count - 1
  <2>1. c \in Nat
    BY ONLY <1>9 DEF Complete
  <2> QED BY ONLY <1>10, <2>1, n \in Int
<1> HIDE DEF c
<1>12. Complete(Join(Join(s, Marker(Last(lv).major)), b), c + 1 + n)
  BY <1>9, <1>11
<1>13. Complete(Join(f[Len(f)].items, b), f[Len(f)].count + n)
  BY ONLY <1>9, <1>10, <1>11, <1>12
<1> QED BY <1>3, <1>7, <1>8, <1>13, ReadableMore DEF f

\* It becomes one item.
LEMMA ReadableClosed ==
  ASSUME NEW lv \in Seq(Item), Len(lv) > 1, Readable(lv), NEW b \in Bytes,
         NEW m \in Bytes, m = Marker(Last(lv).major), Reads(Join(m, b), 1, 0)
  PROVE  Readable(Nested!Extended(Front(lv), 0, b))
<1>1. ASSUME NEW s \in Bytes, NEW c \in Nat, Complete(s, c)
      PROVE  Complete(Join(Join(s, m), b), c + 1 + 0)
  <2>1. Join(m, b) \in Bytes /\ Join(Join(s, m), b) = Join(s, Join(m, b))
    BY JoinTwo, JoinThree DEF Bytes
  <2>2. Complete(Join(s, Join(m, b)), c + 1)
    BY <1>1, <2>1, CompleteMore
  <2>3. c + 1 + 0 = c + 1
    OBVIOUS
  <2> QED BY ONLY <2>1, <2>2, <2>3
<1>2. 0 \in Int
  OBVIOUS
<1> QED BY <1>1, <1>2, ReadableLeft

\* It is left as if it had not been opened.
LEMMA ReadableCancelled ==
  ASSUME NEW lv \in Seq(Item), Len(lv) > 1, Readable(lv), Last(lv).major = "bstr"
  PROVE  Readable(Nested!Extended(Front(lv), -1, <<>>))
<1>1. Marker(Last(lv).major) = <<>> /\ -1 \in Int /\ <<>> \in Bytes
  BY EmptySeq DEF Marker, Endless, Bytes
<1>2. ASSUME NEW s \in Bytes, NEW c \in Nat, Complete(s, c)
      PROVE  Complete(Join(Join(s, <<>>), <<>>), c + 1 + (-1))
  <2>1. Join(s, <<>>) = s
    BY JoinEmpty DEF Bytes
  <2>2. c + 1 + (-1) = c
    OBVIOUS
  <2> QED BY ONLY <1>2, <2>1, <2>2
<1> QED BY <1>1, <1>2, ReadableLeft

-----------------------------------------------------------------------------
(* The calls                                                                *)

\* What the caller was to avoid, it avoided.
LEMMA NoteClean ==
  ASSUME IInv, NEW error \in BOOLEAN, NEW misuse \in BOOLEAN, Note(error, misuse),
         ~failed', ~misused'
  PROVE  ~misused /\ ~misuse
<1>1. late \in Nat
  BY Facts
<1>2. /\ late' = IF failed \/ err' \/ uError' # "SUCCESS" \/ error THEN late + 1 ELSE 0
      /\ misused' = ((misused \/ misuse) /\ late' = 0)
  BY DEF Note
<1>3. late' = 0
  BY <1>1, <1>2 DEF failed
<1> QED BY <1>2, <1>3

LEMMA LevelsAre ==
  ASSUME IInv, Whole, ~failed
  PROVE  /\ Levels \in Seq(Item) /\ Levels # <<>> /\ Len(Levels) = Len(nesting)
         /\ Len(Levels) \in 1..Len(Levels)
         /\ Last(Levels) = Levels[Len(Levels)] /\ Last(Levels) \in Item
<1>1. /\ nesting \in Stacks /\ nesting # <<>> /\ data \in Bytes
      /\ Ordered(nesting, Len(data)) /\ Levels = View(data, nesting)
  BY WholeFacts
<1> DEFINE v == Levels
<1>2. v \in Seq(Item) /\ Len(v) = Len(nesting) /\ v # <<>>
  BY <1>1, ViewIs, LastIs
<1> HIDE DEF v
<1>3. Len(v) \in 1..Len(v) /\ v[Len(v)] \in Item
  BY <1>2, EmptySeq
<1> QED BY <1>2, <1>3 DEF v, Last

\* Items are added.
LEMMA Added ==
  ASSUME IInv, Whole, ~failed, Readable(Levels), NEW n \in Int, NEW b \in Bytes,
         Levels' = Nested!Extended(Levels, n, b),
         \A s \in Bytes : \A c \in Nat : Complete(s, c) => Complete(Join(s, b), c + n)
  PROVE  Readable(Levels')
<1> DEFINE v == Levels
<1>1. v \in Seq(Item) /\ v # <<>> /\ Len(v) \in 1..Len(v)
  BY LevelsAre
<1>2. /\ Complete(v[Len(v)].items, v[Len(v)].count)
      /\ \A l \in 1..(Len(v) - 1) : Around(v, l)
  BY DEF Readable
<1> HIDE DEF v
<1>3. v[Len(v)].items \in Bytes /\ v[Len(v)].count \in Nat
  <2>1. v[Len(v)] \in Item
    BY <1>1
  <2> QED BY <1>2, <2>1 DEF Item, Complete
<1>4. Complete(Join(v[Len(v)].items, b), v[Len(v)].count + n)
  BY <1>2, <1>3
<1>5. Readable(Nested!Extended(v, n, b))
  BY ONLY <1>1, <1>2, <1>4, n \in Int, b \in Bytes, ReadableMore
<1> QED BY <1>5 DEF v

\* One item is added.
LEMMA OneAdded ==
  ASSUME IInv, Whole, ~failed, Readable(Levels), NEW b \in Bytes,
         Levels' = Nested!Extended(Levels, 1, b), Reads(b, 1, 0)
  PROVE  Readable(Levels')
<1>1. 1 \in Int /\ \A s \in Bytes : \A c \in Nat : Complete(s, c) => Complete(Join(s, b), c + 1)
  BY CompleteMore
<1> QED BY <1>1, Added

\* A tag that is seen at the end of the items is one that is seen at the end of the
\* output.
LEMMA TagIsSeen ==
  ASSUME NEW st \in Nat, st <= Len(data), data \in Bytes, Tagged(Slice(data, st, Len(data)))
  PROVE  Dangling(st)
<1> DEFINE z == Len(data)
           w == Slice(data, st, z)
<1>1. data \in Seq(Token) /\ z \in 0..Len(data) /\ st \in 0..z /\ z \in Nat
  BY DEF Bytes
<1>2. w \in Seq(Token) /\ Len(w) = z - st /\ \A i \in 1..(z - st) : w[i] = data[st + i]
  <2> HIDE DEF z
  <2> QED BY ONLY <1>1, SliceIs
<1>3. w # <<>> /\ w[Len(w)][1] = "tag" /\ z = Len(data)
  BY DEF Tagged, Last
<1> HIDE DEF w, z
<1>4. Len(w) \in Nat \ {0}
  BY ONLY <1>2, <1>3, EmptySeq
<1>5. z > st /\ z - st \in 1..(z - st) /\ st + (z - st) = z
  BY ONLY <1>1, <1>2, <1>4
<1>6. w[Len(w)] = data[Len(data)]
  BY ONLY <1>2, <1>3, <1>5
<1> QED BY ONLY <1>3, <1>5, <1>6 DEF Dangling, Last

\* What a level that is closed with nothing left to its caller to avoid has collected.
LEMMA ClosedHas ==
  ASSUME IInv, Whole, ~failed, Readable(Levels), NEW major, Closed(major), nesting # <<>>,
         ~Dangling(Current.start)
  PROVE  /\ Last(Levels).items \in Bytes /\ Last(Levels).count \in Nat
         /\ Reads(Last(Levels).items, Last(Levels).count, 0)
<1>1. /\ Last(Levels) \in Item /\ Last(Levels) = Levels[Len(Levels)]
  BY LevelsAre
<1>2. Complete(Last(Levels).items, Last(Levels).count)
  BY <1>1 DEF Readable
<1>3. Last(Levels).items \in Bytes /\ Last(Levels).count \in Nat
  BY <1>1, <1>2 DEF Item, Complete
<1>4. Last(Levels).items = Slice(data, Current.start, Len(data))
  BY DEF Closed
<1>5. Current.start \in Nat /\ Current.start <= Len(data) /\ data \in Bytes
  BY CurrentIs, Facts
<1>6. ~Tagged(Last(Levels).items)
  BY <1>4, <1>5, TagIsSeen
<1> QED BY <1>2, <1>3, <1>6, CompleteMore

\* A head is put in front of a level.
LEMMA HeadedReads ==
  ASSUME IInv, Whole, ~failed, Readable(Levels), NEW major \in {"array", "map", "bstr"},
         Closed(major), nesting # <<>>, Nested!Close, ~Dangling(Current.start),
         ~(major = "map" /\ Current.count % 2 = 1)
  PROVE  Readable(Levels')
<1> DEFINE x == Last(Levels)
           n == CASE x.major = "array" -> x.count
                  [] x.major = "map"   -> x.count \div 2
                  [] x.major = "bstr"  -> Len(x.items)
           b == Join(EncodeHead(x.major, n), x.items)
<1>1. x.items \in Bytes /\ x.count \in Nat /\ Reads(x.items, x.count, 0)
  BY ClosedHas
<1>2. x.major = major /\ x.count = Current.count
  BY DEF Closed
<1>3. x \in Item /\ Levels \in Seq(Item)
  BY LevelsAre
<1>4. Nested!Last(Levels) = x /\ Nested!Front(Levels) = Front(Levels)
  BY DEF Nested!Last, Last, Nested!Front, Front
<1>5. Len(Levels) > 1 /\ Levels' = Nested!Extended(Front(Levels), 0, Nested!Enclosed(x))
  BY <1>4 DEF Nested!Close
<1> HIDE DEF x
<1>6. n = CASE x.major = "array" -> x.count
            [] x.major = "map"   -> x.count \div 2
            [] x.major = "bstr"  -> Len(x.items)
  OBVIOUS
<1> HIDE DEF n
<1>7. Nested!Enclosed(x) = b
  BY ONLY <1>2, <1>3, <1>6, major \in {"array", "map", "bstr"}, EnclosedIs
<1>8. n \in Nat /\ b \in Bytes
  <2>1. n \in Nat
    BY <1>1, <1>2, <1>6 DEF Bytes
  <2>2. EncodeHead(x.major, n) \in Bytes
    BY <1>2, <2>1, HeadIsBytes DEF Kinds
  <2> QED BY <1>1, <2>1, <2>2, JoinTwo DEF Bytes
<1>9. Reads(b, 1, 0)
  <2>1. CASE major = "array"
    BY <1>1, <1>2, <1>6, <1>8, <2>1, ReadsItem
  <2>2. CASE major = "map"
    <3>1. n = x.count \div 2 /\ x.count % 2 # 1
      BY <1>2, <1>6, <2>2
    <3>2. 2 * n = x.count
      BY ONLY <1>1, <1>8, <3>1
    <3> QED BY <1>1, <1>2, <1>8, <2>2, <3>2, ReadsItem
  <2>3. CASE major = "bstr"
    BY <1>1, <1>2, <1>6, <1>8, <2>3, ReadsItem
  <2> QED BY <2>1, <2>2, <2>3
<1> DEFINE m == <<>>
<1>10. m \in Bytes /\ m = Marker(Last(Levels).major)
  BY <1>2, EmptySeq DEF Bytes, Marker, Endless, x
<1>11. Join(m, b) = b
  BY <1>8, JoinEmpty DEF Bytes
<1> HIDE DEF b, m
<1>12. Readable(Nested!Extended(Front(Levels), 0, b))
  BY <1>3, <1>5, <1>8, <1>9, <1>10, <1>11, ReadableClosed
<1> QED BY <1>5, <1>7, <1>12

\* A level of indefinite length gets its break.
LEMMA BrokenReads ==
  ASSUME IInv, Whole, ~failed, Readable(Levels), NEW major \in Endless,
         Closed(major), nesting # <<>>, Nested!CloseIndefinite, ~Dangling(Current.start)
  PROVE  Readable(Levels')
<1> DEFINE x == Last(Levels)
           k == EncodeHead("break", 0)
           m == EncodeHead(major, 0)
           b == Join(x.items, k)
<1>1. x.items \in Bytes /\ x.count \in Nat /\ Reads(x.items, x.count, 0)
  BY ClosedHas
<1>2. x.major = major
  BY DEF Closed
<1>3. Levels \in Seq(Item)
  BY LevelsAre
<1>4. Nested!Last(Levels) = x /\ Nested!Front(Levels) = Front(Levels)
  BY DEF Nested!Last, Last, Nested!Front, Front
<1>5. Len(Levels) > 1 /\ Levels' = Nested!Extended(Front(Levels), 0, b)
  BY <1>4 DEF Nested!CloseIndefinite, Join
<1>6. m = Marker(Last(Levels).major)
  BY <1>2 DEF Marker
<1>7. k \in Bytes /\ m \in Bytes
  BY HeadIsBytes DEF Kinds, Endless
<1>8. Reads(Join(Join(m, x.items), k), 1, 0)
  BY <1>1, ReadsItem
<1> HIDE DEF x, k, m
<1>9. b \in Bytes /\ Join(Join(m, x.items), k) = Join(m, b)
  <2> DEFINE y == x.items
  <2>1. y \in Seq(Token) /\ k \in Seq(Token) /\ m \in Seq(Token)
    BY <1>1, <1>7 DEF Bytes
  <2> HIDE DEF y
  <2>2. Join(y, k) \in Seq(Token) /\ Join(Join(m, y), k) = Join(m, Join(y, k))
    BY ONLY <2>1, JoinTwo, JoinThree
  <2> QED BY ONLY <2>2 DEF y, Bytes
<1> HIDE DEF b
<1>10. Readable(Nested!Extended(Front(Levels), 0, b))
  BY <1>3, <1>5, <1>6, <1>7, <1>8, <1>9, ReadableClosed
<1> QED BY <1>5, <1>10

-----------------------------------------------------------------------------
(* The result                                                               *)

\* While no call has met an error and the caller has done what is left to it, every
\* open level can be read.
Sound == ~failed /\ ~misused => Readable(Levels)

\* What is read of a whole output.
LEMMA ReadsWhole == ASSUME NEW s, NEW c \in Nat, Reads(s, c, 0) PROVE WellFormed(s)
<1> DEFINE o == <<0>>
<1>1. o \in Owed /\ Len(o) = 1 /\ o[1] = 0
  BY EmptySeq DEF Owed
<1>2. Left(0, c, 0) = 0
  BY DEF Left
<1> HIDE DEF o
<1>3. Owing(o, 0) = o
  <2>1. Owing(o, o[Len(o)]) = o
    <3>1. 0 \in Nat
      OBVIOUS
    <3> QED BY ONLY <1>1, <3>1, OwingIs
  <2> QED BY <1>1, <2>1
<1>4. Read(St(o, 0), s) = St(o, 0)
  BY <1>1, <1>2, <1>3 DEF Reads
<1> QED BY <1>4 DEF WellFormed, Read, St, o

\* A step after which there is no error and no misuse, if it is one that met none.
Clean == ~failed' /\ ~misused'

LEMMA CleanBefore ==
  ASSUME IInv, Whole, Sound, Mapped, Clean, NEW error \in BOOLEAN, NEW misuse \in BOOLEAN,
         Note(error, misuse)
  PROVE  ~failed /\ ~misuse /\ Readable(Levels)
BY NoteClean DEF Clean, Mapped, Sound

\* A call that adds one item: an integer, or what AddBuffer() is given.
LEMMA IntReads == ASSUME IInv, Whole, Sound, Clean, AddInt64 PROVE Readable(Levels')
<1>1. Note(FALSE, FALSE)
  BY DEF AddInt64
<1>2. Mapped /\ Levels' = Nested!Extended(Levels, 1, EncodeHead("int", 0))
  BY IntMaps DEF Clean
<1>3. EncodeHead("int", 0) \in Bytes /\ Reads(EncodeHead("int", 0), 1, 0)
  BY HeadIsBytes, ReadsItem DEF Kinds
<1> QED BY <1>1, <1>2, <1>3, CleanBefore, OneAdded

LEMMA BufferReads ==
  ASSUME IInv, Whole, Sound, Clean, NEW kind \in {"string", "raw", "lenOnly"}, AddBuffer(kind)
  PROVE  Readable(Levels')
<1>1. Note(FALSE, kind = "lenOnly") /\ (kind = "lenOnly") \in BOOLEAN
  BY DEF AddBuffer
<1>2. Mapped /\ Levels' = Nested!Extended(Levels, 1, Written(kind))
  BY BufferMaps DEF Clean
<1>3. ~failed /\ ~(kind = "lenOnly") /\ Readable(Levels)
  BY <1>1, <1>2, CleanBefore
<1>4. Written(kind) \in Bytes
  BY BufferWorks
<1>5. Reads(Written(kind), 1, 0)
  <2>1. CASE kind = "raw"
    BY <2>1, ReadsItem DEF Written
  <2>2. CASE kind = "string"
    <3> DEFINE b == <<<<"byte", 0>>>>
    <3>1. b \in Bytes /\ Len(b) = 1
      BY DEF Bytes, Token, Kinds
    <3>2. Written(kind) = Join(EncodeHead("string", 1), b)
      BY <2>2 DEF Written
    <3> HIDE DEF b
    <3>3. Reads(Join(EncodeHead("string", Len(b)), b), 1, 0)
      BY <3>1, ReadsItem
    <3> QED BY <3>1, <3>2, <3>3
  <2> QED BY <1>3, <2>1, <2>2
<1> QED BY <1>2, <1>3, <1>4, <1>5, OneAdded

LEMMA TagReads == ASSUME IInv, Whole, Sound, Clean, AddTag PROVE Readable(Levels')
<1>1. Note(FALSE, FALSE)
  BY DEF AddTag
<1>2. Mapped /\ Levels' = Nested!Extended(Levels, 0, EncodeHead("tag", 0))
  BY TagMaps DEF Clean
<1>3. ~failed /\ Readable(Levels)
  BY <1>1, <1>2, CleanBefore
<1> DEFINE b == EncodeHead("tag", 0)
<1>4. b \in Bytes /\ 0 \in Int
  BY HeadIsBytes DEF Kinds
<1>5. ASSUME NEW s \in Bytes, NEW c \in Nat, Complete(s, c) PROVE Complete(Join(s, b), c + 0)
  <2>1. c + 0 = c
    OBVIOUS
  <2> QED BY <1>5, <2>1, CompleteMore
<1> HIDE DEF b
<1> QED BY <1>2, <1>3, <1>4, <1>5, Added DEF b

\* A level is opened.
LEMMA OpenReads ==
  ASSUME IInv, Whole, ~failed, Readable(Levels), NEW major \in Kinds,
         Nested!Open(major, Marker(major))
  PROVE  Readable(Levels')
<1>1. Levels' = Append(Nested!Extended(Levels, 1, Marker(major)),
                       [major |-> major, count |-> 0, items |-> <<>>])
  BY DEF Nested!Open
<1>2. Levels \in Seq(Item) /\ Levels # <<>>
  BY LevelsAre
<1> QED BY <1>1, <1>2, ReadableOpened

LEMMA OpenNote ==
  ASSUME NEW major, NEW position, OpenLevel(major, position)
  PROVE  Note(~(uError = "SUCCESS" /\ CanIncrement), FALSE) /\ returned' = Nothing
BY DEF OpenLevel

LEMMA OpenLevelReads ==
  ASSUME IInv, Whole, Sound, Clean, NEW major \in Majors \cup {"bstr"}, OpenMapOrArray(major)
  PROVE  Readable(Levels')
<1>1. Note(~(uError = "SUCCESS" /\ CanIncrement), FALSE)
  BY OpenNote DEF OpenMapOrArray
<1>2. Mapped /\ Nested!Open(major, <<>>)
  BY OpenLevelMaps DEF Clean
<1>3. ~failed /\ Readable(Levels)
  BY <1>1, <1>2, CleanBefore
<1>4. major \in Kinds /\ Marker(major) = <<>>
  BY DEF Marker, Majors, Endless, Kinds
<1> QED BY <1>2, <1>3, <1>4, OpenReads

LEMMA OpenIndefiniteReads ==
  ASSUME IInv, Whole, Sound, Clean, NEW major \in Endless, OpenMapOrArrayIndefiniteLength(major)
  PROVE  Readable(Levels')
<1>1. Note(~(uError = "SUCCESS" /\ CanIncrement), FALSE)
  BY OpenNote DEF OpenMapOrArrayIndefiniteLength
<1>2. Mapped /\ Nested!Open(major, EncodeHead(major, 0))
  BY OpenIndefiniteMaps DEF Clean
<1>3. ~failed /\ Readable(Levels)
  BY <1>1, <1>2, CleanBefore
<1>4. major \in Kinds /\ Marker(major) = EncodeHead(major, 0)
  BY DEF Marker, Endless, Kinds
<1> QED BY <1>2, <1>3, <1>4, OpenReads

\* A level is closed.
LEMMA CloseMapOrArrayReads ==
  ASSUME IInv, Whole, Sound, Clean, NEW major \in Majors, CloseMapOrArray(major)
  PROVE  Readable(Levels')
<1> DEFINE misuse == (major = "map" /\ Current.count % 2 = 1) \/ Dangling(Current.start)
<1>1. nesting # <<>> /\ Note(FALSE, misuse) /\ misuse \in BOOLEAN
  BY DEF CloseMapOrArray, Dangling
<1>2. Mapped /\ Nested!Close /\ Closed(major)
  BY CloseMapOrArrayMaps DEF Clean
<1> HIDE DEF misuse
<1>3. ~failed /\ ~misuse /\ Readable(Levels)
  BY <1>1, <1>2, CleanBefore
<1>4. ~(major = "map" /\ Current.count % 2 = 1) /\ ~Dangling(Current.start)
  BY <1>3 DEF misuse
<1>5. major \in {"array", "map", "bstr"}
  BY DEF Majors
<1> QED BY <1>1, <1>2, <1>3, <1>4, <1>5, HeadedReads

LEMMA WrapReads ==
  ASSUME IInv, Whole, Sound, Clean, NEW include \in BOOLEAN, CloseBstrWrap2(include)
  PROVE  Readable(Levels')
<1> DEFINE misuse == Dangling(Current.start)
<1>1. nesting # <<>> /\ Note(FALSE, misuse) /\ misuse \in BOOLEAN
  BY DEF CloseBstrWrap2, Dangling
<1>2. Mapped /\ Nested!Close /\ Closed("bstr")
  BY WrapMaps DEF Clean
<1> HIDE DEF misuse
<1>3. ~failed /\ ~misuse /\ Readable(Levels)
  BY <1>1, <1>2, CleanBefore
<1>4. ~("bstr" = "map" /\ Current.count % 2 = 1) /\ ~Dangling(Current.start)
  BY <1>3 DEF misuse
<1>5. "bstr" \in {"array", "map", "bstr"}
  OBVIOUS
<1> QED BY <1>1, <1>2, <1>3, <1>4, <1>5, HeadedReads

LEMMA CloseIndefiniteReads ==
  ASSUME IInv, Whole, Sound, Clean, NEW major \in Endless, CloseMapOrArrayIndefiniteLength(major)
  PROVE  Readable(Levels')
<1> DEFINE misuse == (major = "openMap" /\ Current.count % 2 = 1) \/ Dangling(Current.start)
<1>1. nesting # <<>> /\ Note(FALSE, misuse) /\ misuse \in BOOLEAN
  BY DEF CloseMapOrArrayIndefiniteLength, Dangling
<1>2. Mapped /\ Nested!CloseIndefinite /\ Closed(major)
  BY CloseIndefiniteMaps DEF Clean
<1> HIDE DEF misuse
<1>3. ~failed /\ ~misuse /\ Readable(Levels)
  BY <1>1, <1>2, CleanBefore
<1>4. ~Dangling(Current.start)
  BY <1>3 DEF misuse
<1> QED BY <1>1, <1>2, <1>3, <1>4, BrokenReads

LEMMA CancelReads == ASSUME IInv, Whole, Sound, Clean, CancelBstrWrap PROVE Readable(Levels')
<1>1. Note(FALSE, FALSE)
  BY DEF CancelBstrWrap
<1>2. Mapped /\ Nested!Cancel
  BY CancelMaps DEF Clean
<1>3. ~failed /\ Readable(Levels)
  BY <1>1, <1>2, CleanBefore
<1> DEFINE f == Front(Levels)
<1>4. Levels \in Seq(Item) /\ Levels # <<>>
  BY <1>3, LevelsAre
<1>5. /\ Len(Levels) > 1 /\ Last(Levels).major = "bstr"
      /\ Levels' = [f EXCEPT ![Len(Levels) - 1].count = @ - 1]
  BY <1>2 DEF Nested!Cancel, Nested!Last, Last, Nested!Front, Front
<1>6. f \in Seq(Item) /\ f # <<>> /\ Len(f) = Len(Levels) - 1 /\ f[Len(f)].items \in Bytes
  <2>1. PICK u \in Seq(Item), x \in Item : Levels = Append(u, x)
    BY <1>4, SequenceEmptyOrAppend
  <2>2. f = u /\ Len(Levels) = Len(u) + 1
    BY <2>1, AppendProperties DEF Front
  <2>3. u # <<>> /\ Len(u) \in 1..Len(u)
    BY <1>5, <2>2, EmptySeq
  <2>4. u[Len(u)] \in Item
    BY <2>3
  <2> HIDE DEF f
  <2> QED BY ONLY <2>1, <2>2, <2>3, <2>4 DEF Item
<1>7. Nested!Extended(f, -1, <<>>) = [f EXCEPT ![Len(f)].count = @ - 1]
  <2> HIDE DEF f
  <2> QED BY ONLY <1>6, UncountedIs
<1>8. Readable(Nested!Extended(f, -1, <<>>))
  BY <1>3, <1>4, <1>5, ReadableCancelled
<1> QED BY ONLY <1>5, <1>6, <1>7, <1>8

LEMMA FinishReads ==
  ASSUME IInv, Whole, Sound, Clean, Finish
  PROVE  /\ Readable(Levels')
         /\ returned'.code = "SUCCESS" /\ ~Dangling(0)' => WellFormed(returned'.bytes)
<1>1. Note(FALSE, FALSE)
  BY DEF Finish
<1>2. /\ Mapped /\ data' = data /\ Levels' = Levels
      /\ returned'.code = "SUCCESS" =>
           Len(Levels) = 1 /\ Levels[1].items = data /\ returned'.bytes = data
  BY FinishMaps DEF Clean
<1>3. ~failed /\ Readable(Levels)
  BY <1>1, <1>2, CleanBefore
<1>4. ASSUME returned'.code = "SUCCESS", ~Dangling(0)' PROVE WellFormed(returned'.bytes)
  <2>1. ~Dangling(0)
    BY <1>2, <1>4 DEF Dangling
  <2>2. Len(Levels) = 1 /\ Levels[1].items = data /\ returned'.bytes = data
    BY <1>2, <1>4
  <2>3. Complete(data, Levels[1].count)
    BY <1>3, <2>2 DEF Readable
  <2>4. data \in Bytes /\ Len(data) \in Nat
    BY Facts DEF Bytes
  <2>5. ~Tagged(data)
    <3>1. Slice(data, 0, Len(data)) = data /\ 0 \in Nat /\ 0 <= Len(data)
      BY <2>4, SliceAll DEF Bytes
    <3> QED BY <2>1, <2>4, <3>1, TagIsSeen
  <2> DEFINE c == Levels[1].count
  <2>6. Reads(data, c, 0) /\ c \in Nat
    BY <2>3, <2>4, <2>5, CompleteMore DEF Complete
  <2> HIDE DEF c
  <2> QED BY <2>2, <2>6, ReadsWhole
<1> QED BY <1>2, <1>3, <1>4

\* What each call returns, and that no call returns an error as a success.
Quiet == returned'.code = "SUCCESS" => Finish

LEMMA NextQuiet == ASSUME Next PROVE Quiet
<1>1. Nothing.code # "SUCCESS"
  BY DEF Nothing
<1>2. CASE AddInt64 \/ AddType7Reserved \/ AddTag \/ CancelBstrWrap
  BY <1>1, <1>2 DEF AddInt64, AddType7Reserved, AddTag, CancelBstrWrap, Quiet
<1>3. ASSUME NEW kind \in {"string", "raw", "lenOnly"}, AddBuffer(kind) PROVE Quiet
  BY <1>1, <1>3 DEF AddBuffer, Quiet
<1>4. ASSUME NEW major, OpenMapOrArray(major) \/ OpenMapOrArrayIndefiniteLength(major) PROVE Quiet
  BY <1>1, <1>4, OpenNote DEF OpenMapOrArray, OpenMapOrArrayIndefiniteLength, Quiet
<1>5. ASSUME NEW major, CloseMapOrArray(major) \/ CloseMapOrArrayIndefiniteLength(major) PROVE Quiet
  BY <1>1, <1>5 DEF CloseMapOrArray, CloseMapOrArrayIndefiniteLength, Quiet
<1>6. ASSUME NEW include, CloseBstrWrap2(include) PROVE Quiet
  <2>1. returned'.code # "SUCCESS"
    BY <1>1, <1>6 DEF CloseBstrWrap2
  <2> QED BY <2>1 DEF Quiet
<1>7. CASE Finish
  BY <1>7 DEF Quiet
<1> QED BY <1>2, <1>3, <1>4, <1>5, <1>6, <1>7 DEF Next

LEMMA NextReads == ASSUME IInv, Whole, Sound, Next, Clean PROVE Readable(Levels')
<1>1. CASE AddInt64
  BY <1>1, IntReads
<1>2. CASE AddType7Reserved
  BY <1>2, ReservedMaps DEF Clean
<1>3. CASE AddTag
  BY <1>3, TagReads
<1>4. ASSUME NEW kind \in {"string", "raw", "lenOnly"}, AddBuffer(kind) PROVE Readable(Levels')
  BY <1>4, BufferReads
<1>5. ASSUME NEW major \in Majors \cup {"bstr"}, OpenMapOrArray(major) PROVE Readable(Levels')
  BY <1>5, OpenLevelReads
<1>6. ASSUME NEW major \in Endless, OpenMapOrArrayIndefiniteLength(major) PROVE Readable(Levels')
  BY <1>6, OpenIndefiniteReads
<1>7. ASSUME NEW major \in Majors, CloseMapOrArray(major) PROVE Readable(Levels')
  BY <1>7, CloseMapOrArrayReads
<1>8. ASSUME NEW include \in BOOLEAN, CloseBstrWrap2(include) PROVE Readable(Levels')
  BY <1>8, WrapReads
<1>9. CASE CancelBstrWrap
  BY <1>9, CancelReads
<1>10. ASSUME NEW major \in Endless, CloseMapOrArrayIndefiniteLength(major) PROVE Readable(Levels')
  BY <1>10, CloseIndefiniteReads
<1>11. CASE Finish
  BY <1>11, FinishReads
<1> QED
  BY <1>1, <1>2, <1>3, <1>4, <1>5, <1>6, <1>7, <1>8, <1>9, <1>10, <1>11 DEF Next

\* QCBOREncode_Finish() answers success only for well-formed output, whatever opens,
\* closes, cancels and insertions came before, if no call met an error and the caller
\* did what the library leaves to it.
THEOREM FinishedRight == Spec => []FinishedIsWellFormed
<1>1. Init => Sound /\ FinishedIsWellFormed
  <2> SUFFICES ASSUME Init PROVE Sound /\ FinishedIsWellFormed
    OBVIOUS
  <2>1. /\ nesting = <<[major |-> "array", count |-> 0, start |-> 0]>> /\ data = <<>>
        /\ returned = Nothing /\ ~failed
    BY DEF Init, failed
  <2>2. Levels = <<[major |-> "array", count |-> 0, items |-> <<>>]>>
    BY <2>1 DEF Levels, LevelItems
  <2>3. Complete(<<>>, 0)
    <3>1. 0 \in Nat /\ 0 \in {0, 1} /\ ~(0 = 1)
      OBVIOUS
    <3> QED BY ONLY <3>1, ReadsNothing DEF Complete
  <2>4. Readable(Levels)
    <3>1. Len(Levels) = 1 /\ Levels[1].items = <<>> /\ Levels[1].count = 0
      BY <2>2
    <3> QED BY <2>3, <3>1 DEF Readable
  <2> QED BY <2>1, <2>4 DEF Sound, FinishedIsWellFormed, Nothing
<1>2. IInv /\ Whole /\ Sound /\ FinishedIsWellFormed /\ [Next]_vars => Sound' /\ FinishedIsWellFormed'
  <2> SUFFICES ASSUME IInv, Whole, Sound, FinishedIsWellFormed, [Next]_vars
               PROVE  Sound' /\ FinishedIsWellFormed'
    OBVIOUS
  <2>1. CASE Next
    <3>1. Sound'
      <4> SUFFICES ASSUME Clean PROVE Readable(Levels')
        BY DEF Sound, Clean
      <4> QED BY <2>1, NextReads
    <3>2. FinishedIsWellFormed'
      <4> SUFFICES ASSUME returned'.code = "SUCCESS", Clean, ~Dangling(0)'
                   PROVE  WellFormed(returned'.bytes)
        BY DEF FinishedIsWellFormed, Clean
      <4>1. Finish
        BY <2>1, NextQuiet DEF Quiet
      <4> QED BY <4>1, FinishReads
    <3> QED BY <3>1, <3>2
  <2>2. CASE UNCHANGED vars
    BY <2>2 DEF vars, Sound, FinishedIsWellFormed, failed, Levels, LevelItems, Dangling
  <2> QED BY <2>1, <2>2
<1> QED BY <1>1, <1>2, Invariant, WholeAlways, PTL DEF Spec

==============================================================================
