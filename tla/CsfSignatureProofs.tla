------------------------- MODULE CsfSignatureProofs -------------------------
(***************************************************************************)
(* For every size of the buffer, every content and any damage: what is      *)
(* signed is complete or left alone, what arrives as it was sent is         *)
(* accepted, and nothing else is.                                           *)
(***************************************************************************)
EXTENDS CsfSignature, SequenceTheorems, WellFoundedInduction, TLAPS

-----------------------------------------------------------------------------
(* Induction, and sequences joined and cut                                  *)

\* A set of natural numbers that is not empty has a least element.
LEMMA LeastElement ==
  ASSUME NEW T, T \subseteq Nat, T # {}
  PROVE  \E x \in T : \A y \in T : x <= y
<1> DEFINE R == OpToRel(<, Nat)
<1>1. IsWellFoundedOn(R, Nat)
  BY NatLessThanWellFounded, Zenon
<1>2. \A a, b \in Nat : a < b => <<a, b>> \in R
  BY DEF OpToRel
<1> HIDE DEF R
<1>3. PICK x \in T : \A y \in T : ~(<<y, x>> \in R)
  BY <1>1, WFMin
<1>4. \A y \in T : ~(y < x)
  BY <1>2, <1>3
<1> QED BY <1>4

\* Induction, for a set in the place of a predicate.
LEMMA SetInduction ==
  ASSUME NEW S, 0 \in S, \A n \in Nat : n \in S => n + 1 \in S
  PROVE  Nat \subseteq S
<1> DEFINE T == Nat \ S
<1> SUFFICES ASSUME T # {} PROVE FALSE
  OBVIOUS
<1>1. PICK x \in T : \A y \in T : x <= y
  BY LeastElement
<1>2. x # 0 /\ x - 1 \in Nat
  OBVIOUS
<1>3. x - 1 \in S
  BY <1>1, <1>2
<1> QED BY <1>2, <1>3

\* One sequence behind the other, under a name the provers do not look into.
Join(x, y) == x \o y

LEMMA JoinTwo ==
  ASSUME NEW T, NEW a \in Seq(T), NEW b \in Seq(T)
  PROVE  Join(a, b) \in Seq(T) /\ Len(Join(a, b)) = Len(a) + Len(b)
BY ConcatProperties DEF Join

\* Its members.
LEMMA JoinHas ==
  ASSUME NEW T, NEW a \in Seq(T), NEW b \in Seq(T)
  PROVE  \A j \in 1..(Len(a) + Len(b)) :
           Join(a, b)[j] = IF j <= Len(a) THEN a[j] ELSE b[j - Len(a)]
BY ConcatProperties DEF Join

LEMMA JoinEmpty ==
  ASSUME NEW T, NEW a \in Seq(T)
  PROVE  <<>> \in Seq(T) /\ Join(<<>>, a) = a /\ Join(a, <<>>) = a
BY ConcatEmptySeq DEF Join

\* What is between two places of a sequence.
Slice(s, a, b) == SubSeq(s, a + 1, b)

LEMMA SliceIs ==
  ASSUME NEW T, NEW s \in Seq(T), NEW b \in 0..Len(s), NEW a \in 0..b
  PROVE  /\ Slice(s, a, b) \in Seq(T) /\ Len(Slice(s, a, b)) = b - a
         /\ \A i \in 1..(b - a) : Slice(s, a, b)[i] = s[a + i]
<1>1. Len(s) \in Nat /\ \A i \in 1..Len(s) : s[i] \in T
  BY ElementOfSeq
<1>2. a + 1 \in Int /\ b \in Int /\ \A i \in (a + 1)..b : s[i] \in T
  BY ONLY <1>1, b \in 0..Len(s), a \in 0..b
<1> DEFINE c == SubSeq(s, a + 1, b)
<1>3. /\ c \in Seq(T) /\ Len(c) = (IF a + 1 <= b THEN b - (a + 1) + 1 ELSE 0)
      /\ \A i \in 1..(b - (a + 1) + 1) : c[i] = s[a + 1 + i - 1]
  BY ONLY <1>2, SubSeqProperties
<1> HIDE DEF c
<1>4. a \in Int /\ b \in Int /\ a <= b
  BY ONLY <1>1, b \in 0..Len(s), a \in 0..b
<1>5. Len(c) = b - a /\ b - (a + 1) + 1 = b - a
  BY ONLY <1>3, <1>4
<1>6. \A i \in 1..(b - a) : c[i] = s[a + i]
  <2> SUFFICES ASSUME NEW i \in 1..(b - a) PROVE c[i] = s[a + i]
    OBVIOUS
  <2>1. a + 1 + i - 1 = a + i
    BY ONLY <1>4, i \in 1..(b - a)
  <2> QED BY ONLY <1>3, <1>5, <2>1, i \in 1..(b - a)
<1> QED BY ONLY <1>3, <1>5, <1>6 DEF Slice, c

-----------------------------------------------------------------------------
(* Passing over items                                                       *)

\* A sequence whose tokens say how many items they hold.
Counted(m) == Len(m) \in Nat /\ \A q \in 1..Len(m) : Inside(m[q]) \in Nat

\* What follows a place, from what follows the next one.
Row(m, q, f) ==
  [k \in Nat |-> IF k = 0 THEN q ELSE IF q > Len(m) THEN 0 ELSE f[q + 1][k - 1 + Inside(m[q])]]

Rows(m, a, f) == f = [q \in a..(Len(m) + 1) |-> Row(m, q, f)]

LEMMA RowsExist ==
  ASSUME NEW m, Counted(m)
  PROVE  \E f : Rows(m, 1, f)
<1> DEFINE L == Len(m)
           S == {n \in Nat : n <= L => \E f : Rows(m, L + 1 - n, f)}
<1>0. L \in Nat
  BY DEF Counted
<1>1. 0 \in S
  <2> DEFINE f == [q \in (L + 1 - 0)..(L + 1) |-> [k \in Nat |-> IF k = 0 THEN q ELSE 0]]
  <2>1. ASSUME NEW q \in (L + 1 - 0)..(L + 1) PROVE f[q] = Row(m, q, f)
    <3>1. q > L
      BY <1>0
    <3> QED BY <3>1 DEF Row
  <2>2. f = [q \in (L + 1 - 0)..(L + 1) |-> f[q]]
    OBVIOUS
  <2> HIDE DEF f
  <2>3. Rows(m, L + 1 - 0, f)
    BY <2>1, <2>2 DEF Rows
  <2> QED BY <2>3
<1>2. ASSUME NEW n \in Nat, n \in S PROVE n + 1 \in S
  <2> SUFFICES ASSUME n + 1 <= L PROVE \E f : Rows(m, L + 1 - (n + 1), f)
    OBVIOUS
  <2>1. PICK g : Rows(m, L + 1 - n, g)
    BY <1>0, <1>2
  <2> DEFINE a == L - n
             D == a..(L + 1)
             h == [q \in D |-> IF q = a THEN Row(m, a, g) ELSE g[q]]
  <2>2. a \in 1..L /\ L + 1 - (n + 1) = a /\ L + 1 - n = a + 1 /\ L \in Nat
    BY <1>0
  <2> HIDE DEF a, L
  <2>9. g = [q \in (a + 1)..(L + 1) |-> Row(m, q, g)]
    <3>1. Rows(m, a + 1, g)
      BY ONLY <2>1, <2>2
    <3> QED BY ONLY <3>1 DEF Rows, L
  <2>3. \A q \in (a + 1)..(L + 1) : h[q] = g[q] /\ g[q] = Row(m, q, g)
    <3> SUFFICES ASSUME NEW q \in (a + 1)..(L + 1) PROVE h[q] = g[q] /\ g[q] = Row(m, q, g)
      OBVIOUS
    <3>1. q \in D /\ q # a
      BY <2>2
    <3>2. g[q] = Row(m, q, g)
      BY ONLY <2>9, q \in (a + 1)..(L + 1)
    <3> QED BY <3>1, <3>2
  <2>4. ASSUME NEW q \in D PROVE h[q] = Row(m, q, h)
    <3>1. h[q] = Row(m, q, g)
      <4>1. CASE q = a
        BY <4>1
      <4>2. CASE ~(q = a)
        <5>1. q \in (a + 1)..(L + 1)
          BY <2>2, <4>2
        <5> QED BY <2>3, <5>1
      <4> QED BY <4>1, <4>2
    <3>2. q <= L => h[q + 1] = g[q + 1]
      BY <2>2, <2>3
    <3> HIDE DEF h
    <3> QED BY <3>1, <3>2, <2>2 DEF Row, L
  <2>5. h = [q \in D |-> h[q]]
    OBVIOUS
  <2> HIDE DEF h
  <2>6. h = [q \in D |-> Row(m, q, h)]
    BY <2>4, <2>5
  <2>7. Rows(m, a, h)
    BY <2>6 DEF Rows, L
  <2> QED BY <2>2, <2>7
<1>3. L \in S
  BY <1>0, <1>1, <1>2, SetInduction
<1>4. L + 1 - L = 1
  BY <1>0
<1> QED BY <1>0, <1>3, <1>4

LEMMA AfterIs ==
  ASSUME NEW m, Counted(m), NEW p \in 1..(Len(m) + 1), NEW n \in Nat
  PROVE  /\ n = 0 => After(m, p, n) = p
         /\ n # 0 /\ p > Len(m) => After(m, p, n) = 0
         /\ n # 0 /\ p <= Len(m) => After(m, p, n) = After(m, p + 1, n - 1 + Inside(m[p]))
<1> DEFINE f == CHOOSE g : Rows(m, 1, g)
<1>1. Rows(m, 1, f)
  BY RowsExist
<1>2. \A q, k : After(m, q, k) = f[q][k]
  BY DEF After, Rows, Row
<1> HIDE DEF f
<1>3. Len(m) \in Nat
  BY DEF Counted
<1>4. \A q \in 1..(Len(m) + 1) : f[q] = Row(m, q, f)
  BY <1>1 DEF Rows
<1>5. f[p][n] = IF n = 0 THEN p ELSE IF p > Len(m) THEN 0 ELSE f[p + 1][n - 1 + Inside(m[p])]
  <2>1. f[p] = Row(m, p, f)
    BY <1>4
  <2>2. Row(m, p, f)[n] = IF n = 0 THEN p ELSE IF p > Len(m) THEN 0 ELSE f[p + 1][n - 1 + Inside(m[p])]
    BY DEF Row
  <2> QED BY ONLY <2>1, <2>2
<1> QED BY <1>2, <1>3, <1>5

\* An item takes at least a token.
LEMMA AfterEnds ==
  ASSUME NEW m, Counted(m)
  PROVE  \A p \in 1..(Len(m) + 1), n \in Nat :
           After(m, p, n) = 0 \/ After(m, p, n) \in (p + n)..(Len(m) + 1)
<1> DEFINE L == Len(m)
           Ends(p, n) == After(m, p, n) = 0 \/ After(m, p, n) \in (p + n)..(L + 1)
           S == {d \in Nat : \A p \in 1..(L + 1), n \in Nat : L + 1 - p = d => Ends(p, n)}
<1>0. L \in Nat /\ \A q \in 1..L : Inside(m[q]) \in Nat
  BY DEF Counted
<1>1. 0 \in S
  <2> SUFFICES ASSUME NEW p \in 1..(L + 1), NEW n \in Nat, L + 1 - p = 0 PROVE Ends(p, n)
    OBVIOUS
  <2>1. p > L /\ p = L + 1
    BY <1>0
  <2> QED BY <1>0, <2>1, AfterIs
<1>2. ASSUME NEW d \in Nat, d \in S PROVE d + 1 \in S
  <2> SUFFICES ASSUME NEW p \in 1..(L + 1), NEW n \in Nat, L + 1 - p = d + 1 PROVE Ends(p, n)
    OBVIOUS
  <2>1. p \in 1..L /\ p + 1 \in 1..(L + 1) /\ L + 1 - (p + 1) = d
    BY <1>0
  <2>2. CASE n = 0
    <3>1. After(m, p, 0) = p /\ p \in (p + 0)..(L + 1)
      BY <1>0, AfterIs
    <3> QED BY <2>2, <3>1
  <2>3. CASE n # 0
    <3> DEFINE k == n - 1 + Inside(m[p])
    <3>1. k \in Nat /\ p + 1 + k >= p + n
      BY <1>0, <2>1, <2>3
    <3>2. After(m, p, n) = After(m, p + 1, k)
      BY <1>0, <2>1, <2>3, AfterIs
    <3> HIDE DEF k
    <3>3. Ends(p + 1, k)
      BY <1>2, <2>1, <3>1
    <3> QED BY <1>0, <2>1, <3>1, <3>2, <3>3
  <2> QED BY <2>2, <2>3
<1>3. Nat \subseteq S
  BY <1>1, <1>2, SetInduction
<1> SUFFICES ASSUME NEW p \in 1..(L + 1), NEW n \in Nat PROVE Ends(p, n)
  OBVIOUS
<1>4. L + 1 - p \in S
  <2>1. L + 1 - p \in Nat
    BY <1>0
  <2> HIDE DEF S
  <2> QED BY ONLY <1>3, <2>1
<1> QED BY <1>4

\* n items and then k items are n + k items.
LEMMA AfterSum ==
  ASSUME NEW m, Counted(m)
  PROVE  \A p \in 1..(Len(m) + 1), n, k \in Nat :
           After(m, p, n + k) = IF After(m, p, n) = 0 THEN 0 ELSE After(m, After(m, p, n), k)
<1> DEFINE L == Len(m)
           Sums(p, n, k) ==
             After(m, p, n + k) = IF After(m, p, n) = 0 THEN 0 ELSE After(m, After(m, p, n), k)
           S == {d \in Nat : \A p \in 1..(L + 1), n, k \in Nat : L + 1 - p = d => Sums(p, n, k)}
<1>0. L \in Nat /\ \A q \in 1..L : Inside(m[q]) \in Nat
  BY DEF Counted
<1>1. ASSUME NEW p \in 1..(L + 1), NEW k \in Nat PROVE Sums(p, 0, k)
  <2>1. After(m, p, 0) = p /\ 0 + k = k /\ p # 0
    BY <1>0, AfterIs
  <2> QED BY <2>1
<1>2. 0 \in S
  <2> SUFFICES ASSUME NEW p \in 1..(L + 1), NEW n \in Nat, NEW k \in Nat, L + 1 - p = 0
               PROVE  Sums(p, n, k)
    OBVIOUS
  <2>1. CASE n = 0
    BY <1>1, <2>1
  <2>2. CASE n # 0
    <3>1. p > L /\ n + k \in Nat /\ n + k # 0
      BY <1>0, <2>2
    <3>2. After(m, p, n) = 0 /\ After(m, p, n + k) = 0
      BY <2>2, <3>1, AfterIs
    <3> QED BY <3>2
  <2> QED BY <2>1, <2>2
<1>3. ASSUME NEW d \in Nat, d \in S PROVE d + 1 \in S
  <2> SUFFICES ASSUME NEW p \in 1..(L + 1), NEW n \in Nat, NEW k \in Nat, L + 1 - p = d + 1
               PROVE  Sums(p, n, k)
    OBVIOUS
  <2>1. p \in 1..L /\ p + 1 \in 1..(L + 1) /\ L + 1 - (p + 1) = d
    BY <1>0
  <2>2. CASE n = 0
    BY <1>1, <2>2
  <2>3. CASE n # 0
    <3> DEFINE i == n - 1 + Inside(m[p])
    <3>1. i \in Nat /\ n + k - 1 + Inside(m[p]) = i + k /\ n + k \in Nat /\ n + k # 0 /\ p <= L
      BY <1>0, <2>1, <2>3
    <3>2. After(m, p, n) = After(m, p + 1, i)
      BY <1>0, <2>1, <2>3, AfterIs
    <3>3. After(m, p, n + k) = After(m, p + 1, n + k - 1 + Inside(m[p]))
      BY <3>1, AfterIs
    <3> HIDE DEF i
    <3>4. Sums(p + 1, i, k)
      <4>1. \A q \in 1..(L + 1), x, y \in Nat : L + 1 - q = d => Sums(q, x, y)
        BY ONLY <1>3
      <4> HIDE DEF Sums
      <4> QED BY ONLY <4>1, <2>1, <3>1, k \in Nat
    <3>5. After(m, p, n + k) = After(m, p + 1, i + k)
      BY ONLY <3>1, <3>3
    <3> QED BY ONLY <3>2, <3>4, <3>5
  <2> QED BY <2>2, <2>3
<1>4. Nat \subseteq S
  BY <1>2, <1>3, SetInduction
<1> SUFFICES ASSUME NEW p \in 1..(L + 1), NEW n \in Nat, NEW k \in Nat PROVE Sums(p, n, k)
  OBVIOUS
<1>5. L + 1 - p \in S
  <2>1. L + 1 - p \in Nat
    BY <1>0
  <2> HIDE DEF S
  <2> QED BY ONLY <1>4, <2>1
<1> QED BY <1>5

\* What w has from a to before b, m has d places behind that.
Alike(w, m, a, b, d) ==
  /\ Counted(w) /\ Counted(m) /\ b \in 1..(Len(w) + 1) /\ a \in 1..b
  /\ d \in Int /\ a + d >= 1 /\ b + d <= Len(m) + 1
  /\ \A j \in a..(b - 1) : m[j + d] = w[j]

\* The same tokens are the same items.
LEMMA AfterMoved ==
  ASSUME NEW w, NEW m, NEW a, NEW b, NEW d, Alike(w, m, a, b, d)
  PROVE  \A p \in a..b, n \in Nat :
           After(w, p, n) # 0 /\ After(w, p, n) <= b => After(m, p + d, n) = After(w, p, n) + d
<1> DEFINE K == Len(w)
           L == Len(m)
           Same(p, n) ==
             After(w, p, n) # 0 /\ After(w, p, n) <= b => After(m, p + d, n) = After(w, p, n) + d
           S == {e \in Nat : \A p \in a..b, n \in Nat : b - p = e => Same(p, n)}
<1> USE DEF Alike
<1>0. /\ K \in Nat /\ \A q \in 1..K : Inside(w[q]) \in Nat
      /\ L \in Nat /\ \A q \in 1..L : Inside(m[q]) \in Nat
  BY DEF Counted
<1>1. ASSUME NEW p \in a..b PROVE Same(p, 0)
  <2>1. p \in 1..(K + 1) /\ p + d \in 1..(L + 1)
    BY <1>0
  <2> QED BY <2>1, AfterIs
<1>2. 0 \in S
  <2> SUFFICES ASSUME NEW p \in a..b, NEW n \in Nat, b - p = 0, n # 0 PROVE Same(p, n)
    BY <1>1
  <2>1. p \in 1..(K + 1)
    BY <1>0
  <2>2. After(w, p, n) = 0 \/ After(w, p, n) \in (p + n)..(K + 1)
    BY <2>1, AfterEnds
  <2> QED BY <1>0, <2>2
<1>3. ASSUME NEW e \in Nat, e \in S PROVE e + 1 \in S
  <2> SUFFICES ASSUME NEW p \in a..b, NEW n \in Nat, b - p = e + 1, n # 0 PROVE Same(p, n)
    BY <1>1
  <2>1. /\ p \in 1..K /\ p + 1 \in a..b /\ b - (p + 1) = e /\ p \in a..(b - 1)
        /\ p + d \in 1..L /\ p + d + 1 = p + 1 + d
    BY <1>0
  <2>2. m[p + d] = w[p]
    BY <2>1
  <2> DEFINE k == n - 1 + Inside(w[p])
  <2>3. k \in Nat
    BY <1>0, <2>1
  <2>4. After(w, p, n) = After(w, p + 1, k)
    <3>1. p \in 1..(Len(w) + 1) /\ p <= Len(w) /\ n # 0 /\ n \in Nat
      BY <1>0, <2>1
    <3> QED BY ONLY <3>1, Counted(w), AfterIs
  <2>5. After(m, p + d, n) = After(m, p + d + 1, n - 1 + Inside(m[p + d]))
    <3> DEFINE q == p + d
    <3>1. q \in 1..(Len(m) + 1) /\ q <= Len(m) /\ n # 0 /\ n \in Nat
      BY <1>0, <2>1
    <3> HIDE DEF q
    <3>2. After(m, q, n) = After(m, q + 1, n - 1 + Inside(m[q]))
      BY ONLY <3>1, Counted(m), AfterIs
    <3> QED BY ONLY <3>2 DEF q
  <2>6. After(m, p + d, n) = After(m, p + 1 + d, k)
    BY ONLY <2>1, <2>2, <2>5
  <2> HIDE DEF k
  <2>7. Same(p + 1, k)
    BY <1>3, <2>1, <2>3
  <2> QED BY ONLY <2>4, <2>6, <2>7
<1>4. Nat \subseteq S
  BY <1>2, <1>3, SetInduction
<1> SUFFICES ASSUME NEW p \in a..b, NEW n \in Nat PROVE Same(p, n)
  OBVIOUS
<1>5. b - p \in S
  <2>1. b - p \in Nat
    BY <1>0
  <2> HIDE DEF S
  <2> QED BY ONLY <1>4, <2>1
<1> QED BY <1>5

\* A whole sequence in another one, behind the first d.
Copied(w, m, d) ==
  /\ Counted(w) /\ Counted(m) /\ d \in Nat /\ Len(w) + d <= Len(m)
  /\ \A j \in 1..Len(w) : m[j + d] = w[j]

LEMMA AfterCopied ==
  ASSUME NEW w, NEW m, NEW d, Copied(w, m, d)
  PROVE  \A p \in 1..(Len(w) + 1), n \in Nat :
           After(w, p, n) # 0 => After(m, p + d, n) = After(w, p, n) + d
<1> DEFINE b == Len(w) + 1
           a == 1
<1> USE DEF Copied
<1>1. Len(w) \in Nat /\ Len(m) \in Nat
  BY DEF Counted
<1>2. Alike(w, m, a, b, d)
  BY <1>1 DEF Alike
<1> HIDE DEF a, b
<1>3. \A p \in a..b, n \in Nat :
        After(w, p, n) # 0 /\ After(w, p, n) <= b => After(m, p + d, n) = After(w, p, n) + d
  BY ONLY <1>2, AfterMoved
<1>4. \A p \in 1..b, n \in Nat : After(w, p, n) = 0 \/ After(w, p, n) \in (p + n)..b
  BY AfterEnds DEF b
<1>5. \A p \in 1..b, n \in Nat : After(w, p, n) # 0 => After(m, p + d, n) = After(w, p, n) + d
  BY <1>1, <1>3, <1>4 DEF a, b
<1> QED BY <1>5 DEF b

-----------------------------------------------------------------------------
(* What the application and the signer write                                *)

\* A message's tokens: the application's, and signatures of what was signed and of nothing.
Tokens(content) == Token \cup {Signature(content), Signature(<<>>)}

LEMMA TokenIs ==
  ASSUME NEW content, NEW t \in Tokens(content)
  PROVE  /\ Inside(t) \in Nat
         /\ t[1] = "map" => t = Map(t[2]) /\ t[2] \in Nat
         /\ t[1] = "int" => t = Num(t[2])
<1>1. CASE t \in {"int"} \X Int
  BY <1>1 DEF Inside, Num
<1>2. CASE t \in {"map"} \X Nat
  BY <1>2 DEF Inside, Map
<1>3. CASE t \in {Str(x) : x \in Strings}
  <2>1. t[1] = "str"
    <3>1. \A y : Str(y)[1] = "str"
      BY DEF Str
    <3> QED BY <1>3, <3>1
  <2> QED BY <2>1 DEF Inside
<1>4. CASE t \in {Signature(content), Signature(<<>>)}
  <2>1. t[1] = "str"
    <3>1. \A c : Signature(c)[1] = "str"
      BY DEF Signature
    <3> QED BY <1>4, <3>1
  <2> QED BY <2>1 DEF Inside
<1> QED BY <1>1, <1>2, <1>3, <1>4 DEF Tokens, Token

LEMMA TokensCount ==
  ASSUME NEW content, NEW s \in Seq(Tokens(content))
  PROVE  Counted(s)
<1>1. Len(s) \in Nat /\ \A q \in 1..Len(s) : s[q] \in Tokens(content)
  BY ElementOfSeq
<1> QED BY <1>1, TokenIs DEF Counted

LEMMA TokenCounts ==
  ASSUME NEW s \in Seq(Token)
  PROVE  Counted(s) /\ \A content : s \in Seq(Tokens(content))
<1>1. \A content : s \in Seq(Tokens(content))
  BY DEF Tokens
<1> QED BY <1>1, TokensCount

\* An entry behind other tokens: a label, that is no map, and one item.
LEMMA EntryBehind ==
  ASSUME NEW u \in Seq(Token), NEW l \in Token, l[1] # "map",
         NEW v \in Seq(Token), After(v, 1, 1) = Len(v) + 1
  PROVE  LET m == Join(Join(u, <<l>>), v)
         IN  /\ m \in Seq(Token) /\ Len(m) = Len(u) + 1 + Len(v)
             /\ \A j \in 1..Len(u) : m[j] = u[j]
             /\ m[Len(u) + 1] = l
             /\ After(m, Len(u) + 1, 2) = Len(m) + 1
<1> DEFINE k == <<l>>
           m == Join(Join(u, k), v)
           a == Len(u)
           b == Len(v)
<1>1. k \in Seq(Token) /\ Len(k) = 1 /\ k[1] = l
  OBVIOUS
<1> HIDE DEF k
<1>2. Join(u, k) \in Seq(Token) /\ Len(Join(u, k)) = a + 1
  BY <1>1, JoinTwo
<1>3. m \in Seq(Token) /\ Len(m) = a + 1 + b
  BY <1>2, JoinTwo
<1>4. a \in Nat /\ b \in Nat
  OBVIOUS
<1>5. \A j \in 1..(a + 1) : Join(u, k)[j] = IF j <= a THEN u[j] ELSE k[j - a]
  BY <1>1, JoinHas
<1>6. \A j \in 1..(a + 1 + b) : m[j] = IF j <= a + 1 THEN Join(u, k)[j] ELSE v[j - (a + 1)]
  <2> DEFINE x == Join(u, k)
  <2>1. x \in Seq(Token) /\ Len(x) = a + 1
    BY <1>2
  <2> HIDE DEF x
  <2>2. \A j \in 1..(Len(x) + Len(v)) : Join(x, v)[j] = IF j <= Len(x) THEN x[j] ELSE v[j - Len(x)]
    BY ONLY <2>1, v \in Seq(Token), JoinHas
  <2> QED BY ONLY <2>1, <2>2 DEF x
<1> HIDE DEF m, a, b
<1>7. \A j \in 1..a : m[j] = u[j]
  BY <1>4, <1>5, <1>6
<1>8. m[a + 1] = l
  BY <1>1, <1>4, <1>5, <1>6
<1>9. \A j \in 1..b : m[j + (a + 1)] = v[j]
  <2> SUFFICES ASSUME NEW j \in 1..b PROVE m[j + (a + 1)] = v[j]
    OBVIOUS
  <2> DEFINE z == j + (a + 1)
  <2>1. z \in 1..(a + 1 + b) /\ ~(z <= a + 1) /\ z - (a + 1) = j
    BY <1>4
  <2> HIDE DEF z
  <2>2. m[z] = v[j]
    BY ONLY <1>6, <2>1
  <2> QED BY ONLY <2>2 DEF z
<1>10. After(m, a + 1, 2) = After(m, a + 2, 1)
  <2>1. Counted(m) /\ a + 1 \in 1..(Len(m) + 1) /\ a + 1 <= Len(m) /\ 2 \in Nat /\ 2 # 0 /\ a + 1 + 1 = a + 2
    BY <1>3, <1>4, TokenCounts
  <2>2. Inside(m[a + 1]) = 0 /\ 2 - 1 + 0 = 1
    BY <1>8 DEF Inside
  <2>3. After(m, a + 1, 2) = After(m, a + 1 + 1, 2 - 1 + Inside(m[a + 1]))
    BY ONLY <2>1, AfterIs
  <2> QED BY ONLY <2>1, <2>2, <2>3
<1>11. After(m, 1 + (a + 1), 1) = b + 1 + (a + 1)
  <2> DEFINE d == a + 1
  <2>1. Copied(v, m, d)
    BY <1>3, <1>4, <1>9, TokenCounts DEF b, Copied
  <2> HIDE DEF d
  <2>2. \A p \in 1..(Len(v) + 1), n \in Nat : After(v, p, n) # 0 => After(m, p + d, n) = After(v, p, n) + d
    BY ONLY <2>1, AfterCopied
  <2>3. After(v, 1, 1) # 0 /\ 1 \in 1..(Len(v) + 1) /\ 1 \in Nat
    BY <1>4 DEF b
  <2>4. After(m, 1 + d, 1) = Len(v) + 1 + d
    BY ONLY <2>2, <2>3, After(v, 1, 1) = Len(v) + 1
  <2> QED BY ONLY <2>4 DEF d, b
<1>12. After(m, a + 1, 2) = Len(m) + 1
  BY <1>3, <1>4, <1>10, <1>11
<1> QED BY <1>3, <1>7, <1>8, <1>12 DEF m, a, b, k

\* The labels an application uses.
Labels == {l \in Token : l[1] # "map" /\ ~IsNum(l, APP_SIGNATURE_LABEL)}

\* n entries, each with such a label.
Entries(s, n) ==
  /\ s \in Seq(Token)
  /\ After(s, 1, 2 * n) = Len(s) + 1
  /\ \A i \in 0..(n - 1) : After(s, 1, 2 * i) \in 1..Len(s) /\ s[After(s, 1, 2 * i)] \in Labels

LEMMA EntriesMore ==
  ASSUME NEW n \in Nat, NEW u, Entries(u, n), NEW l \in Labels,
         NEW v \in Seq(Token), After(v, 1, 1) = Len(v) + 1
  PROVE  Entries(Join(Join(u, <<l>>), v), n + 1)
<1> DEFINE m == Join(Join(u, <<l>>), v)
           a == Len(u)
<1>1. u \in Seq(Token) /\ a \in Nat /\ Len(v) \in Nat /\ l \in Token /\ l[1] # "map"
  BY DEF Entries, Labels
<1>2. /\ m \in Seq(Token) /\ Len(m) = a + 1 + Len(v)
      /\ \A j \in 1..a : m[j] = u[j]
      /\ m[a + 1] = l
      /\ After(m, a + 1, 2) = Len(m) + 1
  BY <1>1, EntryBehind
<1> HIDE DEF m
<1>3. Counted(u) /\ Counted(m)
  BY <1>1, <1>2, TokenCounts
<1>4. \A i \in Nat : After(u, 1, i) # 0 => After(m, 1, i) = After(u, 1, i)
  <2> DEFINE d == 0
  <2>1. Copied(u, m, d)
    BY <1>1, <1>2, <1>3 DEF Copied
  <2> HIDE DEF d
  <2>2. \A p \in 1..(Len(u) + 1), i \in Nat : After(u, p, i) # 0 => After(m, p + d, i) = After(u, p, i) + d
    BY ONLY <2>1, AfterCopied
  <2>3. \A i \in Nat : After(u, 1, i) # 0 => After(m, 1 + d, i) = After(u, 1, i) + d
    BY <1>1, <2>2
  <2>4. \A i \in Nat : After(u, 1, i) = 0 \/ After(u, 1, i) \in Nat
    BY <1>1, <1>3, AfterEnds
  <2> QED BY <2>3, <2>4 DEF d
<1>5. After(m, 1, 2 * n) = a + 1
  <2>1. 2 * n \in Nat /\ a + 1 # 0 /\ After(u, 1, 2 * n) = a + 1
    BY <1>1 DEF Entries
  <2> QED BY <1>4, <2>1
<1>6. After(m, 1, 2 * n + 2) = Len(m) + 1
  <2>1. 2 * n \in Nat /\ 2 \in Nat /\ 1 \in 1..(Len(m) + 1) /\ a + 1 # 0
    BY <1>1, <1>2
  <2> DEFINE k == 2 * n
  <2> HIDE DEF k
  <2>2. After(m, 1, k + 2) = IF After(m, 1, k) = 0 THEN 0 ELSE After(m, After(m, 1, k), 2)
    BY <1>3, <2>1, AfterSum DEF k
  <2> QED BY <1>2, <1>5, <2>1, <2>2 DEF k
<1>7. ASSUME NEW i \in 0..n
      PROVE  After(m, 1, 2 * i) \in 1..Len(m) /\ m[After(m, 1, 2 * i)] \in Labels
  <2>1. CASE i = n
    BY <1>1, <1>2, <1>5, <2>1
  <2>2. CASE i # n
    <3>1. i \in 0..(n - 1) /\ 2 * i \in Nat
      BY <2>2
    <3>2. After(u, 1, 2 * i) \in 1..a /\ u[After(u, 1, 2 * i)] \in Labels
      BY <3>1 DEF Entries
    <3>3. After(m, 1, 2 * i) = After(u, 1, 2 * i)
      BY <1>1, <1>4, <3>1, <3>2
    <3> QED BY <1>1, <1>2, <3>2, <3>3
  <2> QED BY <2>1, <2>2
<1>8. 2 * (n + 1) = 2 * n + 2 /\ n + 1 - 1 = n
  OBVIOUS
<1>9. Entries(m, n + 1)
  BY <1>2, <1>6, <1>7, <1>8 DEF Entries
<1> QED BY <1>9 DEF m

\* What is written up to the n-th entry.
Flat(es, f, n) == IF n = 0 THEN <<>> ELSE Join(Join(f[n - 1], <<es[n].label>>), es[n].value)

LEMMA FlatExists ==
  ASSUME NEW es, Len(es) \in Nat
  PROVE  \E f : f = [n \in 0..Len(es) |-> Flat(es, f, n)]
<1> DEFINE S == {k \in Nat : \E f : f = [n \in 0..k |-> Flat(es, f, n)]}
<1>1. 0 \in S
  <2> DEFINE f == [n \in 0..0 |-> <<>>]
  <2>1. f = [n \in 0..0 |-> Flat(es, f, n)]
    BY DEF Flat
  <2> QED BY <2>1
<1>2. ASSUME NEW k \in Nat, k \in S PROVE k + 1 \in S
  <2>1. PICK g : g = [n \in 0..k |-> Flat(es, g, n)]
    BY <1>2
  <2> DEFINE D == 0..(k + 1)
             h == [n \in D |-> IF n = k + 1 THEN Flat(es, g, n) ELSE g[n]]
  <2>2. ASSUME NEW n \in D PROVE h[n] = Flat(es, h, n)
    <3>1. h[n] = Flat(es, g, n)
      <4>1. CASE n = k + 1
        BY <4>1
      <4>2. CASE n # k + 1
        <5>1. n \in 0..k
          BY <4>2
        <5> QED BY <2>1, <4>2, <5>1
      <4> QED BY <4>1, <4>2
    <3>2. n # 0 => h[n - 1] = g[n - 1]
      OBVIOUS
    <3> HIDE DEF h
    <3> QED BY <3>1, <3>2 DEF Flat
  <2>3. h = [n \in D |-> h[n]]
    OBVIOUS
  <2> HIDE DEF h
  <2>4. h = [n \in D |-> Flat(es, h, n)]
    BY <2>2, <2>3
  <2> QED BY <2>4
<1>3. Nat \subseteq S
  BY <1>1, <1>2, SetInduction
<1> QED BY <1>3

LEMMA FlattenRight ==
  ASSUME NEW es \in Contents
  PROVE  Entries(Flatten(es), Len(es))
<1> DEFINE f == CHOOSE g : g = [n \in 0..Len(es) |-> Flat(es, g, n)]
           S == {n \in Nat : n <= Len(es) => Entries(f[n], n)}
<1>1. /\ Len(es) \in Nat
      /\ \A i \in 1..Len(es) : es[i].label \in Labels /\ es[i].value \in Seq(Token)
                              /\ After(es[i].value, 1, 1) = Len(es[i].value) + 1
  <2>1. es \in Seq([label : Token, value : Seq(Token)])
    BY ContentsAssumption
  <2> DEFINE R == [label : Token, value : Seq(Token)]
  <2>3. es \in Seq(R)
    BY <2>1
  <2> HIDE DEF R
  <2>4. Len(es) \in Nat /\ \A i \in 1..Len(es) : es[i] \in R
    BY ONLY <2>3, ElementOfSeq
  <2>2. Len(es) \in Nat /\ \A i \in 1..Len(es) : es[i] \in [label : Token, value : Seq(Token)]
    BY <2>4 DEF R
  <2> QED BY <2>2, ContentsAssumption DEF Labels
<1>2. f = [n \in 0..Len(es) |-> Flat(es, f, n)]
  BY <1>1, FlatExists
<1>3. Flatten(es) = f[Len(es)]
  BY DEF Flatten, Flat, Join
<1> HIDE DEF f
<1>4. 0 \in S
  <2>1. f[0] = <<>>
    BY <1>1, <1>2 DEF Flat
  <2>2. <<>> \in Seq(Token) /\ Len(<<>>) = 0
    OBVIOUS
  <2>3. Counted(<<>>)
    BY <2>2, TokenCounts
  <2>4. After(<<>>, 1, 0) = 1
    BY <2>2, <2>3, AfterIs
  <2>5. Entries(<<>>, 0)
    BY <2>2, <2>4 DEF Entries
  <2> QED BY <2>1, <2>5
<1>5. ASSUME NEW n \in Nat, n \in S PROVE n + 1 \in S
  <2> SUFFICES ASSUME n + 1 <= Len(es) PROVE Entries(f[n + 1], n + 1)
    OBVIOUS
  <2>1. n + 1 \in 1..Len(es) /\ n + 1 \in 0..Len(es) /\ n + 1 # 0 /\ n + 1 - 1 = n /\ n <= Len(es)
    BY <1>1
  <2>2. f[n + 1] = Join(Join(f[n], <<es[n + 1].label>>), es[n + 1].value)
    <3>1. f[n + 1] = Flat(es, f, n + 1)
      BY ONLY <1>2, <2>1
    <3> QED BY ONLY <2>1, <3>1 DEF Flat
  <2>3. Entries(f[n], n)
    BY <1>5, <2>1
  <2> QED BY <1>1, <2>1, <2>2, <2>3, EntriesMore
<1>6. Len(es) \in S
  <2>1. Nat \subseteq S
    BY <1>4, <1>5, SetInduction
  <2> HIDE DEF S
  <2> QED BY <1>1, <2>1
<1> QED BY <1>1, <1>3, <1>6

\* What is written up to the signature map, what is signed, and what is sent.
Opening(es)  == <<Map(Len(es) + 1)>> \o Flatten(es)
Labelled(es) == Opening(es) \o <<Num(APP_SIGNATURE_LABEL)>>
Signed(es)   == Labelled(es) \o CsfMap
Place(es)    == Len(Labelled(es)) + 1

Written(es, sig) == Signed(es) \o <<Num(SIGNATURE_LABEL), sig>>
Sent(es) == [Written(es, Signature(Signed(es))) EXCEPT ![Place(es)] = Map(3)]

LEMMA TokensHere ==
  /\ \A n \in Int : Num(n) \in Token /\ Num(n)[1] = "int" /\ Num(n)[2] = n /\ Inside(Num(n)) = 0
  /\ \A n \in Nat : Map(n) \in Token /\ Map(n)[1] = "map" /\ Map(n)[2] = n /\ Inside(Map(n)) = 2 * n
  /\ \A x \in Strings : Str(x) \in Token /\ Str(x)[1] = "str" /\ Inside(Str(x)) = 0
<1>1. \A n \in Int : Num(n) \in {"int"} \X Int /\ Num(n)[1] = "int" /\ Num(n)[2] = n
  BY DEF Num
<1>2. \A n \in Nat : Map(n) \in {"map"} \X Nat /\ Map(n)[1] = "map" /\ Map(n)[2] = n
  BY DEF Map
<1>3. \A x \in Strings : Str(x) \in {Str(y) : y \in Strings} /\ Str(x)[1] = "str"
  BY DEF Str
<1>4. /\ \A n \in Int : Num(n) \in Token
      /\ \A n \in Nat : Map(n) \in Token
      /\ \A x \in Strings : Str(x) \in Token
  BY ONLY <1>1, <1>2, <1>3, Zenon DEF Token
<1> QED BY ONLY <1>1, <1>2, <1>3, <1>4 DEF Inside

LEMMA CsfMapHas ==
  /\ CsfMap \in Seq(Token) /\ Len(CsfMap) = 11
  /\ CsfMap[1] = Map(2) /\ CsfMap[2] = Num(1) /\ CsfMap[3] = Num(-8) /\ CsfMap[4] = Num(4)
  /\ CsfMap[5] = Map(3) /\ CsfMap[6] = Num(1) /\ CsfMap[7] = Num(1) /\ CsfMap[8] = Num(-1)
  /\ CsfMap[9] = Num(6) /\ CsfMap[10] = Num(-2) /\ CsfMap[11] = Str("key")
<1>2. "key" \in Strings
  BY DEF Strings
<1>1. (\A n \in Int : Num(n) \in Token) /\ (\A n \in Nat : Map(n) \in Token) /\ Str("key") \in Token
  BY <1>2, TokensHere, Zenon
<1> QED BY <1>1 DEF CsfMap, ALGORITHM_LABEL, EDDSA_ALG, PUBLIC_KEY_LABEL, KEY_TYPE_LABEL, KEY_TYPE_OKP,
                    OKP_CRV_LABEL, CRV_ED25519, OKP_X_LABEL

\* The places of the signature map and the key map.
LEMMA CsfMapRead ==
  /\ After(CsfMap, 2, 2) = 4 /\ After(CsfMap, 2, 4) = 12
  /\ After(CsfMap, 6, 2) = 8 /\ After(CsfMap, 6, 4) = 10 /\ After(CsfMap, 6, 6) = 12
<1> DEFINE k == CsfMap
<1>1. k \in Seq(Token) /\ Len(k) = 11
  BY CsfMapHas
<1>2. /\ \A q \in {2, 3, 4, 6, 7, 8, 9, 10, 11} : Inside(k[q]) = 0
      /\ Inside(k[5]) = 6
  <2>1. \A n \in Int : Inside(Num(n)) = 0
    BY TokensHere, Zenon
  <2>2. Inside(Map(3)) = 6
    <3>1. Inside(Map(3)) = 2 * 3
      BY TokensHere
    <3> QED BY <3>1
  <2>3. Inside(Str("key")) = 0
    <3>1. "key" \in Strings
      BY DEF Strings
    <3> QED BY <3>1, TokensHere, Zenon
  <2> QED BY <2>1, <2>2, <2>3, CsfMapHas
<1>3. Counted(k)
  BY <1>1, TokenCounts
<1> HIDE DEF k
<1>4. \A q \in 1..12 : After(k, q, 0) = q
  <2>1. \A q \in 1..(Len(k) + 1) : After(k, q, 0) = q
    BY ONLY <1>3, AfterIs
  <2> QED BY ONLY <1>1, <2>1
<1>5. \A q \in {2, 3, 4, 6, 7, 8, 9, 10, 11}, n \in Nat : After(k, q, n + 1) = After(k, q + 1, n)
  <2> SUFFICES ASSUME NEW q \in {2, 3, 4, 6, 7, 8, 9, 10, 11}, NEW n \in Nat
               PROVE  After(k, q, n + 1) = After(k, q + 1, n)
    OBVIOUS
  <2>1. q \in 1..(Len(k) + 1) /\ q <= Len(k) /\ n + 1 \in Nat /\ n + 1 # 0 /\ n + 1 - 1 + 0 = n
    BY <1>1
  <2>2. After(k, q, n + 1) = After(k, q + 1, n + 1 - 1 + Inside(k[q]))
    BY ONLY <1>3, <2>1, AfterIs
  <2> QED BY ONLY <1>2, <2>1, <2>2
<1>6. After(k, 5, 1) = After(k, 6, 6)
  <2>1. 5 \in 1..(Len(k) + 1) /\ 5 <= Len(k) /\ 1 \in Nat /\ 1 # 0 /\ 1 - 1 + 6 = 6 /\ 5 + 1 = 6
    BY <1>1
  <2>2. After(k, 5, 1) = After(k, 5 + 1, 1 - 1 + Inside(k[5]))
    BY ONLY <1>3, <2>1, AfterIs
  <2> QED BY ONLY <1>2, <2>1, <2>2
<1>7. /\ After(k, 2, 2) = After(k, 3, 1) /\ After(k, 3, 1) = After(k, 4, 0)
      /\ After(k, 4, 2) = After(k, 5, 1)
      /\ After(k, 6, 2) = After(k, 7, 1) /\ After(k, 7, 1) = After(k, 8, 0)
      /\ After(k, 8, 2) = After(k, 9, 1) /\ After(k, 9, 1) = After(k, 10, 0)
      /\ After(k, 10, 2) = After(k, 11, 1) /\ After(k, 11, 1) = After(k, 12, 0)
  <2>1. \A q \in {2, 3, 4, 6, 7, 8, 9, 10, 11} : After(k, q, 2) = After(k, q + 1, 1) /\ After(k, q, 1) = After(k, q + 1, 0)
    <3> SUFFICES ASSUME NEW q \in {2, 3, 4, 6, 7, 8, 9, 10, 11}
                 PROVE  After(k, q, 1 + 1) = After(k, q + 1, 1) /\ After(k, q, 0 + 1) = After(k, q + 1, 0)
      OBVIOUS
    <3> QED BY ONLY <1>5
  <2> QED BY ONLY <2>1
<1>8. /\ After(k, 2, 2) = 4 /\ After(k, 6, 2) = 8 /\ After(k, 8, 2) = 10 /\ After(k, 10, 2) = 12
  BY ONLY <1>4, <1>7
<1>9. \A p \in 1..12, n, i \in Nat :
        After(k, p, n + i) = IF After(k, p, n) = 0 THEN 0 ELSE After(k, After(k, p, n), i)
  <2>1. \A p \in 1..(Len(k) + 1), n, i \in Nat :
          After(k, p, n + i) = IF After(k, p, n) = 0 THEN 0 ELSE After(k, After(k, p, n), i)
    BY ONLY <1>3, AfterSum
  <2>2. Len(k) + 1 = 12
    BY <1>1
  <2> HIDE DEF k
  <2> QED BY ONLY <2>1, <2>2
<1>10. After(k, 6, 2 + 2) = 10
  BY ONLY <1>8, <1>9
<1>11. After(k, 6, 4) = 10
  BY <1>10
<1>12. After(k, 6, 4 + 2) = 12
  BY ONLY <1>8, <1>9, <1>11
<1>13. After(k, 6, 6) = 12
  BY <1>12
<1>14. After(k, 2, 2 + 2) = 12
  BY ONLY <1>6, <1>7, <1>8, <1>9, <1>13
<1>15. After(k, 2, 4) = 12
  BY <1>14
<1> QED BY ONLY <1>8, <1>11, <1>13, <1>15 DEF k

\* What is signed, token by token.
LEMMA SignedHas ==
  ASSUME NEW es \in Contents
  PROVE  LET d == Signed(es)
             e == Flatten(es)
             q == Place(es)
         IN  /\ Len(es) \in Nat /\ Len(e) \in Nat /\ q = Len(e) + 3
             /\ d \in Seq(Token) /\ Len(d) = q + 10
             /\ d[1] = Map(Len(es) + 1) /\ d[q - 1] = Num(-1)
             /\ Copied(e, d, 1) /\ Copied(CsfMap, d, q - 1)
<1> DEFINE e == Flatten(es)
           k == CsfMap
           h == <<Map(Len(es) + 1)>>
           l == <<Num(-1)>>
           a == Join(h, e)
           b == Join(a, l)
           d == Join(b, k)
           n == Len(e)
<1>1. Len(es) \in Nat
  <2>1. es \in Seq([label : Token, value : Seq(Token)])
    BY ContentsAssumption
  <2> QED BY <2>1
<1>2. e \in Seq(Token) /\ n \in Nat
  BY FlattenRight DEF Entries
<1>3. /\ h \in Seq(Token) /\ Len(h) = 1 /\ h[1] = Map(Len(es) + 1)
      /\ l \in Seq(Token) /\ Len(l) = 1 /\ l[1] = Num(-1)
  <2>1. Map(Len(es) + 1) \in Token /\ Num(-1) \in Token
    BY <1>1, TokensHere
  <2> QED BY <2>1
<1>4. k \in Seq(Token) /\ Len(k) = 11
  BY CsfMapHas
<1>5. Signed(es) = d /\ Place(es) = Len(b) + 1
  BY DEF Signed, Place, Labelled, Opening, Join, APP_SIGNATURE_LABEL
<1> HIDE DEF e, k, h, l
<1>6. /\ a \in Seq(Token) /\ Len(a) = 1 + n
      /\ \A j \in 1..(1 + n) : a[j] = IF j <= 1 THEN h[j] ELSE e[j - 1]
  <2>1. a \in Seq(Token) /\ Len(a) = Len(h) + n
    BY <1>2, <1>3, JoinTwo
  <2>2. \A j \in 1..(Len(h) + Len(e)) : a[j] = IF j <= Len(h) THEN h[j] ELSE e[j - Len(h)]
    BY ONLY <1>2, <1>3, JoinHas
  <2> QED BY <1>3, <2>1, <2>2
<1> HIDE DEF a
<1>7. /\ b \in Seq(Token) /\ Len(b) = n + 2
      /\ \A j \in 1..(n + 2) : b[j] = IF j <= n + 1 THEN a[j] ELSE l[j - (n + 1)]
  <2>1. b \in Seq(Token) /\ Len(b) = Len(a) + Len(l)
    BY <1>3, <1>6, JoinTwo
  <2>2. \A j \in 1..(Len(a) + Len(l)) : b[j] = IF j <= Len(a) THEN a[j] ELSE l[j - Len(a)]
    BY ONLY <1>3, <1>6, JoinHas
  <2>3. Len(a) + Len(l) = n + 2 /\ Len(a) = n + 1
    BY ONLY <1>2, <1>3, <1>6
  <2> QED BY ONLY <2>1, <2>2, <2>3
<1> HIDE DEF b
<1>8. /\ d \in Seq(Token) /\ Len(d) = n + 13
      /\ \A j \in 1..(n + 13) : d[j] = IF j <= n + 2 THEN b[j] ELSE k[j - (n + 2)]
  <2>1. d \in Seq(Token) /\ Len(d) = Len(b) + Len(k)
    BY <1>4, <1>7, JoinTwo
  <2>2. \A j \in 1..(Len(b) + Len(k)) : d[j] = IF j <= Len(b) THEN b[j] ELSE k[j - Len(b)]
    BY ONLY <1>4, <1>7, JoinHas
  <2>3. Len(b) + Len(k) = n + 13 /\ Len(b) = n + 2
    BY ONLY <1>2, <1>4, <1>7
  <2> QED BY ONLY <2>1, <2>2, <2>3
<1> HIDE DEF d, n
<1>9. d[1] = h[1]
  <2>1. 1 \in 1..(n + 13) /\ 1 \in 1..(n + 2) /\ 1 <= n + 2 /\ 1 \in 1..(1 + n) /\ 1 <= n + 1
    BY ONLY <1>2
  <2> QED BY ONLY <1>6, <1>7, <1>8, <2>1
<1>10. d[n + 2] = l[1]
  <2> DEFINE z == n + 2
  <2>1. z \in 1..(n + 13) /\ z \in 1..(n + 2) /\ z <= n + 2 /\ ~(z <= n + 1) /\ z - (n + 1) = 1
    BY ONLY <1>2
  <2> HIDE DEF z
  <2>2. d[z] = l[1]
    BY ONLY <1>7, <1>8, <2>1
  <2> QED BY ONLY <2>2 DEF z
<1>11. Copied(e, d, 1)
  <2>1. Counted(e) /\ Counted(d)
    BY <1>2, <1>8, TokenCounts
  <2>2. ASSUME NEW j \in 1..n PROVE d[j + 1] = e[j]
    <3> DEFINE z == j + 1
    <3>1. /\ z \in 1..(n + 13) /\ z \in 1..(n + 2) /\ z <= n + 2 /\ z <= n + 1
          /\ z \in 1..(1 + n) /\ ~(z <= 1) /\ z - 1 = j
      BY ONLY <1>2, j \in 1..n
    <3> HIDE DEF z
    <3>2. d[z] = e[j]
      BY ONLY <1>6, <1>7, <1>8, <3>1
    <3> QED BY ONLY <3>2 DEF z
  <2> QED BY <1>2, <1>8, <2>1, <2>2 DEF Copied, n
<1>12. Copied(k, d, n + 2)
  <2>1. Counted(k) /\ Counted(d)
    BY <1>4, <1>8, TokenCounts
  <2>2. ASSUME NEW j \in 1..11 PROVE d[j + (n + 2)] = k[j]
    <3> DEFINE z == j + (n + 2)
    <3>1. z \in 1..(n + 13) /\ ~(z <= n + 2) /\ z - (n + 2) = j
      BY ONLY <1>2, j \in 1..11
    <3> HIDE DEF z
    <3>2. d[z] = k[j]
      BY ONLY <1>8, <3>1
    <3> QED BY ONLY <3>2 DEF z
  <2> QED BY <1>2, <1>4, <1>8, <2>1, <2>2 DEF Copied
<1>13. Place(es) = n + 3 /\ n + 3 - 1 = n + 2 /\ n + 13 = n + 3 + 10
  BY ONLY <1>2, <1>5, <1>7
<1> QED BY ONLY <1>1, <1>2, <1>3, <1>5, <1>8, <1>9, <1>10, <1>11, <1>12, <1>13 DEF e, k, n

LEMMA SignedRead ==
  ASSUME NEW es \in Contents
  PROVE  LET d == Signed(es)
             q == Place(es)
         IN  /\ After(d, 2, 2 * Len(es)) = q - 1
             /\ \A i \in 0..(Len(es) - 1) :
                  After(d, 2, 2 * i) \in 2..(q - 2) /\ d[After(d, 2, 2 * i)] \in Labels
             /\ After(d, q + 1, 2) = q + 3 /\ After(d, q + 1, 4) = q + 11
             /\ After(d, q + 5, 2) = q + 7 /\ After(d, q + 5, 4) = q + 9 /\ After(d, q + 5, 6) = q + 11
<1> DEFINE d == Signed(es)
           e == Flatten(es)
           n == Len(es)
           k == CsfMap
           q == Place(es)
<1>1. /\ n \in Nat /\ Len(e) \in Nat /\ q = Len(e) + 3
      /\ Copied(e, d, 1) /\ Copied(k, d, q - 1)
  BY SignedHas
<1>2. Entries(e, n)
  BY FlattenRight
<1>3. Len(k) = 11
  BY CsfMapHas
<1>4. /\ After(k, 2, 2) = 4 /\ After(k, 2, 4) = 12
      /\ After(k, 6, 2) = 8 /\ After(k, 6, 4) = 10 /\ After(k, 6, 6) = 12
  BY CsfMapRead
<1> HIDE DEF d, e, n, k, q
<1>5. \A i \in Nat : After(e, 1, i) # 0 => After(d, 2, i) = After(e, 1, i) + 1
  <2> DEFINE c == 1
  <2>1. Copied(e, d, c) /\ 1 \in 1..(Len(e) + 1)
    BY <1>1
  <2> HIDE DEF c
  <2>2. \A p \in 1..(Len(e) + 1), i \in Nat : After(e, p, i) # 0 => After(d, p + c, i) = After(e, p, i) + c
    BY ONLY <2>1, AfterCopied
  <2>3. \A i \in Nat : After(e, 1, i) # 0 => After(d, 1 + c, i) = After(e, 1, i) + c
    BY ONLY <2>1, <2>2
  <2> QED BY <2>3 DEF c
<1>6. After(d, 2, 2 * n) = q - 1
  <2>1. 2 * n \in Nat /\ After(e, 1, 2 * n) = Len(e) + 1 /\ Len(e) + 1 # 0 /\ Len(e) + 1 + 1 = q - 1
    BY <1>1, <1>2 DEF Entries
  <2> QED BY ONLY <1>5, <2>1
<1>7. ASSUME NEW i \in 0..(n - 1)
      PROVE  After(d, 2, 2 * i) \in 2..(q - 2) /\ d[After(d, 2, 2 * i)] \in Labels
  <2> DEFINE p == After(e, 1, 2 * i)
  <2>1. p \in 1..Len(e) /\ e[p] \in Labels
    BY <1>2 DEF Entries
  <2>2. 2 * i \in Nat /\ p # 0
    BY <1>1, <2>1
  <2>3. After(d, 2, 2 * i) = p + 1
    BY ONLY <1>5, <2>2
  <2> HIDE DEF p
  <2>4. d[p + 1] = e[p]
    BY <1>1, <2>1 DEF Copied
  <2>5. p + 1 \in 2..(q - 2)
    BY <1>1, <2>1
  <2> QED BY ONLY <2>1, <2>3, <2>4, <2>5
<1>8. \A p \in 1..12, i \in Nat : After(k, p, i) # 0 => After(d, p + (q - 1), i) = After(k, p, i) + (q - 1)
  <2> DEFINE c == q - 1
  <2>1. Copied(k, d, c) /\ Len(k) + 1 = 12
    BY <1>1, <1>3
  <2> HIDE DEF c
  <2>2. \A p \in 1..(Len(k) + 1), i \in Nat : After(k, p, i) # 0 => After(d, p + c, i) = After(k, p, i) + c
    BY ONLY <2>1, AfterCopied
  <2> QED BY ONLY <2>1, <2>2 DEF c
<1>9. /\ After(d, 2 + (q - 1), 2) = 4 + (q - 1) /\ After(d, 2 + (q - 1), 4) = 12 + (q - 1)
      /\ After(d, 6 + (q - 1), 2) = 8 + (q - 1) /\ After(d, 6 + (q - 1), 4) = 10 + (q - 1)
      /\ After(d, 6 + (q - 1), 6) = 12 + (q - 1)
  BY ONLY <1>4, <1>8
<1>10. q \in Nat /\ 2 + (q - 1) = q + 1 /\ 4 + (q - 1) = q + 3 /\ 12 + (q - 1) = q + 11
       /\ 6 + (q - 1) = q + 5 /\ 8 + (q - 1) = q + 7 /\ 10 + (q - 1) = q + 9
  BY ONLY <1>1
<1>11. /\ After(d, q + 1, 2) = q + 3 /\ After(d, q + 1, 4) = q + 11
       /\ After(d, q + 5, 2) = q + 7 /\ After(d, q + 5, 4) = q + 9 /\ After(d, q + 5, 6) = q + 11
  BY ONLY <1>9, <1>10
<1> QED BY ONLY <1>6, <1>7, <1>11 DEF d, n, q

\* The signature map and the key map, where they are.
LEMMA SignedTokens ==
  ASSUME NEW es \in Contents
  PROVE  LET d == Signed(es)
             q == Place(es)
         IN  /\ d[q] = Map(2) /\ d[q + 1] = Num(1) /\ d[q + 2] = Num(-8) /\ d[q + 3] = Num(4)
             /\ d[q + 4] = Map(3) /\ d[q + 5] = Num(1) /\ d[q + 6] = Num(1) /\ d[q + 7] = Num(-1)
             /\ d[q + 8] = Num(6) /\ d[q + 9] = Num(-2) /\ d[q + 10] = Str("key")
<1> DEFINE d == Signed(es)
           k == CsfMap
           q == Place(es)
<1>1. q \in Nat /\ Copied(k, d, q - 1)
  BY SignedHas
<1>2. /\ Len(k) = 11
      /\ k[1] = Map(2) /\ k[2] = Num(1) /\ k[3] = Num(-8) /\ k[4] = Num(4)
      /\ k[5] = Map(3) /\ k[6] = Num(1) /\ k[7] = Num(1) /\ k[8] = Num(-1)
      /\ k[9] = Num(6) /\ k[10] = Num(-2) /\ k[11] = Str("key")
  BY CsfMapHas
<1> HIDE DEF d, k, q
<1>3. \A j \in 1..11 : d[j + (q - 1)] = k[j]
  BY ONLY <1>1, <1>2 DEF Copied
<1>4. /\ d[1 + (q - 1)] = k[1] /\ d[2 + (q - 1)] = k[2] /\ d[3 + (q - 1)] = k[3]
      /\ d[4 + (q - 1)] = k[4] /\ d[5 + (q - 1)] = k[5] /\ d[6 + (q - 1)] = k[6]
      /\ d[7 + (q - 1)] = k[7] /\ d[8 + (q - 1)] = k[8] /\ d[9 + (q - 1)] = k[9]
      /\ d[10 + (q - 1)] = k[10] /\ d[11 + (q - 1)] = k[11]
  BY ONLY <1>3
<1>5. /\ 1 + (q - 1) = q /\ 2 + (q - 1) = q + 1 /\ 3 + (q - 1) = q + 2 /\ 4 + (q - 1) = q + 3
      /\ 5 + (q - 1) = q + 4 /\ 6 + (q - 1) = q + 5 /\ 7 + (q - 1) = q + 6 /\ 8 + (q - 1) = q + 7
      /\ 9 + (q - 1) = q + 8 /\ 10 + (q - 1) = q + 9 /\ 11 + (q - 1) = q + 10
  BY ONLY <1>1
<1>6. /\ d[q] = Map(2) /\ d[q + 1] = Num(1) /\ d[q + 2] = Num(-8) /\ d[q + 3] = Num(4)
      /\ d[q + 4] = Map(3) /\ d[q + 5] = Num(1) /\ d[q + 6] = Num(1) /\ d[q + 7] = Num(-1)
      /\ d[q + 8] = Num(6) /\ d[q + 9] = Num(-2) /\ d[q + 10] = Str("key")
  BY ONLY <1>2, <1>4, <1>5
<1> QED BY ONLY <1>6 DEF d, q

LEMMA SentHas ==
  ASSUME NEW es \in Contents
  PROVE  LET d == Signed(es)
             q == Place(es)
             s == Sent(es)
         IN  /\ s \in Seq(Tokens(d)) /\ Len(s) = q + 12
             /\ s[q] = Map(3) /\ s[q + 11] = Num(6) /\ s[q + 12] = Signature(d)
             /\ \A j \in 1..(q + 10) : j # q => s[j] = d[j]
<1> DEFINE d == Signed(es)
           q == Place(es)
           T == Tokens(d)
           r == <<Num(SIGNATURE_LABEL), Signature(d)>>
           w == Join(d, r)
<1>1. /\ q \in Nat /\ q >= 3 /\ d \in Seq(Token) /\ Len(d) = q + 10
  BY SignedHas
<1>2. Sent(es) = [w EXCEPT ![q] = Map(3)]
  BY DEF Sent, Written, Join
<1>3. d \in Seq(T)
  BY <1>1, TokenCounts
<1>4. r \in Seq(T) /\ Len(r) = 2 /\ r[1] = Num(6) /\ r[2] = Signature(d)
  <2>1. Num(6) \in Token /\ SIGNATURE_LABEL = 6
    BY TokensHere DEF SIGNATURE_LABEL
  <2>2. Num(6) \in T /\ Signature(d) \in T
    BY <2>1 DEF Tokens
  <2> QED BY <2>1, <2>2
<1>5. Map(3) \in T
  BY TokensHere DEF Tokens
<1> HIDE DEF d, q, T, r
<1>6. /\ w \in Seq(T) /\ Len(w) = q + 12
      /\ \A j \in 1..(q + 12) : w[j] = IF j <= q + 10 THEN d[j] ELSE r[j - (q + 10)]
  <2>1. w \in Seq(T) /\ Len(w) = Len(d) + Len(r)
    BY <1>3, <1>4, JoinTwo
  <2>2. \A j \in 1..(Len(d) + Len(r)) : w[j] = IF j <= Len(d) THEN d[j] ELSE r[j - Len(d)]
    BY ONLY <1>3, <1>4, JoinHas
  <2>3. Len(d) + Len(r) = q + 12
    BY ONLY <1>1, <1>4
  <2> QED BY ONLY <1>1, <2>1, <2>2, <2>3
<1> HIDE DEF w
<1> DEFINE s == [w EXCEPT ![q] = Map(3)]
<1>7. s \in Seq(T) /\ Len(s) = q + 12 /\ s[q] = Map(3) /\ \A j \in 1..(q + 12) : j # q => s[j] = w[j]
  <2>1. q \in 1..Len(w)
    BY <1>1, <1>6
  <2> QED BY <1>5, <1>6, <2>1
<1> HIDE DEF s
<1>8. \A j \in 1..(q + 10) : j # q => s[j] = d[j]
  <2> SUFFICES ASSUME NEW j \in 1..(q + 10), j # q PROVE s[j] = d[j]
    OBVIOUS
  <2>1. j \in 1..(q + 12) /\ j <= q + 10
    BY <1>1
  <2> QED BY ONLY <1>6, <1>7, <2>1, j # q
<1>9. s[q + 11] = Num(6) /\ s[q + 12] = Signature(d)
  <2>1. /\ q + 11 \in 1..(q + 12) /\ ~(q + 11 <= q + 10) /\ q + 11 - (q + 10) = 1 /\ q + 11 # q
        /\ q + 12 \in 1..(q + 12) /\ ~(q + 12 <= q + 10) /\ q + 12 - (q + 10) = 2 /\ q + 12 # q
    BY <1>1
  <2> DEFINE x == q + 11
             y == q + 12
             z == q + 10
  <2>2. /\ x \in 1..y /\ ~(x <= z) /\ x - z = 1 /\ x # q
        /\ y \in 1..y /\ ~(y <= z) /\ y - z = 2 /\ y # q
    BY ONLY <1>1
  <2>4. \A j \in 1..y : w[j] = IF j <= z THEN d[j] ELSE r[j - z]
    BY ONLY <1>6
  <2>5. \A j \in 1..y : j # q => s[j] = w[j]
    BY ONLY <1>7
  <2> HIDE DEF x, y, z
  <2>3. s[x] = r[1] /\ s[y] = r[2]
    BY ONLY <2>2, <2>4, <2>5
  <2> QED BY ONLY <1>4, <2>3 DEF x, y
<1> QED BY ONLY <1>2, <1>7, <1>8, <1>9 DEF s, d, q, T

-----------------------------------------------------------------------------
(* What the verifier found                                                  *)

\* v is the place of the value with the label in the map whose entries begin at first.
ValueAt(m, first, count, label, v) ==
  /\ v \in 2..Len(m)
  /\ IsNum(m[v - 1], label)
  /\ \E i \in 0..(count - 1) : After(m, first, 2 * i) = v - 1

\* The signature map, and the key map in it.
CsfAt(m, s) ==
  /\ m # <<>> /\ m[1][1] = "map"
  /\ ValueAt(m, 2, m[1][2], APP_SIGNATURE_LABEL, s) /\ m[s][1] = "map"

KeyAt(m, s, k) == ValueAt(m, s + 1, m[s][2], PUBLIC_KEY_LABEL, k) /\ m[k][1] = "map"

\* What the verifier takes for signed: the message up to b, with one entry less in the map at s.
Stripped(m, s, b) == [p \in 1..(b - 1) |-> IF p = s THEN Map(m[s][2] - 1) ELSE m[p]]

\* The places that were found, and what was found out about them.
Read(m, s, k, b) ==
  /\ CsfAt(m, s) /\ KeyAt(m, s, k)
  /\ b = After(m, k + 1, 2 * m[k][2]) /\ b # 0

\* An entry ends where its value does.
LEMMA EntryRead ==
  ASSUME NEW m, Counted(m), NEW p \in 1..(Len(m) - 1), Inside(m[p]) = 0
  PROVE  After(m, p, 2) = After(m, p + 2, Inside(m[p + 1]))
<1>1. Len(m) \in Nat /\ \A q \in 1..Len(m) : Inside(m[q]) \in Nat
  BY DEF Counted
<1>2. p \in 1..(Len(m) + 1) /\ p <= Len(m) /\ 2 \in Nat /\ 2 # 0 /\ 2 - 1 + 0 = 1
  BY <1>1
<1>3. After(m, p, 2) = After(m, p + 1, 2 - 1 + Inside(m[p]))
  BY ONLY <1>2, Counted(m), AfterIs
<1>4. After(m, p, 2) = After(m, p + 1, 1)
  BY ONLY <1>2, <1>3, Inside(m[p]) = 0
<1> DEFINE x == p + 1
<1>5. x \in 1..(Len(m) + 1) /\ x <= Len(m) /\ 1 \in Nat /\ 1 # 0
  BY <1>1
<1> HIDE DEF x
<1>6. After(m, x, 1) = After(m, x + 1, 1 - 1 + Inside(m[x]))
  BY ONLY <1>5, Counted(m), AfterIs
<1>7. 1 - 1 + Inside(m[x]) = Inside(m[x]) /\ x + 1 = p + 2
  BY <1>1, <1>5 DEF x
<1>8. After(m, x, 1) = After(m, p + 2, Inside(m[x]))
  BY ONLY <1>6, <1>7
<1> QED BY ONLY <1>4, <1>8 DEF x

\* Where what was read lies.
LEMMA ReadPlaces ==
  ASSUME NEW m, Counted(m), NEW s, NEW k, NEW b, Read(m, s, k, b), m[1][2] \in Nat,
         m[s][2] \in Nat, m[k][2] \in Nat
  PROVE  /\ s \in 3..Len(m) /\ k \in (s + 2)..Len(m) /\ b \in (k + 1)..(Len(m) + 1)
         /\ After(m, k - 1, 2) = b
<1>1. Len(m) \in Nat /\ s \in 2..Len(m) /\ k \in 2..Len(m) /\ m[s][1] = "map" /\ m[k][1] = "map"
  BY DEF Counted, Read, CsfAt, KeyAt, ValueAt
<1>2. s \in 3..Len(m)
  <2>1. PICK i \in 0..(m[1][2] - 1) : After(m, 2, 2 * i) = s - 1
    BY DEF Read, CsfAt, ValueAt
  <2>2. 2 * i \in Nat /\ 2 \in 1..(Len(m) + 1)
    BY <1>1
  <2>3. After(m, 2, 2 * i) = 0 \/ After(m, 2, 2 * i) \in (2 + 2 * i)..(Len(m) + 1)
    BY ONLY <2>2, Counted(m), AfterEnds
  <2> QED BY <1>1, <2>1, <2>2, <2>3
<1>3. k \in (s + 2)..Len(m)
  <2>1. PICK i \in 0..(m[s][2] - 1) : After(m, s + 1, 2 * i) = k - 1
    BY DEF Read, KeyAt, ValueAt
  <2>2. 2 * i \in Nat /\ s + 1 \in 1..(Len(m) + 1)
    BY <1>1
  <2>3. After(m, s + 1, 2 * i) = 0 \/ After(m, s + 1, 2 * i) \in (s + 1 + 2 * i)..(Len(m) + 1)
    BY ONLY <2>2, Counted(m), AfterEnds
  <2> QED BY <1>1, <2>1, <2>2, <2>3
<1>4. b \in (k + 1)..(Len(m) + 1)
  <2>1. k + 1 \in 1..(Len(m) + 1) /\ 2 * m[k][2] \in Nat
    BY <1>1
  <2>2. After(m, k + 1, 2 * m[k][2]) = 0 \/ After(m, k + 1, 2 * m[k][2]) \in (k + 1 + 2 * m[k][2])..(Len(m) + 1)
    BY ONLY <2>1, Counted(m), AfterEnds
  <2>3. b = After(m, k + 1, 2 * m[k][2]) /\ b # 0
    BY DEF Read
  <2> QED BY ONLY <1>1, <2>1, <2>2, <2>3
<1>5. After(m, k - 1, 2) = b
  <2> DEFINE x == k - 1
  <2>1. x \in 1..(Len(m) - 1) /\ x + 1 = k /\ x + 2 = k + 1
    BY <1>1
  <2>2. m[x][1] = "int"
    BY DEF Read, KeyAt, ValueAt, IsNum
  <2>3. Inside(m[x]) = 0 /\ Inside(m[k]) = 2 * m[k][2]
    BY <1>1, <2>2 DEF Inside
  <2>4. b = After(m, k + 1, 2 * m[k][2])
    BY DEF Read
  <2> HIDE DEF x
  <2>5. After(m, x, 2) = After(m, x + 2, Inside(m[x + 1]))
    BY ONLY <2>1, <2>3, Counted(m), EntryRead
  <2>6. After(m, x, 2) = b
    BY ONLY <2>1, <2>3, <2>4, <2>5
  <2> QED BY ONLY <2>6 DEF x
<1> QED BY ONLY <1>2, <1>3, <1>4, <1>5

\* A signature of something is one of what was signed.
LEMMA SignatureOf ==
  ASSUME NEW d, NEW x, x # <<>>, Signature(x) \in Tokens(d)
  PROVE  x = d
<1> DEFINE t == Signature(x)
<1>1. t[1] = "str" /\ t[2] = "signature" /\ Len(t) = 4 /\ \A c : Signature(c)[3] = c
  BY DEF Signature
<1> HIDE DEF t
<1>2. t \notin Token
  <2>1. t \notin {"int"} \X Int
    BY <1>1
  <2>2. t \notin {"map"} \X Nat
    BY <1>1
  <2>3. t \notin {Str(y) : y \in Strings}
    <3>1. \A y \in Strings : Len(Str(y)) = 3
      BY DEF Str
    <3> QED BY <1>1, <3>1
  <2> QED BY <2>1, <2>2, <2>3 DEF Token
<1>3. t = Signature(d) \/ t = Signature(<<>>)
  BY <1>2 DEF Tokens, t
<1>4. x = d \/ x = <<>>
  BY <1>1, <1>3 DEF t
<1> QED BY <1>4

\* The message agrees with what was signed but for the count of one map.
LEMMA StrippedAgrees ==
  ASSUME NEW d \in Seq(Token), NEW m \in Seq(Tokens(d)), NEW s, NEW k, NEW b,
         Read(m, s, k, b), Stripped(m, s, b) = d
  PROVE  /\ Counted(m) /\ Counted(d) /\ Len(m) \in Nat /\ Len(d) = b - 1 /\ b <= Len(m) + 1
         /\ s \in 3..(b - 3) /\ k \in (s + 2)..(b - 1) /\ b \in Nat
         /\ \A p \in 1..(b - 1) : p # s => m[p] = d[p]
         /\ m[s][2] \in Nat \ {0} /\ d[s] = Map(m[s][2] - 1) /\ m[s] = Map(m[s][2])
         /\ m[1][2] \in Nat /\ m[k][2] \in Nat /\ After(m, k - 1, 2) = b
<1>1. Counted(m) /\ Counted(d)
  BY TokensCount, TokenCounts
<1>2. Len(m) \in Nat /\ \A p \in 1..Len(m) : m[p] \in Tokens(d)
  BY ElementOfSeq
<1>3. /\ m # <<>> /\ m[1][1] = "map"
      /\ s \in 2..Len(m) /\ m[s][1] = "map" /\ k \in 2..Len(m) /\ m[k][1] = "map"
  BY DEF Read, CsfAt, KeyAt, ValueAt
<1>4. 1 \in 1..Len(m) /\ s \in 1..Len(m) /\ k \in 1..Len(m)
  BY <1>2, <1>3
<1>5. m[1][2] \in Nat /\ m[s][2] \in Nat /\ m[k][2] \in Nat /\ m[s] = Map(m[s][2])
  BY <1>2, <1>3, <1>4, TokenIs
<1>6. /\ s \in 3..Len(m) /\ k \in (s + 2)..Len(m) /\ b \in (k + 1)..(Len(m) + 1)
      /\ After(m, k - 1, 2) = b
  BY <1>1, <1>5, ReadPlaces
<1>7. b \in Nat /\ s \in 3..(b - 3) /\ k \in (s + 2)..(b - 1) /\ b <= Len(m) + 1
  BY <1>2, <1>6
<1>8. d = [p \in 1..(b - 1) |-> IF p = s THEN Map(m[s][2] - 1) ELSE m[p]]
  BY DEF Stripped
<1>9. Len(d) = b - 1
  <2>1. DOMAIN d = 1..(b - 1) /\ b - 1 \in Nat
    BY <1>7, <1>8
  <2>2. DOMAIN d = 1..Len(d) /\ Len(d) \in Nat
    OBVIOUS
  <2> QED BY <2>1, <2>2
<1>10. \A p \in 1..(b - 1) : p # s => m[p] = d[p]
  BY ONLY <1>8
<1>11. d[s] = Map(m[s][2] - 1)
  <2>1. s \in 1..(b - 1)
    BY <1>7
  <2> QED BY ONLY <1>8, <2>1
<1>12. m[s][2] # 0
  <2>1. s \in 1..Len(d)
    BY <1>7, <1>9
  <2>2. d[s] \in Token
    BY <2>1, ElementOfSeq
  <2>3. d[s] \in Tokens(d) /\ d[s][1] = "map" /\ d[s][2] = m[s][2] - 1
    BY <1>11, <2>2 DEF Tokens, Map
  <2>4. m[s][2] - 1 \in Nat
    BY <2>3, TokenIs
  <2> QED BY <2>4
<1> QED BY ONLY <1>1, <1>2, <1>5, <1>6, <1>7, <1>9, <1>10, <1>11, <1>12

\* The map with one entry more is the signer's: in another one the key map would end
\* with the application's entries, and not with what was signed.
LEMMA SamePlace ==
  ASSUME NEW es \in Contents, NEW m \in Seq(Tokens(Signed(es))), NEW s, NEW k, NEW b,
         Read(m, s, k, b), Stripped(m, s, b) = Signed(es)
  PROVE  s = Place(es)
<1> DEFINE d == Signed(es)
           q == Place(es)
           n == Len(es)
           c == m[s][2]
<1>1. /\ n \in Nat /\ q \in Nat /\ d \in Seq(Token) /\ Len(d) = q + 10
      /\ d[1] = Map(n + 1) /\ d[q - 1] = Num(-1)
  BY SignedHas
<1>2. After(d, 2, 2 * n) = q - 1
  BY SignedRead
<1>3. /\ Counted(m) /\ Counted(d) /\ Len(m) \in Nat /\ Len(d) = b - 1 /\ b <= Len(m) + 1
      /\ s \in 3..(b - 3) /\ k \in (s + 2)..(b - 1) /\ b \in Nat
      /\ \A p \in 1..(b - 1) : p # s => m[p] = d[p]
      /\ c \in Nat \ {0} /\ d[s] = Map(c - 1) /\ m[s] = Map(c)
      /\ After(m, k - 1, 2) = b
  <2>1. d \in Seq(Token) /\ m \in Seq(Tokens(d)) /\ Read(m, s, k, b) /\ Stripped(m, s, b) = d
    BY <1>1
  <2> HIDE DEF d
  <2> QED BY ONLY <2>1, StrippedAgrees
<1>4. \E i \in 0..(m[1][2] - 1) : After(m, 2, 2 * i) = s - 1
  BY DEF Read, CsfAt, ValueAt
<1>5. \E i \in 0..(c - 1) : After(m, s + 1, 2 * i) = k - 1
  BY DEF Read, KeyAt, ValueAt
<1>6. IsNum(m[s - 1], -1) /\ IsNum(m[k - 1], 4)
  BY DEF Read, CsfAt, KeyAt, ValueAt, APP_SIGNATURE_LABEL, PUBLIC_KEY_LABEL
<1> HIDE DEF d, q, n, c
<1>7. PICK i \in 0..n : After(m, 2, 2 * i) = s - 1
  <2>1. 1 \in 1..(b - 1) /\ 1 # s
    BY ONLY <1>3
  <2>2. m[1] = Map(n + 1)
    BY ONLY <1>1, <1>3, <2>1
  <2>3. m[1][2] = n + 1
    BY ONLY <2>2 DEF Map
  <2>4. m[1][2] - 1 = n
    BY ONLY <1>1, <2>3
  <2> QED BY ONLY <1>4, <2>4
<1>8. After(d, 2, 2 * i) = s - 1
  <2> DEFINE z == 0
             a == 2
  <2>1. Alike(m, d, a, s, z)
    <3>1. /\ s \in 1..(Len(m) + 1) /\ a \in 1..s /\ z \in Int /\ a + z >= 1 /\ s + z <= Len(d) + 1
      BY ONLY <1>3
    <3>2. \A j \in a..(s - 1) : d[j + z] = m[j]
      BY ONLY <1>3
    <3> HIDE DEF z, a
    <3> QED BY ONLY <1>3, <3>1, <3>2 DEF Alike
  <2> HIDE DEF z, a
  <2>2. \A p \in a..s, j \in Nat :
          After(m, p, j) # 0 /\ After(m, p, j) <= s => After(d, p + z, j) = After(m, p, j) + z
    BY ONLY <2>1, AfterMoved
  <2>3. a \in a..s /\ 2 * i \in Nat /\ s - 1 # 0 /\ s - 1 <= s /\ After(m, a, 2 * i) = s - 1
    BY ONLY <1>1, <1>3, <1>7 DEF a
  <2>4. After(d, a + z, 2 * i) = s - 1 + z
    BY ONLY <2>2, <2>3
  <2>5. a + z = 2 /\ s - 1 + z = s - 1
    BY ONLY <1>3 DEF a, z
  <2> QED BY ONLY <2>4, <2>5
<1>9. \A p \in 1..(Len(d) + 1), x, y \in Nat :
        After(d, p, x + y) = IF After(d, p, x) = 0 THEN 0 ELSE After(d, After(d, p, x), y)
  BY ONLY <1>3, AfterSum
<1>10. \A p \in 1..(Len(d) + 1), x \in Nat :
         After(d, p, x) = 0 \/ After(d, p, x) \in (p + x)..(Len(d) + 1)
  BY ONLY <1>3, AfterEnds
<1>11. After(d, s - 1, 2 * (n - i)) = q - 1
  <2> DEFINE x == 2 * i
             y == 2 * (n - i)
  <2>1. x \in Nat /\ y \in Nat /\ x + y = 2 * n /\ 2 \in 1..(Len(d) + 1) /\ s - 1 # 0
    BY ONLY <1>1, <1>3, <1>7
  <2>2. After(d, 2, x) = s - 1
    BY ONLY <1>8
  <2> HIDE DEF x, y
  <2> DEFINE a == 2
  <2>5. x \in Nat /\ y \in Nat /\ a \in 1..(Len(d) + 1) /\ After(d, a, x) = s - 1 /\ s - 1 # 0
    BY ONLY <2>1, <2>2
  <2> HIDE DEF a
  <2>3. After(d, a, x + y) = After(d, s - 1, y)
    <3>1. After(d, a, x + y) = IF After(d, a, x) = 0 THEN 0 ELSE After(d, After(d, a, x), y)
      BY ONLY <1>9, <2>5
    <3> QED BY ONLY <2>5, <3>1
  <2>4. After(d, s - 1, y) = q - 1
    BY ONLY <1>2, <2>1, <2>3 DEF a
  <2> QED BY ONLY <2>4 DEF y
<1>12. CASE i = n
  <2>1. After(d, s - 1, 0) = s - 1
    <3> DEFINE x == s - 1
    <3>1. x \in 1..(Len(d) + 1)
      BY ONLY <1>3
    <3> HIDE DEF x
    <3>2. After(d, x, 0) = x
      BY ONLY <1>3, <3>1, AfterIs
    <3> QED BY ONLY <3>2 DEF x
  <2>2. 2 * (n - i) = 0
    BY ONLY <1>1, <1>12
  <2>3. s - 1 = q - 1
    BY ONLY <1>11, <2>1, <2>2
  <2>4. s = q
    BY ONLY <1>1, <1>3, <2>3
  <2> QED BY ONLY <2>4 DEF q
<1>13. CASE i # n
  <2> DEFINE x == s - 1
             t == After(d, x, 2)
             r == 2 * (n - i - 1)
  <2>1. /\ x \in 1..(Len(d) + 1) /\ x \in 1..(Len(d) - 1) /\ x + 1 = s /\ x + 2 = s + 1
        /\ x \in 1..(b - 1) /\ x # s /\ r \in Nat /\ 2 + r = 2 * (n - i) /\ q - 1 # 0
    <3>1. n - i - 1 \in Nat
      BY ONLY <1>1, <1>7, <1>13
    <3>2. q - 1 # 0
      <4>1. 2 * n \in Nat /\ 2 \in 1..(Len(d) + 1)
        BY ONLY <1>1, <1>3
      <4>2. x + (2 * (n - i)) > 0 /\ 2 * (n - i) \in Nat /\ x \in 1..(Len(d) + 1)
        BY ONLY <1>1, <1>3, <1>7
      <4> HIDE DEF x
      <4>3. q >= 3
        BY SignedHas DEF q
      <4> QED BY ONLY <1>1, <4>3
    <3>3. 2 + r = 2 * (n - i) /\ r \in Nat
      BY ONLY <1>1, <1>7, <3>1
    <3> QED BY ONLY <1>1, <1>3, <3>2, <3>3
  <2> HIDE DEF x, r
  <2>2. After(d, x, 2 + r) = q - 1
    BY ONLY <1>11, <2>1 DEF x
  <2>3. t # 0 /\ After(d, t, r) = q - 1
    <3>1. After(d, x, 2 + r) = IF t = 0 THEN 0 ELSE After(d, t, r)
      BY ONLY <1>9, <2>1
    <3> QED BY ONLY <2>1, <2>2, <3>1
  <2>4. t = After(d, s + 1, 2 * (c - 1))
    <3>1. d[x] = m[x] /\ m[x][1] = "int"
      BY ONLY <1>3, <1>6, <2>1 DEF IsNum, x
    <3>2. Inside(d[x]) = 0
      BY ONLY <3>1 DEF Inside
    <3>3. Inside(d[s]) = 2 * (c - 1)
      BY ONLY <1>3 DEF Inside, Map
    <3>4. After(d, x, 2) = After(d, x + 2, Inside(d[x + 1]))
      BY ONLY <1>3, <2>1, <3>2, EntryRead
    <3> QED BY ONLY <2>1, <3>3, <3>4
  <2> HIDE DEF t
  <2>5. t \in Nat /\ t >= s + 1 /\ t <= Len(d) + 1
    <3>1. s + 1 \in 1..(Len(d) + 1) /\ 2 * (c - 1) \in Nat
      BY ONLY <1>1, <1>3
    <3>2. t \in (s + 1 + 2 * (c - 1))..(Len(d) + 1)
      BY ONLY <1>10, <2>3, <2>4, <3>1
    <3> QED BY ONLY <1>3, <3>1, <3>2
  <2>6. t <= q - 1
    <3>1. t \in 1..(Len(d) + 1)
      BY ONLY <1>3, <2>5
    <3>2. After(d, t, r) \in (t + r)..(Len(d) + 1)
      BY ONLY <1>10, <2>1, <2>3, <3>1
    <3> QED BY ONLY <1>1, <2>1, <2>3, <2>5, <3>2
  <2>7. \A p \in (s + 1)..b, j \in Nat :
          After(d, p, j) # 0 /\ After(d, p, j) <= b => After(m, p, j) = After(d, p, j)
    <3> DEFINE z == 0
               a == s + 1
    <3>1. Alike(d, m, a, b, z)
      <4>1. /\ b \in 1..(Len(d) + 1) /\ a \in 1..b /\ z \in Int /\ a + z >= 1 /\ b + z <= Len(m) + 1
        BY ONLY <1>3
      <4>2. \A j \in a..(b - 1) : m[j + z] = d[j]
        BY ONLY <1>3
      <4> HIDE DEF z, a
      <4> QED BY ONLY <1>3, <4>1, <4>2 DEF Alike
    <3> HIDE DEF z, a
    <3>2. \A p \in a..b, j \in Nat :
            After(d, p, j) # 0 /\ After(d, p, j) <= b => After(m, p + z, j) = After(d, p, j) + z
      BY ONLY <3>1, AfterMoved
    <3> SUFFICES ASSUME NEW p \in a..b, NEW j \in Nat, After(d, p, j) # 0, After(d, p, j) <= b
                 PROVE  After(m, p, j) = After(d, p, j)
      BY DEF a
    <3>3. After(m, p + z, j) = After(d, p, j) + z
      BY ONLY <3>2, After(d, p, j) # 0, After(d, p, j) <= b, p \in a..b, j \in Nat
    <3>4. p \in 1..(Len(d) + 1)
      BY ONLY <1>3, p \in a..b DEF a
    <3>5. After(d, p, j) \in Int
      BY ONLY <1>3, <1>10, <3>4, j \in Nat
    <3>6. p + z = p /\ After(d, p, j) + z = After(d, p, j)
      BY ONLY <3>4, <3>5, <1>3 DEF z
    <3> QED BY ONLY <3>3, <3>6
  <2>8. After(m, s + 1, 2 * (c - 1)) = t
    <3>1. s + 1 \in (s + 1)..b /\ 2 * (c - 1) \in Nat /\ t <= b
      BY ONLY <1>3, <2>5
    <3> QED BY ONLY <2>3, <2>4, <2>7, <3>1
  <2>9. PICK u \in 0..(c - 1) : After(m, s + 1, 2 * u) = k - 1
    BY ONLY <1>5
  <2>10. \A p \in 1..(Len(m) + 1), v, w \in Nat :
           After(m, p, v + w) = IF After(m, p, v) = 0 THEN 0 ELSE After(m, After(m, p, v), w)
    BY ONLY <1>3, AfterSum
  <2>11. b > q - 1
    BY ONLY <1>1, <1>3
  <2>12. CASE u = c - 1
    <3>1. k - 1 = t
      BY ONLY <2>8, <2>9, <2>12
    <3>2. t \in 1..(b - 1) /\ t # s
      BY ONLY <1>1, <1>3, <2>5, <2>6, <2>11
    <3>3. d[t][1] = "int" /\ d[t][2] = 4
      BY ONLY <1>3, <1>6, <3>1, <3>2 DEF IsNum
    <3>4. t # q - 1
      BY ONLY <1>1, <3>3 DEF Num
    <3>5. r # 0
      <4>1. r = 0 => After(d, t, r) = t
        BY ONLY <1>3, <3>2, AfterIs
      <4> QED BY ONLY <2>3, <3>4, <4>1
    <3> DEFINE y == 2 * (n - i - 2)
    <3>6. y \in Nat /\ 2 + y = r
      BY ONLY <1>1, <1>7, <2>1, <3>5 DEF r
    <3> HIDE DEF y
    <3>7. t \in 1..(Len(d) + 1)
      BY ONLY <1>3, <3>2
    <3> DEFINE v == After(d, t, 2)
    <3>8. v # 0 /\ After(d, v, y) = q - 1
      <4>1. After(d, t, 2 + y) = IF v = 0 THEN 0 ELSE After(d, v, y)
        BY ONLY <1>9, <3>6, <3>7
      <4> QED BY ONLY <2>1, <2>3, <3>6, <4>1
    <3>9. v \in (t + 2)..(Len(d) + 1)
      BY ONLY <1>10, <3>7, <3>8
    <3>10. v <= q - 1
      <4>1. v \in 1..(Len(d) + 1)
        BY ONLY <1>3, <3>2, <3>9
      <4> HIDE DEF v
      <4>2. After(d, v, y) \in (v + y)..(Len(d) + 1)
        BY ONLY <1>10, <2>1, <3>6, <3>8, <4>1
      <4> QED BY ONLY <1>1, <3>6, <3>8, <4>1, <4>2
    <3>11. After(m, t, 2) = v
      <4>1. t \in (s + 1)..b /\ v <= b
        BY ONLY <1>1, <1>3, <2>5, <2>11, <3>2, <3>9, <3>10
      <4> QED BY ONLY <2>7, <3>8, <4>1
    <3>12. b = v
      BY ONLY <1>3, <3>1, <3>11
    <3> QED BY ONLY <1>1, <1>3, <2>11, <3>10, <3>12
  <2>13. CASE u # c - 1
    <3> DEFINE e == 2 * u
               f == 2 * (c - 1 - u - 1)
               g == 2 * u + 2
    <3>1. /\ e \in Nat /\ f \in Nat /\ g \in Nat /\ e + 2 = g /\ g + f = 2 * (c - 1)
          /\ s + 1 \in 1..(Len(m) + 1) /\ k - 1 # 0 /\ b # 0
      <4>1. c \in Nat /\ u \in Nat /\ u < c - 1
        BY ONLY <1>3, <2>9, <2>13
      <4>2. c - 1 - u - 1 \in Nat
        BY ONLY <4>1
      <4>3. e \in Nat /\ f \in Nat /\ g \in Nat /\ e + 2 = g
        BY ONLY <4>1, <4>2
      <4>4. g + f = 2 * (c - 1)
        BY ONLY <4>1
      <4>5. s + 1 \in 1..(Len(m) + 1) /\ k - 1 # 0 /\ b # 0
        BY ONLY <1>3
      <4> QED BY ONLY <4>3, <4>4, <4>5
    <3>2. After(m, s + 1, e) = k - 1
      BY ONLY <2>9
    <3> HIDE DEF e, f, g
    <3>3. After(m, s + 1, e + 2) = b
      <4>1. After(m, s + 1, e + 2) = After(m, k - 1, 2)
        <5>1. After(m, s + 1, e + 2) =
                IF After(m, s + 1, e) = 0 THEN 0 ELSE After(m, After(m, s + 1, e), 2)
          <6> DEFINE a == s + 1
          <6>1. a \in 1..(Len(m) + 1) /\ e \in Nat /\ 2 \in Nat
            BY ONLY <3>1
          <6> HIDE DEF a
          <6>2. After(m, a, e + 2) = IF After(m, a, e) = 0 THEN 0 ELSE After(m, After(m, a, e), 2)
            BY ONLY <2>10, <6>1
          <6> QED BY ONLY <6>2 DEF a
        <5> QED BY ONLY <3>1, <3>2, <5>1
      <4> QED BY ONLY <1>3, <4>1
    <3>4. After(m, s + 1, g + f) = After(m, b, f)
      <4>1. After(m, s + 1, g) = b
        BY ONLY <3>1, <3>3
      <4> QED BY ONLY <2>10, <3>1, <4>1
    <3>5. After(m, b, f) = t
      BY ONLY <2>8, <3>1, <3>4
    <3>6. b \in 1..(Len(m) + 1)
      BY ONLY <1>3
    <3>7. After(m, b, f) = 0 \/ After(m, b, f) \in (b + f)..(Len(m) + 1)
      BY ONLY <1>3, <3>1, <3>6, AfterEnds
    <3> QED BY ONLY <1>1, <1>3, <2>3, <2>5, <2>6, <2>11, <3>1, <3>5, <3>7
  <2> QED BY ONLY <2>12, <2>13
<1> QED BY ONLY <1>12, <1>13

\* What holds when a signature was found at g that is the signature of what was signed.
Valid(m, s, k, b, g) ==
  /\ Read(m, s, k, b)
  /\ ValueAt(m, s + 1, m[s][2], SIGNATURE_LABEL, g)
  /\ m[g] = Signature(Stripped(m, s, b))
  /\ After(m, s + 1, 2 * m[s][2]) = Len(m) + 1

LEMMA StrippedIsSigned ==
  ASSUME NEW es \in Contents, NEW m \in Seq(Tokens(Signed(es))), NEW s, NEW k, NEW b, NEW g,
         Valid(m, s, k, b, g)
  PROVE  Stripped(m, s, b) = Signed(es)
<1> DEFINE d == Signed(es)
           x == Stripped(m, s, b)
<1>1. Counted(m) /\ Len(m) \in Nat /\ \A p \in 1..Len(m) : m[p] \in Tokens(d)
  BY TokensCount, ElementOfSeq
<1>2. g \in 2..Len(m) /\ m[g] = Signature(x)
  BY DEF Valid, ValueAt
<1>3. Signature(x) \in Tokens(d)
  <2>1. g \in 1..Len(m)
    BY <1>1, <1>2
  <2> HIDE DEF x, d
  <2> QED BY ONLY <1>1, <1>2, <2>1
<1>4. m[1][2] \in Nat /\ m[s][2] \in Nat /\ m[k][2] \in Nat
  <2>1. /\ m[1][1] = "map" /\ s \in 2..Len(m) /\ m[s][1] = "map" /\ k \in 2..Len(m) /\ m[k][1] = "map"
    BY DEF Valid, Read, CsfAt, KeyAt, ValueAt
  <2>2. 1 \in 1..Len(m) /\ s \in 1..Len(m) /\ k \in 1..Len(m)
    BY <1>1, <2>1
  <2> QED BY <1>1, <2>1, <2>2, TokenIs
<1>5. b \in Nat /\ b > 1
  <2>1. s \in 3..Len(m) /\ k \in (s + 2)..Len(m) /\ b \in (k + 1)..(Len(m) + 1)
    BY <1>1, <1>4, ReadPlaces DEF Valid
  <2> QED BY <1>1, <2>1
<1>6. x # <<>>
  <2>1. 1 \in 1..(b - 1)
    BY <1>5
  <2>2. 1 \in DOMAIN x
    BY <2>1 DEF Stripped
  <2>3. 1 \notin DOMAIN <<>>
    OBVIOUS
  <2> QED BY <2>2, <2>3
<1> HIDE DEF x, d
<1>7. x = d
  BY ONLY <1>3, <1>6, SignatureOf
<1> QED BY ONLY <1>7 DEF x, d

\* A message with a valid signature is the one that was sent.
LEMMA ValidIsSent ==
  ASSUME NEW es \in Contents, NEW m \in Seq(Tokens(Signed(es))), NEW s, NEW k, NEW b, NEW g,
         Valid(m, s, k, b, g)
  PROVE  m = Sent(es)
<1> DEFINE d == Signed(es)
           q == Place(es)
<1>1. Stripped(m, s, b) = d /\ Read(m, s, k, b)
  BY StrippedIsSigned DEF Valid
<1>2. s = q
  BY <1>1, SamePlace
<1>3. q \in Nat /\ q >= 3 /\ d \in Seq(Token) /\ Len(d) = q + 10
  BY SignedHas
<1>4. /\ Counted(m) /\ Counted(d) /\ Len(m) \in Nat /\ Len(d) = b - 1 /\ b <= Len(m) + 1
      /\ b \in Nat /\ \A p \in 1..(b - 1) : p # s => m[p] = d[p]
      /\ m[s][2] \in Nat \ {0} /\ d[s] = Map(m[s][2] - 1) /\ m[s] = Map(m[s][2])
  <2>1. d \in Seq(Token) /\ m \in Seq(Tokens(d))
    BY <1>3
  <2> HIDE DEF d
  <2> QED BY ONLY <1>1, <2>1, StrippedAgrees
<1>5. b = q + 11
  BY ONLY <1>3, <1>4
<1>6. /\ d[q] = Map(2) /\ d[q + 1] = Num(1) /\ d[q + 3] = Num(4)
  BY SignedTokens
<1>7. After(d, q + 1, 2) = q + 3 /\ After(d, q + 1, 4) = q + 11
  BY SignedRead
<1>8. /\ ValueAt(m, s + 1, m[s][2], 6, g) /\ m[g] = Signature(d)
      /\ After(m, s + 1, 2 * m[s][2]) = Len(m) + 1
  BY <1>1 DEF Valid, SIGNATURE_LABEL
<1>9. \A p \in 1..Len(m) : m[p] \in Tokens(d)
  BY ElementOfSeq
<1> HIDE DEF d, q
<1>10. m[q] = Map(3) /\ m[q][2] = 3
  <2>1. \A x : Map(x)[2] = x
    BY DEF Map
  <2>2. m[q][2] - 1 = 2
    <3>1. Map(m[q][2] - 1) = Map(2)
      BY ONLY <1>2, <1>4, <1>6
    <3> QED BY ONLY <2>1, <3>1
  <2>3. m[q][2] = 3
    BY ONLY <1>2, <1>4, <2>2
  <2> QED BY ONLY <1>2, <1>4, <2>3
<1> DEFINE a == q + 1
<1>11. \A j \in Nat : After(d, a, j) # 0 /\ After(d, a, j) <= b => After(m, a, j) = After(d, a, j)
  <2> DEFINE z == 0
  <2>1. Alike(d, m, a, b, z)
    <3>1. /\ b \in 1..(Len(d) + 1) /\ a \in 1..b /\ z \in Int /\ a + z >= 1 /\ b + z <= Len(m) + 1
      BY ONLY <1>3, <1>4, <1>5
    <3>2. \A j \in a..(b - 1) : m[j + z] = d[j]
      BY ONLY <1>2, <1>3, <1>4, <1>5
    <3> HIDE DEF z, a
    <3> QED BY ONLY <1>4, <3>1, <3>2 DEF Alike
  <2>2. a \in a..b /\ a \in 1..(Len(d) + 1)
    BY ONLY <1>3, <1>4, <1>5
  <2>3. \A j \in Nat : After(d, a, j) = 0 \/ After(d, a, j) \in (a + j)..(Len(d) + 1)
    BY ONLY <1>4, <2>2, AfterEnds
  <2> HIDE DEF z, a
  <2>4. \A p \in a..b, j \in Nat :
          After(d, p, j) # 0 /\ After(d, p, j) <= b => After(m, p + z, j) = After(d, p, j) + z
    BY ONLY <2>1, AfterMoved
  <2> SUFFICES ASSUME NEW j \in Nat, After(d, a, j) # 0, After(d, a, j) <= b
               PROVE  After(m, a, j) = After(d, a, j)
    OBVIOUS
  <2>5. After(m, a + z, j) = After(d, a, j) + z
    BY ONLY <2>2, <2>4, After(d, a, j) # 0, After(d, a, j) <= b, j \in Nat
  <2>6. After(d, a, j) \in Int /\ a \in Int
    BY ONLY <1>4, <2>2, <2>3, After(d, a, j) # 0, j \in Nat
  <2>7. a + z = a /\ After(d, a, j) + z = After(d, a, j)
    BY ONLY <2>6 DEF z
  <2> QED BY ONLY <2>5, <2>7
<1>12. After(m, a, 2) = q + 3 /\ After(m, a, 4) = b
  <2>1. q + 3 # 0 /\ q + 3 <= b /\ q + 11 # 0 /\ q + 11 <= b /\ q + 11 = b
    BY ONLY <1>3, <1>5
  <2>2. 2 \in Nat /\ 4 \in Nat /\ After(d, a, 2) = q + 3 /\ After(d, a, 4) = b
    BY ONLY <1>7, <2>1
  <2> HIDE DEF a
  <2> QED BY ONLY <1>11, <2>1, <2>2
<1>13. After(m, b, 2) = Len(m) + 1
  <2>1. After(m, a, 6) = Len(m) + 1
    <3>1. 2 * m[s][2] = 6 /\ s + 1 = a
      BY ONLY <1>2, <1>10
    <3> QED BY ONLY <1>8, <3>1
  <2>2. a \in 1..(Len(m) + 1) /\ 4 \in Nat /\ 2 \in Nat /\ b # 0
    BY ONLY <1>3, <1>4, <1>5
  <2> HIDE DEF a
  <2>3. After(m, a, 4 + 2) = IF After(m, a, 4) = 0 THEN 0 ELSE After(m, After(m, a, 4), 2)
    <3> DEFINE x == 4
               y == 2
    <3>1. a \in 1..(Len(m) + 1) /\ x \in Nat /\ y \in Nat
      BY ONLY <2>2
    <3> HIDE DEF x, y
    <3>3. \A p \in 1..(Len(m) + 1), n, j \in Nat :
            After(m, p, n + j) = IF After(m, p, n) = 0 THEN 0 ELSE After(m, After(m, p, n), j)
      BY ONLY <1>4, AfterSum
    <3>2. After(m, a, x + y) = IF After(m, a, x) = 0 THEN 0 ELSE After(m, After(m, a, x), y)
      BY ONLY <3>1, <3>3
    <3> QED BY ONLY <3>2 DEF x, y
  <2>4. After(m, a, 4 + 2) = After(m, b, 2)
    BY ONLY <1>12, <2>2, <2>3
  <2>5. 4 + 2 = 6
    OBVIOUS
  <2> QED BY ONLY <2>1, <2>4, <2>5
<1>14. g - 1 = b
  <2>1. PICK i \in 0..2 : After(m, a, 2 * i) = g - 1
    <3>1. s + 1 = a /\ m[s][2] - 1 = 2
      BY ONLY <1>2, <1>10
    <3> QED BY ONLY <1>8, <3>1 DEF ValueAt
  <2>2. m[g - 1][1] = "int" /\ m[g - 1][2] = 6
    BY ONLY <1>8 DEF ValueAt, IsNum
  <2>3. CASE i = 0
    <3>1. a \in 1..(Len(m) + 1)
      BY ONLY <1>3, <1>4, <1>5
    <3>2. After(m, a, 0) = a
      BY ONLY <1>4, <3>1, AfterIs
    <3>3. g - 1 = a
      <4>1. 2 * i = 0
        BY ONLY <2>3
      <4> HIDE DEF a
      <4> QED BY ONLY <2>1, <3>2, <4>1
    <3>4. m[a] = Num(1)
      <4>1. a \in 1..(b - 1) /\ a # s
        BY ONLY <1>2, <1>3, <1>5
      <4> QED BY ONLY <1>4, <1>6, <4>1
    <3> QED BY ONLY <2>2, <3>3, <3>4 DEF Num
  <2>4. CASE i = 1
    <3>1. g - 1 = q + 3
      <4>1. 2 * i = 2
        BY ONLY <2>4
      <4> QED BY ONLY <1>12, <2>1, <4>1
    <3>2. m[q + 3] = Num(4)
      <4>1. q + 3 \in 1..(b - 1) /\ q + 3 # s
        BY ONLY <1>2, <1>3, <1>5
      <4> QED BY ONLY <1>4, <1>6, <4>1
    <3> QED BY ONLY <2>2, <3>1, <3>2 DEF Num
  <2>5. CASE i = 2
    <3>1. 2 * i = 4
      BY ONLY <2>5
    <3> QED BY ONLY <1>12, <2>1, <3>1
  <2> QED BY ONLY <2>1, <2>3, <2>4, <2>5
<1>15. g \in 2..Len(m) /\ g = b + 1 /\ b \in 1..(Len(m) - 1)
  <2>1. g \in 2..Len(m)
    BY ONLY <1>8 DEF ValueAt
  <2> QED BY ONLY <1>4, <1>14, <2>1
<1>16. m[b] = Num(6)
  <2>1. IsNum(m[b], 6)
    BY ONLY <1>8, <1>14 DEF ValueAt
  <2>2. m[b] \in Tokens(d)
    BY ONLY <1>4, <1>9, <1>15
  <2> QED BY ONLY <2>1, <2>2, TokenIs DEF IsNum
<1>17. m[b + 1] = Signature(d)
  BY ONLY <1>8, <1>15
<1>18. Len(m) = b + 1
  <2>1. Inside(m[b]) = 0
    BY ONLY <1>16 DEF Inside, Num
  <2>2. Inside(m[b + 1]) = 0
    <3>1. \A c : Signature(c)[1] = "str"
      BY DEF Signature
    <3> QED BY ONLY <1>17, <3>1 DEF Inside
  <2>3. After(m, b, 2) = After(m, b + 2, Inside(m[b + 1]))
    BY ONLY <1>4, <1>15, <2>1, EntryRead
  <2> DEFINE x == b + 2
  <2>4. x \in 1..(Len(m) + 1)
    BY ONLY <1>4, <1>15
  <2> HIDE DEF x
  <2>5. After(m, x, 0) = x
    BY ONLY <1>4, <2>4, AfterIs
  <2>6. Len(m) + 1 = x
    BY ONLY <1>13, <2>2, <2>3, <2>5 DEF x
  <2> QED BY ONLY <1>4, <2>6 DEF x
<1>19. /\ Sent(es) \in Seq(Tokens(d)) /\ Len(Sent(es)) = q + 12
       /\ Sent(es)[q] = Map(3) /\ Sent(es)[q + 11] = Num(6) /\ Sent(es)[q + 12] = Signature(d)
       /\ \A j \in 1..(q + 10) : j # q => Sent(es)[j] = d[j]
  BY SentHas DEF d, q
<1> DEFINE r == Sent(es)
<1>20. Len(m) = q + 12
  BY ONLY <1>3, <1>5, <1>18
<1>21. ASSUME NEW j \in 1..(q + 12) PROVE m[j] = r[j]
  <2> HIDE DEF r
  <2>0. /\ r[q] = Map(3) /\ r[q + 11] = Num(6) /\ r[q + 12] = Signature(d)
        /\ \A i \in 1..(q + 10) : i # q => r[i] = d[i]
    BY ONLY <1>19 DEF r
  <2>1. CASE j = q
    BY ONLY <1>10, <2>0, <2>1
  <2>2. CASE j = q + 11
    BY ONLY <1>5, <1>16, <2>0, <2>2
  <2>3. CASE j = q + 12
    <3>1. b + 1 = q + 12
      BY ONLY <1>3, <1>5
    <3> QED BY ONLY <1>17, <2>0, <2>3, <3>1
  <2>4. CASE j # q /\ j # q + 11 /\ j # q + 12
    <3>1. j \in 1..(q + 10) /\ j \in 1..(b - 1) /\ j # s
      BY ONLY <1>2, <1>3, <1>5, <2>4, j \in 1..(q + 12)
    <3> QED BY ONLY <1>4, <2>0, <2>4, <3>1
  <2> QED BY ONLY <2>1, <2>2, <2>3, <2>4
<1>22. m \in Seq(Tokens(d))
  BY DEF d
<1> HIDE DEF r
<1>23. r \in Seq(Tokens(d)) /\ Len(r) = q + 12
  BY <1>19 DEF r
<1>24. m = r
  BY ONLY <1>20, <1>21, <1>22, <1>23, SeqEqual
<1> QED BY ONLY <1>24 DEF r

-----------------------------------------------------------------------------
(* Searches                                                                 *)

\* The label of each entry of a map that ends lies inside, and its value too.
LEMMA LabelInside ==
  ASSUME NEW m, Counted(m), NEW a \in 1..(Len(m) + 1), NEW n \in Nat, After(m, a, 2 * n) # 0,
         NEW i \in 0..(n - 1)
  PROVE  After(m, a, 2 * i) \in a..(Len(m) - 1)
<1> DEFINE x == 2 * i
           y == 2 * (n - i)
           p == After(m, a, x)
<1>1. x \in Nat /\ y \in Nat /\ y >= 2 /\ x + y = 2 * n /\ Len(m) \in Nat
  BY DEF Counted
<1> HIDE DEF x, y
<1>2. \A q \in 1..(Len(m) + 1), j, k \in Nat :
        After(m, q, j + k) = IF After(m, q, j) = 0 THEN 0 ELSE After(m, After(m, q, j), k)
  BY ONLY Counted(m), AfterSum
<1>3. \A q \in 1..(Len(m) + 1), j \in Nat : After(m, q, j) = 0 \/ After(m, q, j) \in (q + j)..(Len(m) + 1)
  BY ONLY Counted(m), AfterEnds
<1>4. After(m, a, x + y) = IF p = 0 THEN 0 ELSE After(m, p, y)
  <2>1. x \in Nat /\ y \in Nat
    BY ONLY <1>1
  <2> QED BY ONLY <1>2, <2>1, a \in 1..(Len(m) + 1)
<1>5. p # 0 /\ After(m, p, y) # 0
  BY ONLY <1>1, <1>4, After(m, a, 2 * n) # 0
<1>6. p \in (a + x)..(Len(m) + 1)
  BY ONLY <1>1, <1>3, <1>5, a \in 1..(Len(m) + 1)
<1> HIDE DEF p
<1>7. p \in 1..(Len(m) + 1) /\ p >= a
  BY ONLY <1>1, <1>6, a \in 1..(Len(m) + 1)
<1>8. After(m, p, y) \in (p + y)..(Len(m) + 1)
  BY ONLY <1>1, <1>3, <1>5, <1>7
<1>9. p \in a..(Len(m) - 1)
  BY ONLY <1>1, <1>7, <1>8, a \in 1..(Len(m) + 1)
<1> QED BY ONLY <1>9 DEF p, x

\* The labels of a map and those that are looked for.
LabelsOf(m, a, n) == {After(m, a, 2 * i) : i \in 0..(n - 1)}
Hits(m, a, n, label) == {p \in LabelsOf(m, a, n) \ {0} : p <= Len(m) /\ IsNum(m[p], label)}

LEMMA SearchIs ==
  ASSUME NEW m, NEW where, NEW label
  PROVE  LET hits == Hits(m, where.first, where.count, label)
             r    == MapSearch(m, where, label)
         IN  /\ r.end = After(m, where.first, 2 * where.count)
             /\ r.found = IF hits = {} THEN 0 ELSE (CHOOSE p \in hits : TRUE) + 1
             /\ r.ok <=> /\ r.end # 0
                         /\ \A p, q \in hits : p = q
                         /\ \A p \in LabelsOf(m, where.first, where.count) : m[p][1] # "map"
BY DEF MapSearch, Hits, LabelsOf

\* What a search finds is a value with the label.
LEMMA SearchFound ==
  ASSUME NEW m, Counted(m), NEW where, where.first \in 1..(Len(m) + 1), where.count \in Nat, NEW label,
         MapSearch(m, where, label).ok, MapSearch(m, where, label).found # 0
  PROVE  /\ ValueAt(m, where.first, where.count, label, MapSearch(m, where, label).found)
         /\ MapSearch(m, where, label).end = After(m, where.first, 2 * where.count)
         /\ MapSearch(m, where, label).end # 0
<1> DEFINE r == MapSearch(m, where, label)
           a == where.first
           n == where.count
           hits == Hits(m, a, n, label)
<1>1. r.end = After(m, a, 2 * n) /\ r.end # 0 /\ r.found = IF hits = {} THEN 0 ELSE (CHOOSE p \in hits : TRUE) + 1
  BY SearchIs
<1> HIDE DEF r, hits
<1>2. hits # {}
  BY <1>1 DEF r
<1>3. PICK p \in hits : r.found = p + 1
  BY <1>1, <1>2
<1> HIDE DEF a, n
<1>4. PICK i \in 0..(n - 1) : p = After(m, a, 2 * i)
  BY <1>3 DEF hits, Hits, LabelsOf
<1>5. p \in a..(Len(m) - 1)
  <2>1. a \in 1..(Len(m) + 1) /\ n \in Nat /\ After(m, a, 2 * n) # 0
    BY <1>1 DEF a, n
  <2> QED BY ONLY <1>4, <2>1, Counted(m), LabelInside
<1>6. IsNum(m[p], label)
  BY <1>3 DEF hits, Hits
<1>7. p + 1 \in 2..Len(m) /\ p + 1 - 1 = p
  <2>1. a \in 1..(Len(m) + 1) /\ Len(m) \in Nat
    BY DEF a, Counted
  <2> QED BY <1>5, <2>1
<1>8. ValueAt(m, a, n, label, p + 1)
  <2> DEFINE v == p + 1
  <2>0. a \in 1..(Len(m) + 1) /\ Len(m) \in Nat
    BY DEF a, Counted
  <2>1. v \in 2..Len(m) /\ v - 1 = p
    BY ONLY <1>5, <2>0
  <2> HIDE DEF v
  <2>2. ValueAt(m, a, n, label, v)
    BY ONLY <1>4, <1>6, <2>1 DEF ValueAt
  <2> QED BY ONLY <2>2 DEF v
<1> QED BY ONLY <1>1, <1>3, <1>8 DEF a, n, r

\* A search finds the value if the map ends and no other entry has the label.
Unique(m, a, n, label, k) ==
  /\ Counted(m) /\ a \in 1..(Len(m) + 1) /\ n \in Nat /\ After(m, a, 2 * n) # 0
  /\ k \in 0..(n - 1) /\ IsNum(m[After(m, a, 2 * k)], label)
  /\ \A i \in 0..(n - 1) : /\ m[After(m, a, 2 * i)][1] # "map"
                           /\ i # k => ~IsNum(m[After(m, a, 2 * i)], label)

LEMMA SearchFinds ==
  ASSUME NEW m, NEW where, NEW label, NEW k, Unique(m, where.first, where.count, label, k)
  PROVE  LET r == MapSearch(m, where, label)
         IN  /\ r.ok
             /\ r.found = After(m, where.first, 2 * k) + 1 /\ r.found # 0
             /\ r.end = After(m, where.first, 2 * where.count)
<1> DEFINE a == where.first
           n == where.count
           r == MapSearch(m, where, label)
           hits == Hits(m, a, n, label)
           p == After(m, a, 2 * k)
<1>1. /\ r.end = After(m, a, 2 * n)
      /\ r.found = IF hits = {} THEN 0 ELSE (CHOOSE q \in hits : TRUE) + 1
      /\ r.ok <=> /\ r.end # 0
                  /\ \A x, y \in hits : x = y
                  /\ \A x \in LabelsOf(m, a, n) : m[x][1] # "map"
  BY SearchIs
<1> HIDE DEF r, hits, a, n
<1>2. Unique(m, a, n, label, k)
  BY DEF a, n
<1>3. p \in a..(Len(m) - 1)
  BY ONLY <1>2, LabelInside DEF Unique
<1>4. hits = {p}
  <2>1. p \in hits
    <3>1. p \in LabelsOf(m, a, n)
      BY ONLY <1>2 DEF Unique, LabelsOf
    <3>2. p # 0 /\ p <= Len(m)
      BY ONLY <1>2, <1>3 DEF Unique, Counted
    <3>3. IsNum(m[p], label)
      BY ONLY <1>2 DEF Unique
    <3> QED BY ONLY <3>1, <3>2, <3>3 DEF hits, Hits
  <2>2. ASSUME NEW x \in hits PROVE x = p
    <3>1. PICK i \in 0..(n - 1) : x = After(m, a, 2 * i)
      BY ONLY x \in hits DEF hits, Hits, LabelsOf
    <3>2. IsNum(m[x], label)
      BY ONLY x \in hits DEF hits, Hits
    <3>3. i = k
      BY ONLY <1>2, <3>1, <3>2 DEF Unique
    <3> QED BY ONLY <3>1, <3>3
  <2> QED BY ONLY <2>1, <2>2
<1>5. r.found = p + 1
  BY ONLY <1>1, <1>4
<1>6. r.ok
  <2>1. r.end # 0
    BY ONLY <1>1, <1>2 DEF Unique
  <2>2. \A x \in LabelsOf(m, a, n) : m[x][1] # "map"
    BY ONLY <1>2 DEF Unique, LabelsOf
  <2> QED BY ONLY <1>1, <1>4, <2>1, <2>2
<1>7. p + 1 # 0
  BY ONLY <1>2, <1>3 DEF Unique
<1> QED BY ONLY <1>1, <1>5, <1>6, <1>7 DEF a, n, r

-----------------------------------------------------------------------------
(* What is sent, as it is read                                              *)

\* x items end at u, and y more are z.
LEMMA AfterThen ==
  ASSUME NEW m, Counted(m), NEW p \in 1..(Len(m) + 1), NEW x \in Nat, NEW y \in Nat, NEW z, z = x + y,
         NEW u, After(m, p, x) = u, u # 0
  PROVE  After(m, p, z) = After(m, u, y)
<1>1. \A i \in 1..(Len(m) + 1), n, k \in Nat :
        After(m, i, n + k) = IF After(m, i, n) = 0 THEN 0 ELSE After(m, After(m, i, n), k)
  BY ONLY Counted(m), AfterSum
<1>2. After(m, p, x + y) = IF After(m, p, x) = 0 THEN 0 ELSE After(m, After(m, p, x), y)
  BY <1>1
<1> QED BY <1>2

\* The same tokens at the same place.
LEMMA AfterSame ==
  ASSUME NEW w, NEW m, NEW a, NEW b, Alike(w, m, a, b, 0), NEW p \in a..b, NEW n \in Nat,
         After(w, p, n) # 0, After(w, p, n) <= b
  PROVE  After(m, p, n) = After(w, p, n)
<1> DEFINE z == 0
<1>1. Alike(w, m, a, b, z)
  OBVIOUS
<1>2. /\ Counted(w) /\ Len(w) \in Nat /\ p \in 1..(Len(w) + 1)
  BY DEF Alike, Counted
<1>3. \A i \in 1..(Len(w) + 1), k \in Nat : After(w, i, k) = 0 \/ After(w, i, k) \in (i + k)..(Len(w) + 1)
  BY ONLY <1>2, AfterEnds
<1>4. After(w, p, n) \in (p + n)..(Len(w) + 1)
  BY <1>2, <1>3
<1>5. After(w, p, n) \in Int /\ p \in Int
  BY <1>2, <1>4
<1> HIDE DEF z
<1>6. \A i \in a..b, k \in Nat :
        After(w, i, k) # 0 /\ After(w, i, k) <= b => After(m, i + z, k) = After(w, i, k) + z
  BY ONLY <1>1, AfterMoved
<1>7. After(m, p + z, n) = After(w, p, n) + z
  BY <1>6
<1>8. p + z = p /\ After(w, p, n) + z = After(w, p, n)
  BY <1>5 DEF z
<1> QED BY <1>7, <1>8

LEMMA SentAlike ==
  ASSUME NEW es \in Contents
  PROVE  LET d == Signed(es)
             q == Place(es)
             m == Sent(es)
         IN  /\ Counted(d) /\ Counted(m)
             /\ Alike(d, m, 2, q, 0) /\ Alike(d, m, q + 1, q + 11, 0)
<1> DEFINE d == Signed(es)
           q == Place(es)
           m == Sent(es)
<1>1. q \in Nat /\ q >= 3 /\ d \in Seq(Token) /\ Len(d) = q + 10
  BY SignedHas
<1>2. m \in Seq(Tokens(d)) /\ Len(m) = q + 12 /\ \A j \in 1..(q + 10) : j # q => m[j] = d[j]
  BY SentHas
<1>3. Counted(d) /\ Counted(m)
  <2> HIDE DEF d, m
  <2> QED BY <1>1, <1>2, TokenCounts, TokensCount
<1> HIDE DEF d, q, m
<1>4. Alike(d, m, 2, q, 0)
  <2>1. /\ q \in 1..(Len(d) + 1) /\ 2 \in 1..q /\ 0 \in Int /\ 2 + 0 >= 1 /\ q + 0 <= Len(m) + 1
    BY ONLY <1>1, <1>2
  <2>2. ASSUME NEW j \in 2..(q - 1) PROVE m[j + 0] = d[j]
    <3>1. j \in 1..(q + 10) /\ j # q /\ j + 0 = j
      BY ONLY <1>1, j \in 2..(q - 1)
    <3> QED BY ONLY <1>2, <3>1
  <2> QED BY ONLY <1>3, <2>1, <2>2 DEF Alike
<1>5. Alike(d, m, q + 1, q + 11, 0)
  <2> DEFINE a == q + 1
             b == q + 11
             z == 0
  <2>1. /\ b \in 1..(Len(d) + 1) /\ a \in 1..b /\ z \in Int /\ a + z >= 1 /\ b + z <= Len(m) + 1
    BY ONLY <1>1, <1>2
  <2>2. ASSUME NEW j \in a..(b - 1) PROVE m[j + z] = d[j]
    <3>1. j \in 1..(q + 10) /\ j # q /\ j + z = j
      BY ONLY <1>1, j \in a..(b - 1)
    <3> HIDE DEF z
    <3> QED BY ONLY <1>2, <3>1
  <2> HIDE DEF a, b, z
  <2>3. Alike(d, m, a, b, z)
    BY ONLY <1>3, <2>1, <2>2 DEF Alike
  <2> QED BY ONLY <2>3 DEF a, b, z
<1> QED BY ONLY <1>3, <1>4, <1>5 DEF d, q, m

\* The application's entries, the signature map behind them, and the maps in it.
LEMMA SentRead ==
  ASSUME NEW es \in Contents
  PROVE  LET m == Sent(es)
             q == Place(es)
             n == Len(es)
         IN  /\ Counted(m) /\ q \in Nat /\ q >= 3 /\ n \in Nat /\ Len(m) = q + 12
             /\ After(m, 2, 2 * n) = q - 1
             /\ \A i \in 0..(n - 1) : m[After(m, 2, 2 * i)] \in Labels
             /\ After(m, q + 1, 0) = q + 1 /\ After(m, q + 1, 2) = q + 3 /\ After(m, q + 1, 4) = q + 11
             /\ After(m, q + 1, 6) = q + 13
             /\ After(m, q + 5, 0) = q + 5 /\ After(m, q + 5, 2) = q + 7 /\ After(m, q + 5, 4) = q + 9
             /\ After(m, q + 5, 6) = q + 11
             /\ After(m, 2, 2 * (n + 1)) = q + 13 /\ After(m, 1, 1) = q + 13
<1> DEFINE d == Signed(es)
           q == Place(es)
           m == Sent(es)
           n == Len(es)
<1>1. q \in Nat /\ q >= 3 /\ n \in Nat /\ d \in Seq(Token) /\ Len(d) = q + 10 /\ d[1] = Map(n + 1) /\ d[q - 1] = Num(-1)
  BY SignedHas
<1>2. /\ m \in Seq(Tokens(d)) /\ Len(m) = q + 12 /\ \A j \in 1..(q + 10) : j # q => m[j] = d[j]
      /\ m[q] = Map(3) /\ m[q + 11] = Num(6) /\ m[q + 12] = Signature(d)
  BY SentHas
<1>3. Counted(d) /\ Counted(m) /\ Alike(d, m, 2, q, 0) /\ Alike(d, m, q + 1, q + 11, 0)
  BY SentAlike
<1>4. /\ After(d, 2, 2 * n) = q - 1
      /\ \A i \in 0..(n - 1) : After(d, 2, 2 * i) \in 2..(q - 2) /\ d[After(d, 2, 2 * i)] \in Labels
  BY SignedRead
<1>5. /\ After(d, q + 1, 2) = q + 3 /\ After(d, q + 1, 4) = q + 11
      /\ After(d, q + 5, 2) = q + 7 /\ After(d, q + 5, 4) = q + 9 /\ After(d, q + 5, 6) = q + 11
  BY SignedRead
<1> HIDE DEF d, q, m, n
<1>6. After(m, 2, 2 * n) = q - 1
  <2>1. 2 \in 2..q /\ 2 * n \in Nat /\ q - 1 # 0 /\ q - 1 <= q
    BY ONLY <1>1
  <2> DEFINE p == 2
             k == 2 * n
             u == q - 1
  <2>2. p \in p..q /\ k \in Nat /\ After(d, p, k) = u /\ u # 0 /\ u <= q /\ Alike(d, m, p, q, 0)
    BY ONLY <1>3, <1>4, <2>1
  <2> HIDE DEF p, k, u
  <2>3. After(m, p, k) = u
    BY ONLY <2>2, AfterSame
  <2> QED BY ONLY <2>3 DEF p, k, u
<1>7. ASSUME NEW i \in 0..(n - 1) PROVE m[After(m, 2, 2 * i)] \in Labels
  <2> DEFINE p == After(d, 2, 2 * i)
  <2>1. p \in 2..(q - 2) /\ d[p] \in Labels
    BY <1>4
  <2>2. 2 \in 2..q /\ 2 * i \in Nat
    BY ONLY <1>1, i \in 0..(n - 1)
  <2> HIDE DEF p
  <2>3. p # 0 /\ p <= q /\ p \in 1..(q + 10) /\ p # q
    BY ONLY <1>1, <2>1
  <2>4. After(m, 2, 2 * i) = p
    BY ONLY <1>3, <2>2, <2>3, AfterSame DEF p
  <2> QED BY ONLY <1>2, <2>1, <2>3, <2>4
<1> DEFINE a == q + 1
           b == q + 11
           c == q + 5
<1>8. After(m, a, 2) = q + 3 /\ After(m, a, 4) = b
  <2>1. a \in a..b /\ q + 3 # 0 /\ q + 3 <= b /\ b # 0 /\ b <= b /\ 2 \in Nat /\ 4 \in Nat
    BY ONLY <1>1
  <2>2. Alike(d, m, a, b, 0) /\ After(d, a, 2) = q + 3 /\ After(d, a, 4) = b
    BY ONLY <1>3, <1>5
  <2> HIDE DEF a, b
  <2> QED BY ONLY <2>1, <2>2, AfterSame
<1>9. After(m, c, 2) = q + 7 /\ After(m, c, 4) = q + 9 /\ After(m, c, 6) = b
  <2>1. /\ c \in a..b /\ q + 7 # 0 /\ q + 7 <= b /\ q + 9 # 0 /\ q + 9 <= b /\ b # 0 /\ b <= b
        /\ 2 \in Nat /\ 4 \in Nat /\ 6 \in Nat
    BY ONLY <1>1
  <2>2. Alike(d, m, a, b, 0) /\ After(d, c, 2) = q + 7 /\ After(d, c, 4) = q + 9 /\ After(d, c, 6) = b
    BY ONLY <1>3, <1>5
  <2> HIDE DEF a, b, c
  <2> QED BY ONLY <2>1, <2>2, AfterSame
<1>10. After(m, a, 0) = a /\ After(m, c, 0) = c
  <2>1. a \in 1..(Len(m) + 1) /\ c \in 1..(Len(m) + 1) /\ 0 \in Nat
    BY ONLY <1>1, <1>2
  <2> HIDE DEF a, c
  <2> QED BY ONLY <1>3, <2>1, AfterIs
<1>11. After(m, b, 2) = q + 13
  <2>1. b \in 1..(Len(m) - 1)
    BY ONLY <1>1, <1>2
  <2>2. Inside(m[b]) = 0
    BY ONLY <1>2 DEF Inside, Num
  <2>3. Inside(m[b + 1]) = 0
    <3>1. \A x : Signature(x)[1] = "str"
      BY DEF Signature
    <3>2. b + 1 = q + 12
      BY ONLY <1>1
    <3> QED BY ONLY <1>2, <3>1, <3>2 DEF Inside
  <2> DEFINE x == b + 2
  <2>4. x \in 1..(Len(m) + 1) /\ x = q + 13 /\ 0 \in Nat
    BY ONLY <1>1, <1>2
  <2> HIDE DEF b
  <2>5. After(m, b, 2) = After(m, b + 2, Inside(m[b + 1]))
    BY ONLY <1>3, <2>1, <2>2, EntryRead
  <2>6. After(m, b, 2) = After(m, x, 0)
    BY ONLY <2>3, <2>5
  <2> HIDE DEF x
  <2>7. After(m, x, 0) = x
    BY ONLY <1>3, <2>4, AfterIs
  <2> QED BY ONLY <2>4, <2>6, <2>7
<1>12. After(m, a, 6) = q + 13
  <2>1. a \in 1..(Len(m) + 1) /\ b # 0
    BY ONLY <1>1, <1>2
  <2> HIDE DEF a, b
  <2> DEFINE x == 4
             y == 2
             z == 6
  <2>2. x \in Nat /\ y \in Nat /\ z = x + y /\ After(m, a, x) = b /\ After(m, b, y) = q + 13
    BY ONLY <1>8, <1>11
  <2> HIDE DEF x, y, z
  <2>3. After(m, a, z) = After(m, b, y)
    BY ONLY <1>3, <2>1, <2>2, AfterThen
  <2> QED BY ONLY <2>2, <2>3 DEF z
<1>13. After(m, q - 1, 2) = q + 13
  <2> DEFINE v == q - 1
  <2>1. v \in 1..(Len(m) - 1) /\ v + 1 = q /\ v + 2 = a /\ v \in 1..(q + 10) /\ v # q
    BY ONLY <1>1, <1>2
  <2>2. m[v] = Num(-1)
    BY ONLY <1>1, <1>2, <2>1
  <2> HIDE DEF v, a
  <2>3. Inside(m[v]) = 0
    BY ONLY <2>2 DEF Inside, Num
  <2>4. Inside(m[v + 1]) = 6
    <3>1. Map(3)[1] = "map" /\ 2 * Map(3)[2] = 6
      BY DEF Map
    <3> QED BY ONLY <1>2, <2>1, <3>1 DEF Inside
  <2>5. After(m, v, 2) = After(m, v + 2, Inside(m[v + 1]))
    BY ONLY <1>3, <2>1, <2>3, EntryRead
  <2>6. After(m, v, 2) = After(m, a, 6)
    BY ONLY <2>1, <2>4, <2>5
  <2> QED BY ONLY <1>12, <2>6 DEF v
<1>14. After(m, 2, 2 * (n + 1)) = q + 13
  <2> DEFINE x == 2 * n
             y == 2
             z == 2 * (n + 1)
             p == 2
             u == q - 1
  <2>1. /\ x \in Nat /\ y \in Nat /\ z = x + y /\ p \in 1..(Len(m) + 1) /\ u # 0
    BY ONLY <1>1, <1>2
  <2>2. After(m, p, x) = u /\ After(m, u, y) = q + 13
    BY ONLY <1>6, <1>13
  <2> HIDE DEF x, y, z, p, u
  <2>3. After(m, p, z) = After(m, u, y)
    BY ONLY <1>3, <2>1, <2>2, AfterThen
  <2> QED BY ONLY <2>2, <2>3 DEF p, z
<1>15. After(m, 1, 1) = q + 13
  <2>1. 1 \in 1..(q + 10) /\ 1 # q /\ 1 \in 1..(Len(m) + 1) /\ 1 <= Len(m) /\ 1 \in Nat /\ 1 # 0
    BY ONLY <1>1, <1>2
  <2>2. m[1] = Map(n + 1)
    BY ONLY <1>1, <1>2, <2>1
  <2>3. Inside(m[1]) = 2 * (n + 1)
    BY ONLY <2>2 DEF Inside, Map
  <2>4. After(m, 1, 1) = After(m, 1 + 1, 1 - 1 + Inside(m[1]))
    BY ONLY <1>3, <2>1, AfterIs
  <2>5. 1 + 1 = 2 /\ 1 - 1 + 2 * (n + 1) = 2 * (n + 1)
    BY ONLY <1>1
  <2> QED BY ONLY <1>14, <2>3, <2>4, <2>5
<1> QED BY ONLY <1>1, <1>2, <1>3, <1>6, <1>7, <1>8, <1>9, <1>10, <1>12, <1>14, <1>15 DEF a, b, c, q, m, n

-----------------------------------------------------------------------------
(* The signer                                                               *)

Signing == {"application", "key", "csf", "sign", "add", "count", "send"}

\* What should have been written.
Due ==
  CASE pc = "application"      -> <<>>
    [] pc = "key"              -> Opening(entries)
    [] pc = "csf"              -> Labelled(entries)
    [] pc \in {"sign", "add"}  -> Signed(entries)
    [] OTHER                   -> Written(entries, signature)

\* x is a beginning of w.
Begins(x, w) == Len(x) <= Len(w) /\ \A i \in 1..Len(x) : x[i] = w[i]

\* All of it is there, or, after an overflow, a beginning of it; the signature is one of
\* what had been written.
SignerOK ==
  /\ entries \in Contents /\ length \in Nat
  /\ pc \in Signing => data \in Seq(Token \cup {signature})
  /\ pc \in Signing \ {"count", "send"} => data \in Seq(Token)
  /\ pc \in Signing \ {"send"} /\ length # 0 => data = Due /\ Len(data) <= length
  /\ pc \in Signing /\ length = 0 => Begins(data, Due)
  /\ pc \in {"csf", "sign", "add", "count"} /\ length # 0 => signatureMap = Len(Labelled(entries))
  /\ pc \notin Signing \ {"add", "count", "send"} /\ length # 0 => signature = Signature(Signed(entries))
  /\ pc \notin Signing \ {"send"} /\ length # 0 => data = Sent(entries)
  /\ pc \notin Signing => length # 0

\* putByte() writes all of it, or what there is room for.
LEMMA PutWorks ==
  ASSUME NEW T, data \in Seq(T), NEW w \in Seq(T), NEW ts \in Seq(T), length \in Nat, ts # <<>>,
         length # 0 => data = w /\ Len(data) <= length, length = 0 => Begins(data, w), Put(ts)
  PROVE  /\ data' \in Seq(T) /\ length' \in Nat
         /\ length' # 0 => length # 0 /\ data' = Join(w, ts) /\ Len(data') <= length'
         /\ length' = 0 => Begins(data', Join(w, ts))
<1> DEFINE room == IF length = 0 THEN 0 ELSE length - Len(data)
           j == Join(w, ts)
<1>1. Len(data) \in Nat /\ Len(w) \in Nat /\ Len(ts) \in Nat /\ Len(ts) # 0
  BY EmptySeq
<1>2. room \in Nat
  BY <1>1
<1>3. /\ j \in Seq(T) /\ Len(j) = Len(w) + Len(ts)
      /\ \A i \in 1..(Len(w) + Len(ts)) : j[i] = IF i <= Len(w) THEN w[i] ELSE ts[i - Len(w)]
  BY JoinTwo, JoinHas
<1>4. CASE Len(ts) <= room
  <2>1. length # 0 /\ data = w
    BY <1>1, <1>4
  <2>a. data' = data \o ts /\ length' = length
    BY <1>4 DEF Put
  <2>b. length' = length /\ data' = j
    BY <2>1, <2>a DEF Join
  <2>2. Len(data') <= length'
    BY <1>1, <1>3, <1>4, <2>1, <2>b
  <2> HIDE DEF j
  <2> QED BY <1>3, <2>1, <2>2, <2>b DEF j
<1>5. CASE ~(Len(ts) <= room)
  <2> DEFINE u == Slice(ts, 0, room)
  <2>1. data' = Join(data, u) /\ length' = 0
    <3>1. 0 + 1 = 1
      OBVIOUS
    <3> QED BY <1>5, <3>1 DEF Put, Join, Slice
  <2>2. room \in 0..Len(ts) /\ 0 \in 0..room
    BY <1>1, <1>2, <1>5
  <2> HIDE DEF room
  <2>3. u \in Seq(T) /\ Len(u) = room /\ \A i \in 1..room : u[i] = ts[i]
    <3>1. u \in Seq(T) /\ Len(u) = room - 0 /\ \A i \in 1..(room - 0) : u[i] = ts[0 + i]
      BY <2>2, SliceIs
    <3>2. room - 0 = room /\ \A i \in 1..room : 0 + i = i
      BY <1>2
    <3> HIDE DEF u
    <3> QED BY ONLY <3>1, <3>2
  <2> HIDE DEF u, j
  <2>4. /\ data' \in Seq(T) /\ Len(data') = Len(data) + room
        /\ \A i \in 1..(Len(data) + room) : data'[i] = IF i <= Len(data) THEN data[i] ELSE u[i - Len(data)]
    BY ONLY <2>1, <2>3, data \in Seq(T), JoinTwo, JoinHas
  <2>5. CASE length = 0
    <3>1. room = 0 /\ Begins(data, w)
      BY <2>5 DEF room
    <3>2. Len(data') = Len(data) /\ \A i \in 1..Len(data) : data'[i] = data[i]
      BY ONLY <1>1, <2>4, <3>1
    <3>3. Len(data') <= Len(j) /\ \A i \in 1..Len(data') : data'[i] = j[i]
      <4>1. Len(data) <= Len(w) /\ \A i \in 1..Len(data) : data[i] = w[i]
        BY <3>1 DEF Begins
      <4>2. Len(data) <= Len(j) /\ \A i \in 1..Len(data) : i \in 1..(Len(w) + Len(ts)) /\ i <= Len(w)
        BY ONLY <1>1, <1>3, <4>1
      <4> QED BY ONLY <1>3, <3>2, <4>1, <4>2
    <3>4. Begins(data', j)
      BY ONLY <3>3 DEF Begins
    <3> QED BY ONLY <2>1, <2>4, <3>4 DEF j
  <2>6. CASE length # 0
    <3>1. data = w
      BY <2>6
    <3>2. \A i \in 1..(Len(w) + room) : i \in 1..(Len(w) + Len(ts)) /\ (~(i <= Len(w)) => i - Len(w) \in 1..room)
      BY ONLY <1>1, <1>2, <2>2
    <3>3. Len(data') <= Len(j) /\ \A i \in 1..Len(data') : data'[i] = j[i]
      <4>1. Len(w) + room <= Len(w) + Len(ts)
        BY ONLY <1>1, <1>2, <2>2
      <4> QED BY ONLY <1>3, <2>3, <2>4, <3>1, <3>2, <4>1
    <3>4. Begins(data', j)
      BY ONLY <3>3 DEF Begins
    <3> QED BY ONLY <2>1, <2>4, <3>4 DEF j
  <2> QED BY ONLY <2>5, <2>6
<1> QED BY ONLY <1>4, <1>5

\* What is due after each call is what was due before and what the call writes.
LEMMA DueMore ==
  ASSUME NEW es \in Contents, NEW sig
  PROVE  /\ Opening(es) \in Seq(Token) /\ Labelled(es) \in Seq(Token) /\ Signed(es) \in Seq(Token)
         /\ Opening(es) # <<>>
         /\ <<Num(APP_SIGNATURE_LABEL)>> \in Seq(Token) /\ <<Num(APP_SIGNATURE_LABEL)>> # <<>>
         /\ CsfMap \in Seq(Token) /\ CsfMap # <<>>
         /\ <<Num(SIGNATURE_LABEL), sig>> \in Seq(Token \cup {sig}) /\ <<Num(SIGNATURE_LABEL), sig>> # <<>>
         /\ Join(<<>>, Opening(es)) = Opening(es)
         /\ Join(Opening(es), <<Num(APP_SIGNATURE_LABEL)>>) = Labelled(es)
         /\ Join(Labelled(es), CsfMap) = Signed(es)
         /\ Join(Signed(es), <<Num(SIGNATURE_LABEL), sig>>) = Written(es, sig)
<1> DEFINE h == <<Map(Len(es) + 1)>>
           l == <<Num(APP_SIGNATURE_LABEL)>>
           r == <<Num(SIGNATURE_LABEL), sig>>
<1>1. Len(es) \in Nat
  BY SignedHas
<1>2. h \in Seq(Token) /\ Len(h) = 1 /\ l \in Seq(Token) /\ l # <<>> /\ r \in Seq(Token \cup {sig}) /\ r # <<>>
  <2>1. Map(Len(es) + 1) \in Token /\ Num(-1) \in Token /\ Num(6) \in Token
    BY <1>1, TokensHere
  <2> QED BY <2>1 DEF APP_SIGNATURE_LABEL, SIGNATURE_LABEL
<1>3. CsfMap \in Seq(Token) /\ CsfMap # <<>>
  <2>1. CsfMap \in Seq(Token) /\ Len(CsfMap) = 11 /\ Len(<<>>) = 0
    BY CsfMapHas
  <2> QED BY <2>1
<1>4. /\ Join(h, Flatten(es)) = Opening(es) /\ Join(Opening(es), l) = Labelled(es)
      /\ Join(Labelled(es), CsfMap) = Signed(es) /\ Join(Signed(es), r) = Written(es, sig)
  BY DEF Opening, Labelled, Signed, Written, Join
<1>5. Flatten(es) \in Seq(Token)
  BY FlattenRight DEF Entries
<1> HIDE DEF h, l, r
<1>6. Opening(es) \in Seq(Token) /\ Len(Opening(es)) = 1 + Len(Flatten(es))
  BY ONLY <1>2, <1>4, <1>5, JoinTwo
<1>7. Labelled(es) \in Seq(Token)
  BY ONLY <1>2, <1>4, <1>6, JoinTwo
<1>8. Signed(es) \in Seq(Token)
  BY ONLY <1>3, <1>4, <1>7, JoinTwo
<1>9. Join(<<>>, Opening(es)) = Opening(es)
  BY ONLY <1>6, JoinEmpty
<1>10. Opening(es) # <<>>
  <2>1. Len(Flatten(es)) \in Nat /\ Len(<<>>) = 0
    BY <1>5
  <2> QED BY <1>6, <2>1
<1> QED BY ONLY <1>2, <1>3, <1>4, <1>6, <1>7, <1>8, <1>9, <1>10 DEF l, r

\* The count is brought up to date where it is.
LEMMA WrittenCounted ==
  ASSUME NEW es \in Contents
  PROVE  LET w == Written(es, Signature(Signed(es)))
         IN  [w EXCEPT ![Len(Labelled(es)) + 1] = Map(@[2] + 1)] = Sent(es)
<1> DEFINE d == Signed(es)
           r == <<Num(SIGNATURE_LABEL), Signature(d)>>
           q == Place(es)
           w == Written(es, Signature(d))
           T == Token \cup {Signature(d)}
<1>1. q \in Nat /\ q >= 3 /\ d \in Seq(Token) /\ Len(d) = q + 10
  BY SignedHas
<1>2. d[q] = Map(2)
  BY SignedTokens
<1>3. r \in Seq(T) /\ w = Join(d, r)
  BY DueMore
<1> HIDE DEF d, q, r, T
<1>4. w[q] = d[q]
  <2>1. d \in Seq(T)
    BY <1>1 DEF T
  <2>2. \A j \in 1..(Len(d) + Len(r)) : w[j] = IF j <= Len(d) THEN d[j] ELSE r[j - Len(d)]
    BY ONLY <1>3, <2>1, JoinHas
  <2>3. Len(r) \in Nat
    BY <1>3
  <2>4. q \in 1..(Len(d) + Len(r)) /\ q <= Len(d)
    BY ONLY <1>1, <2>3
  <2> QED BY ONLY <2>2, <2>4
<1> HIDE DEF w
<1>5. Map(w[q][2] + 1) = Map(3)
  <2>1. Map(2)[2] + 1 = 3
    BY DEF Map
  <2> QED BY ONLY <1>2, <1>4, <2>1
<1>6. [w EXCEPT ![q] = Map(@[2] + 1)] = [w EXCEPT ![q] = Map(3)]
  BY ONLY <1>5
<1>7. Len(Labelled(es)) + 1 = q /\ Sent(es) = [w EXCEPT ![q] = Map(3)]
  BY DEF q, Place, w, d, Sent
<1> QED BY ONLY <1>6, <1>7 DEF w, d

\* The verifier, and the channel, leave what the signer has.
LEMMA SignerLeft ==
  ASSUME [Next]_vars, pc \notin Signing
  PROVE  pc' \notin Signing /\ UNCHANGED signer
<1>1. CASE UNCHANGED vars
  BY <1>1 DEF vars, signer
<1>2. CASE WriteApplication \/ WriteKey \/ WriteCsfMap \/ Sign \/ AddSignature \/ CountSignature \/ Send
  BY <1>2 DEF Signing, WriteApplication, WriteKey, WriteCsfMap, Sign, AddSignature, CountSignature, Send
<1>3. CASE Damage \/ EnterSignatureMap \/ EnterPublicKey \/ ExitPublicKey \/ ExitSignatureMap
           \/ StripSignature \/ Verify
  BY <1>3 DEF Signing, Goto, Damage, EnterSignatureMap, EnterPublicKey, ExitPublicKey, ExitSignatureMap,
              StripSignature, Verify
<1>4. CASE GetAlgorithm \/ GetKeyType \/ GetCurve \/ GetX \/ GetSignature
  <2>1. \A h \in BOOLEAN, s \in {"publicKey", "curve", "x", "exitKey", "exit"} : Expect(h, s) => pc' \in {s, "abort"}
    BY DEF Expect
  <2> QED BY <1>4, <2>1 DEF Signing, GetAlgorithm, GetKeyType, GetCurve, GetX, GetSignature, Expect
<1> QED BY <1>1, <1>2, <1>3, <1>4 DEF Next

LEMMA SignerInit ==
  Init => SignerOK
<1> SUFFICES ASSUME Init PROVE SignerOK
  OBVIOUS
<1>1. pc = "application" /\ entries \in Contents /\ data = <<>> /\ length \in Nat
  BY LengthsAssumption DEF Init
<1>2. data \in Seq(Token) /\ data \in Seq(Token \cup {signature}) /\ Len(data) = 0
  BY <1>1
<1>3. Due = <<>>
  BY <1>1 DEF Due
<1>4. Begins(data, Due)
  BY <1>1, <1>2, <1>3 DEF Begins
<1> QED BY <1>1, <1>2, <1>3, <1>4 DEF SignerOK, Signing

LEMMA SignerNext ==
  SignerOK /\ [Next]_vars => SignerOK'
<1> SUFFICES ASSUME SignerOK, [Next]_vars PROVE SignerOK'
  OBVIOUS
<1>1. entries \in Contents /\ length \in Nat
  BY DEF SignerOK
<1> DEFINE T == Token \cup {signature}
           l == <<Num(APP_SIGNATURE_LABEL)>>
           r == <<Num(SIGNATURE_LABEL), signature>>
<1>2. /\ Opening(entries) \in Seq(Token) /\ Labelled(entries) \in Seq(Token) /\ Signed(entries) \in Seq(Token)
      /\ Opening(entries) # <<>> /\ l \in Seq(Token) /\ l # <<>> /\ CsfMap \in Seq(Token) /\ CsfMap # <<>>
      /\ r \in Seq(T) /\ r # <<>>
      /\ Join(<<>>, Opening(entries)) = Opening(entries) /\ Join(Opening(entries), l) = Labelled(entries)
      /\ Join(Labelled(entries), CsfMap) = Signed(entries) /\ Join(Signed(entries), r) = Written(entries, signature)
  BY <1>1, DueMore
<1>3. CASE WriteApplication
  <2>1. /\ pc = "application" /\ pc' = "key" /\ entries' = entries /\ signature' = signature
        /\ Put(Opening(entries))
    BY <1>3 DEF WriteApplication, Goto, Opening
  <2>2. data \in Seq(Token) /\ (length # 0 => data = <<>> /\ Len(data) <= length) /\ (length = 0 => Begins(data, <<>>))
    BY <2>1 DEF SignerOK, Signing, Due
  <2>3. /\ data' \in Seq(Token) /\ length' \in Nat
        /\ length' # 0 => data' = Opening(entries) /\ Len(data') <= length'
        /\ length' = 0 => Begins(data', Opening(entries))
    <3>1. <<>> \in Seq(Token)
      OBVIOUS
    <3> QED BY ONLY <1>1, <1>2, <2>1, <2>2, <3>1, PutWorks
  <2>4. Due' = Opening(entries)
    BY <2>1 DEF Due
  <2>5. data' \in Seq(Token \cup {signature'})
    BY <2>3
  <2> QED BY ONLY <1>1, <2>1, <2>3, <2>4, <2>5 DEF SignerOK, Signing
<1>4. CASE WriteKey
  <2>1. /\ pc = "key" /\ pc' = "csf" /\ entries' = entries /\ signature' = signature
        /\ Put(l) /\ signatureMap' = Len(data')
    BY <1>4 DEF WriteKey, Goto
  <2>2. /\ data \in Seq(Token)
        /\ length # 0 => data = Opening(entries) /\ Len(data) <= length
        /\ length = 0 => Begins(data, Opening(entries))
    BY <2>1 DEF SignerOK, Signing, Due
  <2> HIDE DEF l
  <2>3. /\ data' \in Seq(Token) /\ length' \in Nat
        /\ length' # 0 => data' = Labelled(entries) /\ Len(data') <= length'
        /\ length' = 0 => Begins(data', Labelled(entries))
    BY ONLY <1>1, <1>2, <2>1, <2>2, PutWorks
  <2>4. Due' = Labelled(entries)
    BY <2>1 DEF Due
  <2>5. data' \in Seq(Token \cup {signature'})
    BY <2>3
  <2> QED BY ONLY <1>1, <2>1, <2>3, <2>4, <2>5 DEF SignerOK, Signing
<1>5. CASE WriteCsfMap
  <2>1. /\ pc = "csf" /\ pc' = "sign" /\ entries' = entries /\ signature' = signature
        /\ Put(CsfMap) /\ signatureMap' = signatureMap
    BY <1>5 DEF WriteCsfMap, Goto
  <2>2. /\ data \in Seq(Token)
        /\ length # 0 => data = Labelled(entries) /\ Len(data) <= length
        /\ length = 0 => Begins(data, Labelled(entries))
        /\ length # 0 => signatureMap = Len(Labelled(entries))
    BY <2>1 DEF SignerOK, Signing, Due
  <2>3. /\ data' \in Seq(Token) /\ length' \in Nat
        /\ length' # 0 => length # 0 /\ data' = Signed(entries) /\ Len(data') <= length'
        /\ length' = 0 => Begins(data', Signed(entries))
    BY ONLY <1>1, <1>2, <2>1, <2>2, PutWorks
  <2>4. Due' = Signed(entries)
    BY <2>1 DEF Due
  <2>5. data' \in Seq(Token \cup {signature'})
    BY <2>3
  <2> QED BY ONLY <1>1, <2>1, <2>2, <2>3, <2>4, <2>5 DEF SignerOK, Signing
<1>6. CASE Sign
  <2>1. /\ pc = "sign" /\ pc' = "add" /\ entries' = entries /\ signature' = Signature(data)
        /\ data' = data /\ length' = length /\ signatureMap' = signatureMap
    BY <1>6 DEF Sign, Goto
  <2>2. /\ data \in Seq(Token)
        /\ length # 0 => data = Signed(entries) /\ Len(data) <= length
        /\ length = 0 => Begins(data, Signed(entries))
        /\ length # 0 => signatureMap = Len(Labelled(entries))
    BY <2>1 DEF SignerOK, Signing, Due
  <2>4. Due' = Signed(entries)
    BY <2>1 DEF Due
  <2>5. data' \in Seq(Token \cup {signature'})
    BY <2>1, <2>2
  <2> QED BY ONLY <1>1, <2>1, <2>2, <2>4, <2>5 DEF SignerOK, Signing
<1>7. CASE AddSignature
  <2>1. /\ pc = "add" /\ pc' = "count" /\ entries' = entries /\ signature' = signature
        /\ Put(r) /\ signatureMap' = signatureMap
    BY <1>7 DEF AddSignature, Goto
  <2>2. /\ data \in Seq(Token)
        /\ length # 0 => data = Signed(entries) /\ Len(data) <= length
        /\ length = 0 => Begins(data, Signed(entries))
        /\ length # 0 => signatureMap = Len(Labelled(entries)) /\ signature = Signature(Signed(entries))
    BY <2>1 DEF SignerOK, Signing, Due
  <2>3. data \in Seq(T) /\ Signed(entries) \in Seq(T)
    BY <1>2, <2>2
  <2> HIDE DEF r, T
  <2>4. /\ data' \in Seq(T) /\ length' \in Nat
        /\ length' # 0 => length # 0 /\ data' = Written(entries, signature) /\ Len(data') <= length'
        /\ length' = 0 => Begins(data', Written(entries, signature))
    BY ONLY <1>1, <1>2, <2>1, <2>2, <2>3, PutWorks
  <2>5. Due' = Written(entries, signature)
    BY <2>1 DEF Due
  <2> QED BY ONLY <1>1, <2>1, <2>2, <2>4, <2>5 DEF SignerOK, Signing, T
<1>8. CASE CountSignature
  <2>1. /\ pc = "count" /\ pc' = "send" /\ entries' = entries /\ signature' = signature
        /\ length' = length
        /\ data' = IF length = 0 THEN data ELSE [data EXCEPT ![signatureMap + 1] = Map(@[2] + 1)]
    BY <1>8 DEF CountSignature, Goto
  <2>2. /\ data \in Seq(T)
        /\ length # 0 => data = Written(entries, signature)
        /\ length = 0 => Begins(data, Written(entries, signature))
        /\ length # 0 => signatureMap = Len(Labelled(entries)) /\ signature = Signature(Signed(entries))
    BY <2>1 DEF SignerOK, Signing, Due
  <2>3. length # 0 => data' = Sent(entries)
    <3> SUFFICES ASSUME length # 0 PROVE data' = Sent(entries)
      OBVIOUS
    <3> DEFINE w == Written(entries, Signature(Signed(entries)))
    <3>1. data = w /\ signatureMap = Len(Labelled(entries))
      BY <2>2
    <3>2. [w EXCEPT ![Len(Labelled(entries)) + 1] = Map(@[2] + 1)] = Sent(entries)
      BY <1>1, WrittenCounted
    <3> HIDE DEF w
    <3> QED BY ONLY <2>1, <3>1, <3>2, length # 0
  <2>4. data' \in Seq(T)
    <3>1. CASE length = 0
      BY <2>1, <2>2, <3>1
    <3>2. CASE length # 0
      <4>1. signature = Signature(Signed(entries))
        BY <2>2, <3>2
      <4> DEFINE m == Sent(entries)
                 d == Signed(entries)
                 q == Place(entries)
      <4>2. /\ m \in Seq(Tokens(d)) /\ Len(m) = q + 12
            /\ m[q] = Map(3) /\ m[q + 11] = Num(6) /\ m[q + 12] = Signature(d)
            /\ \A j \in 1..(q + 10) : j # q => m[j] = d[j]
        BY <1>1, SentHas
      <4>3. d \in Seq(Token) /\ Len(d) = q + 10 /\ q \in Nat
        BY <1>1, SignedHas
      <4>4. Map(3) \in Token /\ Num(6) \in Token
        BY TokensHere
      <4> HIDE DEF m, d, q
      <4>5. \A j \in 1..(q + 12) : m[j] \in Token \cup {Signature(d)}
        <5> SUFFICES ASSUME NEW j \in 1..(q + 12) PROVE m[j] \in Token \cup {Signature(d)}
          OBVIOUS
        <5>1. CASE j = q \/ j = q + 11 \/ j = q + 12
          BY ONLY <4>2, <4>4, <5>1
        <5>2. CASE j # q /\ j # q + 11 /\ j # q + 12
          <6>1. j \in 1..(q + 10)
            BY ONLY <4>3, <5>2, j \in 1..(q + 12)
          <6>2. d[j] \in Token
            BY ONLY <4>3, <6>1, ElementOfSeq
          <6> QED BY ONLY <4>2, <5>2, <6>1, <6>2
        <5> QED BY ONLY <5>1, <5>2
      <4>6. m \in Seq(Token \cup {Signature(d)})
        <5>1. m = [j \in 1..Len(m) |-> m[j]] /\ Len(m) \in Nat
          BY <4>2
        <5> QED BY ONLY <4>2, <4>5, <5>1, IsASeq
      <4> QED BY <2>3, <3>2, <4>1, <4>6 DEF m, d
    <3> QED BY <3>1, <3>2
  <2>5. length = 0 => Begins(data', Written(entries, signature))
    BY ONLY <2>1, <2>2
  <2>6. Due' = Written(entries, signature)
    BY <2>1 DEF Due
  <2> QED BY ONLY <1>1, <2>1, <2>2, <2>3, <2>4, <2>5, <2>6 DEF SignerOK, Signing
<1>9. CASE Send
  <2>1. /\ pc = "send" /\ pc' = "enter" /\ length # 0 /\ UNCHANGED signer
    BY <1>9 DEF Send, Goto
  <2> QED BY ONLY <1>1, <2>1, SignerOK DEF SignerOK, Signing, signer
<1>10. CASE pc \notin Signing
  <2>1. pc' \notin Signing /\ UNCHANGED signer
    BY <1>10, SignerLeft
  <2> QED BY ONLY <1>1, <1>10, <2>1, SignerOK DEF SignerOK, Signing, signer
<1>11. CASE UNCHANGED vars
  BY <1>11 DEF SignerOK, vars, signer, Due
<1>12. ASSUME Next, pc \in Signing
       PROVE  WriteApplication \/ WriteKey \/ WriteCsfMap \/ Sign \/ AddSignature \/ CountSignature \/ Send
  BY <1>12 DEF Next, Signing, Damage, EnterSignatureMap, EnterPublicKey, ExitPublicKey, ExitSignatureMap,
               StripSignature, Verify, GetAlgorithm, GetKeyType, GetCurve, GetX, GetSignature
<1> QED BY <1>3, <1>4, <1>5, <1>6, <1>7, <1>8, <1>9, <1>10, <1>11, <1>12

\* SignedOrUntouched: for any buffer and any entries, what is signed is one complete item
\* with the signature in it, and what overflowed is a beginning of what was to be written.
THEOREM SignedRight ==
  Spec => []SignedOrUntouched
<1>1. SignerOK => SignedOrUntouched
  <2> SUFFICES ASSUME SignerOK, pc = "send" PROVE SignedOrUntouched
    BY DEF SignedOrUntouched
  <2> DEFINE W == Written(entries, signature)
             T == Token \cup {signature}
  <2>1. entries \in Contents /\ data \in Seq(T)
    BY DEF SignerOK, Signing
  <2>2. ASSUME length # 0
        PROVE  After(data, 1, 1) = Len(data) + 1 /\ \E p \in 1..Len(data) : data[p] = signature
    <3> DEFINE q == Place(entries)
               m == Sent(entries)
    <3>1. data = m /\ signature = Signature(Signed(entries))
      BY <2>2 DEF SignerOK, Signing
    <3>2. After(m, 1, 1) = q + 13 /\ Len(m) = q + 12 /\ q \in Nat
      BY <2>1, SentRead
    <3>3. m[q + 12] = Signature(Signed(entries))
      BY <2>1, SentHas
    <3> HIDE DEF m, q
    <3>4. q + 12 \in 1..Len(m) /\ q + 13 = Len(m) + 1
      BY ONLY <3>2
    <3> QED BY ONLY <3>1, <3>2, <3>3, <3>4
  <2>3. ASSUME length = 0
        PROVE  data = SubSeq(W, 1, Len(data))
    <3>1. Begins(data, W)
      BY <2>3 DEF SignerOK, Signing, Due
    <3>2. W \in Seq(T)
      <4> DEFINE r == <<Num(SIGNATURE_LABEL), signature>>
      <4>1. Signed(entries) \in Seq(Token) /\ r \in Seq(T) /\ W = Join(Signed(entries), r)
        BY <2>1, DueMore
      <4>2. Signed(entries) \in Seq(T)
        BY <4>1
      <4> HIDE DEF T, W, r
      <4> QED BY ONLY <4>1, <4>2, JoinTwo
    <3> HIDE DEF W, T
    <3> DEFINE n == Len(data)
               u == Slice(W, 0, n)
    <3>3. n \in 0..Len(W) /\ 0 \in 0..n /\ n - 0 = n /\ n \in Nat /\ \A i \in 1..n : 0 + i = i
      <4>1. n \in Nat /\ Len(W) \in Nat
        BY <2>1, <3>2
      <4> QED BY <3>1, <4>1 DEF Begins
    <3>4. u \in Seq(T) /\ Len(u) = n - 0 /\ \A i \in 1..(n - 0) : u[i] = W[0 + i]
      BY <3>2, <3>3, SliceIs
    <3> HIDE DEF u, n
    <3>5. u \in Seq(T) /\ Len(u) = n /\ \A i \in 1..n : u[i] = W[i]
      BY ONLY <3>3, <3>4
    <3>6. data = u
      <4>1. \A i \in 1..n : data[i] = W[i]
        BY <3>1 DEF Begins, n
      <4>2. n = Len(data)
        BY DEF n
      <4> QED BY ONLY <2>1, <3>5, <4>1, <4>2, SeqEqual
    <3> QED BY <3>6 DEF u, n, Slice
  <2>4. W = <<Map(Len(entries) + 1)>> \o Flatten(entries) \o <<Num(APP_SIGNATURE_LABEL)>> \o CsfMap
              \o <<Num(SIGNATURE_LABEL), signature>>
    BY DEF Written, Signed, Labelled, Opening
  <2> HIDE DEF W
  <2> QED BY <2>2, <2>3, <2>4 DEF SignedOrUntouched
<1> QED BY <1>1, SignerInit, SignerNext, PTL DEF Spec

-----------------------------------------------------------------------------
(* The verifier                                                             *)

Inner == {"keyType", "curve", "x", "exitKey"}
InCsf == {"algorithm", "publicKey", "signature", "exit", "strip", "verify", "accept"}

\* The entries of a map at p, once it is entered.
Entered(m, p) == [first |-> p + 1, count |-> m[p][2]]

Names == {"algorithm", "keyType", "curveId", "x", "signature"}

\* What was found in the message, as long as no read failed.
VerifierOK ==
  LET r == original.received
      s == signatureMap
      t == Tokens(Signed(entries))
  IN  /\ pc \notin Signing => original \in [sent : Seq(t), received : Seq(t)] /\ original.sent = Sent(entries)
      /\ pc \notin Signing \cup {"verify", "accept", "reject"} => message = r
      /\ pc \in Signing \cup {"enter", "strip", "verify", "accept", "reject"} => ~uLastError
      /\ DOMAIN got = Names
      /\ pc \in Inner \cup InCsf /\ ~uLastError =>
           /\ CsfAt(r, s)
           /\ pc \in {"algorithm", "publicKey", "signature"} => map = Entered(r, s)
           /\ pc \in Inner => outerMap = Entered(r, s)
           /\ pc \in Inner => \E k \in 1..Len(r) : /\ KeyAt(r, s, k) /\ map = Entered(r, k)
                                                   /\ pc = "exitKey" => /\ cursor = After(r, k + 1, 2 * r[k][2])
                                                                        /\ cursor # 0
           /\ pc \in {"signature", "exit", "strip", "verify", "accept"} =>
                \E k \in 1..Len(r) : Read(r, s, k, beforeSignature)
           /\ pc \in {"exit", "strip", "verify", "accept"} =>
                /\ \E g \in 1..Len(r) : ValueAt(r, s + 1, r[s][2], SIGNATURE_LABEL, g) /\ got.signature = r[g]
                /\ After(r, s + 1, 2 * r[s][2]) = Len(r) + 1
           /\ pc \in {"verify", "accept"} => message = Stripped(r, s, beforeSignature)
           /\ pc = "accept" => got.signature = Signature(message)

\* What a message that was not changed is read as.
AsSent ==
  LET q == Place(entries)
  IN  /\ ~uLastError /\ pc \notin {"reject", "abort"}
      /\ pc # "enter" => signatureMap = q
      /\ pc = "exitKey" => cursor = q + 11
      /\ pc \in {"algorithm", "publicKey", "signature"} => map = [first |-> q + 1, count |-> 3]
      /\ pc \in Inner => /\ map = [first |-> q + 5, count |-> 3]
                         /\ outerMap = [first |-> q + 1, count |-> 3]
      /\ pc \in {"exitKey", "signature", "exit", "strip", "verify", "accept"} => got.x = Str("key")
      /\ pc \in {"signature", "exit", "strip"} => beforeSignature = q + 11
      /\ pc \in {"exit", "strip", "verify"} => got.signature = Signature(Signed(entries))
      /\ pc = "verify" => message = Signed(entries)

ReadAsSent == pc \notin Signing /\ original.received = original.sent => AsSent

LEMMA EnteredIs ==
  ASSUME NEW d, NEW m \in Seq(Tokens(d)), NEW p \in 1..Len(m), m[p][1] = "map"
  PROVE  LET w == Entered(m, p)
         IN  w.first = p + 1 /\ w.count = m[p][2] /\ w.first \in 1..(Len(m) + 1) /\ w.count \in Nat
<1>1. m[p][2] \in Nat
  <2>1. m[p] \in Tokens(d)
    BY ElementOfSeq
  <2> QED BY <2>1, TokenIs
<1>2. Len(m) \in Nat /\ p + 1 \in 1..(Len(m) + 1)
  OBVIOUS
<1> QED BY <1>1, <1>2 DEF Entered

\* A map that is entered is one with the label, or there is an error.
LEMMA EnterGives ==
  ASSUME Counted(message), NEW where, where.first \in 1..(Len(message) + 1), where.count \in Nat, NEW label,
         Enter(where, label), ~uLastError'
  PROVE  /\ ~uLastError
         /\ \E p \in 1..Len(message) :
              /\ ValueAt(message, where.first, where.count, label, p) /\ message[p][1] = "map"
              /\ map' = Entered(message, p) /\ outerMap' = where /\ cursor' = p + 1
<1> DEFINE r == MapSearch(message, where, label)
           p == r.found
<1>1. Found(where, label, "map")
  BY DEF Enter
<1>2. ~uLastError /\ r.ok /\ p # 0 /\ message[p][1] = "map"
  BY <1>1 DEF Found
<1>3. ValueAt(message, where.first, where.count, label, p)
  BY <1>2, SearchFound
<1>4. map' = Entered(message, p) /\ outerMap' = where /\ cursor' = p + 1
  BY <1>1 DEF Enter, Entered
<1> HIDE DEF p, r
<1>5. p \in 1..Len(message)
  BY <1>3 DEF ValueAt, Counted
<1> QED BY <1>2, <1>3, <1>4, <1>5

\* A value that is read is one with the label, or there is an error.
LEMMA GetGives ==
  ASSUME Counted(message), map.first \in 1..(Len(message) + 1), map.count \in Nat,
         NEW label, NEW kind, NEW name, Get(label, kind, name), ~uLastError'
  PROVE  /\ ~uLastError
         /\ cursor' = After(message, map.first, 2 * map.count) /\ cursor' # 0
         /\ \E v \in 1..Len(message) :
              /\ ValueAt(message, map.first, map.count, label, v) /\ message[v][1] = kind
              /\ got' = [got EXCEPT ![name] = message[v]]
<1> DEFINE r == MapSearch(message, map, label)
           v == r.found
<1>1. Found(map, label, kind)
  BY DEF Get
<1>2. ~uLastError /\ r.ok /\ v # 0 /\ message[v][1] = kind
  BY <1>1 DEF Found
<1>3. ValueAt(message, map.first, map.count, label, v) /\ r.end = After(message, map.first, 2 * map.count) /\ r.end # 0
  BY <1>2, SearchFound
<1>4. got' = [got EXCEPT ![name] = message[v]] /\ cursor' = r.end
  BY <1>1 DEF Get
<1> HIDE DEF v, r
<1>5. v \in 1..Len(message)
  BY <1>3 DEF ValueAt, Counted
<1> QED BY <1>2, <1>3, <1>4, <1>5

\* Whatever is read, an error stays, and got keeps its names.
LEMMA GetKeeps ==
  ASSUME NEW label, NEW kind, NEW name, Get(label, kind, name)
  PROVE  (~uLastError' => ~uLastError) /\ DOMAIN got' = DOMAIN got
BY DEF Get, Found

LEMMA EnterKeeps ==
  ASSUME NEW where, NEW label, Enter(where, label)
  PROVE  ~uLastError' => ~uLastError
BY DEF Enter, Found

\* What a token becomes on the way is one the verifier may read.
LEMMA ChangedToken ==
  ASSUME NEW d, NEW x, NEW y \in Changed(x)
  PROVE  y \in Tokens(d)
<1>1. \A n \in Int : Num(n) \in Token
  BY TokensHere
<1>2. \A n \in Nat : Map(n) \in Token
  BY TokensHere
<1>3. Str("text") \in Token /\ Str("otherKey") \in Token
  <2>1. "text" \in Strings /\ "otherKey" \in Strings
    BY DEF Strings
  <2> QED BY <2>1, TokensHere, Zenon
<1>4. CASE x[1] = "map"
  <2>1. PICK n \in 0..4 : y = Map(n)
    BY <1>4 DEF Changed
  <2> QED BY <1>2, <2>1 DEF Tokens
<1>5. CASE x[1] # "map"
  <2>1. y \in {Num(1), Num(4), Num(6), Num(-8), Str("text"), Str("otherKey"), Signature(<<>>)}
    BY <1>5 DEF Changed
  <2>2. Num(1) \in Token /\ Num(4) \in Token /\ Num(6) \in Token /\ Num(-8) \in Token
    BY <1>1
  <2> QED BY ONLY <1>3, <2>1, <2>2 DEF Tokens
<1> QED BY <1>4, <1>5

LEMMA DamageTokens ==
  ASSUME NEW d, message \in Seq(Tokens(d)), Damage
  PROVE  message' \in Seq(Tokens(d))
<1> DEFINE T == Tokens(d)
<1>1. CASE \E p \in 1..Len(message) : \E y \in Changed(message[p]) : message' = [message EXCEPT ![p] = y]
  <2>0. PICK p \in 1..Len(message) : \E y \in Changed(message[p]) : message' = [message EXCEPT ![p] = y]
    BY <1>1
  <2>1. PICK y \in Changed(message[p]) : message' = [message EXCEPT ![p] = y]
    BY <2>0
  <2>2. y \in T
    BY ChangedToken
  <2> HIDE DEF T
  <2>3. message \in Seq(T)
    BY DEF T
  <2>4. message' \in Seq(T)
    BY ONLY <2>1, <2>2, <2>3
  <2> QED BY <2>4 DEF T
<1>2. CASE \E p \in 0..(Len(message) - 1) : message' = SubSeq(message, 1, p)
  <2>1. PICK p \in 0..(Len(message) - 1) : message' = SubSeq(message, 1, p)
    BY <1>2
  <2> HIDE DEF T
  <2>2. message \in Seq(T) /\ Len(message) \in Nat
    BY DEF T
  <2>3. p \in 0..Len(message) /\ 0 \in 0..p /\ 0 + 1 = 1
    BY <2>2
  <2>4. Slice(message, 0, p) \in Seq(T)
    BY ONLY <2>2, <2>3, SliceIs
  <2>5. message' \in Seq(T)
    BY ONLY <2>1, <2>3, <2>4 DEF Slice
  <2> QED BY <2>5 DEF T
<1>3. CASE message' = message \o <<Num(9), Num(9)>>
  <2>1. Num(9) \in T
    BY TokensHere DEF Tokens
  <2> DEFINE u == <<Num(9), Num(9)>>
  <2>2. u \in Seq(T) /\ message \in Seq(T)
    BY <2>1
  <2> HIDE DEF T, u
  <2>3. Join(message, u) \in Seq(T)
    BY ONLY <2>2, JoinTwo
  <2>4. message' \in Seq(T)
    BY <1>3, <2>3 DEF Join, u
  <2> QED BY <2>4 DEF T
<1> QED BY <1>1, <1>2, <1>3 DEF Damage
LEMMA VerifierInit ==
  Init => VerifierOK
<1> SUFFICES ASSUME Init PROVE VerifierOK
  OBVIOUS
<1>1. pc = "application" /\ uLastError = FALSE /\ DOMAIN got = Names /\ message = original.received
  BY DEF Init, Names
<1> QED BY <1>1 DEF VerifierOK, Signing, Inner, InCsf

LEMMA InnerHas ==
  ASSUME VerifierOK, pc \in Inner, ~uLastError
  PROVE  LET r == original.received
             s == signatureMap
         IN  /\ CsfAt(r, s) /\ outerMap = Entered(r, s)
             /\ \E k \in 1..Len(r) : /\ KeyAt(r, s, k) /\ map = Entered(r, k)
                                     /\ pc = "exitKey" => /\ cursor = After(r, k + 1, 2 * r[k][2])
                                                          /\ cursor # 0
<1>1. pc \in Inner \cup InCsf
  OBVIOUS
<1> QED BY <1>1, Zenon DEF VerifierOK

LEMMA VerifierNext ==
  SignerOK /\ VerifierOK /\ [Next]_vars => VerifierOK'
<1> SUFFICES ASSUME SignerOK, VerifierOK, [Next]_vars PROVE VerifierOK'
  OBVIOUS
<1> DEFINE r == original.received
           s == signatureMap
           d == Signed(entries)
           t == Tokens(d)
<1>1. entries \in Contents /\ DOMAIN got = Names
  BY DEF SignerOK, VerifierOK
<1>2. CASE WriteApplication \/ WriteKey \/ WriteCsfMap \/ Sign \/ AddSignature \/ CountSignature
  <2>1. /\ pc \in Signing \ {"send"} /\ pc' \in Signing /\ UNCHANGED <<message, original, uLastError, got>>
    BY <1>2 DEF WriteApplication, WriteKey, WriteCsfMap, Sign, AddSignature, CountSignature, Goto, verifier, Signing
  <2> QED BY ONLY <2>1, VerifierOK DEF VerifierOK, Signing, Inner, InCsf
<1>3. CASE Send
  <2>1. /\ pc = "send" /\ pc' = "enter" /\ length # 0 /\ entries' = entries
        /\ message' = data /\ original' = [sent |-> data, received |-> data]
        /\ uLastError' = uLastError /\ got' = got
    BY <1>3 DEF Send, Goto, signer
  <2>2. data = Sent(entries)
    BY <2>1 DEF SignerOK, Signing
  <2>3. Sent(entries) \in Seq(t)
    BY <1>1, SentHas
  <2>4. ~uLastError
    BY <2>1 DEF VerifierOK, Signing
  <2>5. /\ original' \in [sent : Seq(t), received : Seq(t)] /\ original'.sent = Sent(entries')
        /\ message' = original'.received /\ Tokens(Signed(entries')) = t
    BY <2>1, <2>2, <2>3
  <2> HIDE DEF t
  <2> QED BY ONLY <1>1, <2>1, <2>4, <2>5 DEF VerifierOK, Signing, Inner, InCsf
<1>4. ASSUME pc \notin Signing
      PROVE  /\ original \in [sent : Seq(t), received : Seq(t)] /\ original.sent = Sent(entries) /\ r \in Seq(t)
             /\ pc \notin {"verify", "accept", "reject"} => message = r
             /\ pc \in {"enter", "strip", "verify", "accept", "reject"} => ~uLastError
  BY <1>4 DEF VerifierOK
<1>5. CASE Damage
  <2>1. /\ pc = "enter" /\ pc' = "enter" /\ entries' = entries /\ original' = [original EXCEPT !.received = message']
        /\ uLastError' = uLastError /\ got' = got
    BY <1>5 DEF Damage, signer
  <2>2. message' \in Seq(t)
    <3>1. message \in Seq(t)
      BY <1>4, <2>1 DEF Signing
    <3> QED BY <1>5, <3>1, DamageTokens
  <2>3. ~uLastError /\ original \in [sent : Seq(t), received : Seq(t)] /\ original.sent = Sent(entries)
    BY <1>4, <2>1 DEF Signing
  <2> HIDE DEF t
  <2>4. /\ original' \in [sent : Seq(t), received : Seq(t)] /\ original'.sent = Sent(entries')
        /\ message' = original'.received
    BY ONLY <2>1, <2>2, <2>3
  <2>5. Tokens(Signed(entries')) = t
    BY <2>1 DEF t
  <2> QED BY ONLY <1>1, <2>1, <2>3, <2>4, <2>5 DEF VerifierOK, Signing, Inner, InCsf
<1>6. ASSUME pc \notin Signing, UNCHANGED <<entries, original>>
      PROVE  /\ original' \in [sent : Seq(t'), received : Seq(t')] /\ original'.sent = Sent(entries')
             /\ original'.received = r /\ r \in Seq(t) /\ Counted(r)
             /\ \A p \in 1..Len(r) : r[p][1] = "map" =>
                  /\ Entered(r, p).first = p + 1 /\ Entered(r, p).count = r[p][2]
                  /\ Entered(r, p).first \in 1..(Len(r) + 1) /\ Entered(r, p).count \in Nat
  <2>1. r \in Seq(t) /\ t' = t
    BY <1>4, <1>6
  <2>2. original' \in [sent : Seq(t'), received : Seq(t')] /\ original'.sent = Sent(entries') /\ original'.received = r
    BY <1>4, <1>6
  <2> HIDE DEF r, t
  <2>3. r \in Seq(Tokens(d))
    BY <2>1 DEF t
  <2> HIDE DEF d
  <2> QED BY <2>1, <2>2, <2>3, EnteredIs, TokensCount
<1>7. CASE EnterSignatureMap
  <2>1. /\ pc = "enter" /\ pc' = "algorithm" /\ UNCHANGED <<entries, original, message, got>>
        /\ signatureMap' = cursor' - 1
    BY <1>7 DEF EnterSignatureMap, Goto, signer
  <2>2. message = r /\ ~uLastError
    BY <1>4, <2>1 DEF Signing
  <2>3. r \in Seq(t) /\ Counted(r)
    BY <1>6, <2>1 DEF Signing
  <2>4. ASSUME ~uLastError' PROVE CsfAt(r, signatureMap') /\ map' = Entered(r, signatureMap')
    <3> DEFINE where == [first |-> 2, count |-> message[1][2]]
    <3>1. message # <<>> /\ message[1][1] = "map" /\ Enter(where, APP_SIGNATURE_LABEL)
      BY <1>7, <2>4 DEF EnterSignatureMap
    <3>2. Len(r) \in Nat /\ 1 \in 1..Len(r) /\ 2 \in 1..(Len(r) + 1)
      BY <2>2, <2>3, <3>1
    <3>3. r[1] \in t
      BY <2>3, <3>2, ElementOfSeq
    <3>4. r[1][2] \in Nat
      BY <2>2, <3>1, <3>3, TokenIs
    <3>5. where.first = 2 /\ where.count = r[1][2] /\ where.first \in 1..(Len(message) + 1) /\ where.count \in Nat
      BY <2>2, <3>2, <3>4
    <3> HIDE DEF where, r, t
    <3>6. \E p \in 1..Len(message) :
            /\ ValueAt(message, where.first, where.count, APP_SIGNATURE_LABEL, p) /\ message[p][1] = "map"
            /\ map' = Entered(message, p) /\ outerMap' = where /\ cursor' = p + 1
      BY <2>2, <2>3, <2>4, <3>1, <3>5, EnterGives
    <3>7. PICK p \in 1..Len(r) : /\ ValueAt(r, 2, r[1][2], APP_SIGNATURE_LABEL, p) /\ r[p][1] = "map"
                                 /\ map' = Entered(r, p) /\ cursor' = p + 1
      BY ONLY <2>2, <3>5, <3>6
    <3>8. signatureMap' = p
      BY ONLY <2>1, <3>2, <3>7
    <3>9. CsfAt(r, p)
      BY ONLY <2>2, <3>1, <3>7 DEF CsfAt
    <3> QED BY ONLY <3>7, <3>8, <3>9
  <2>5. /\ original' \in [sent : Seq(t'), received : Seq(t')] /\ original'.sent = Sent(entries')
        /\ message' = original'.received /\ original'.received = r
    BY <1>6, <2>1, <2>2 DEF Signing
  <2> HIDE DEF r
  <2> QED BY ONLY <1>1, <2>1, <2>4, <2>5 DEF VerifierOK, Signing, Inner, InCsf, t, d
<1>8. ASSUME NEW label, NEW kind, NEW name, Get(label, kind, name), pc \in {"algorithm", "keyType", "curve", "x"},
             pc' \in {"abort", CASE pc = "algorithm" -> "publicKey" [] pc = "keyType" -> "curve"
                                 [] pc = "curve" -> "x" [] pc = "x" -> "exitKey"},
             UNCHANGED <<signatureMap, signer, message, original, damage, map, outerMap, beforeSignature>>
      PROVE  VerifierOK'
  <2>1. pc \notin Signing /\ UNCHANGED <<entries, original, message, signatureMap, map, outerMap>>
    BY <1>8 DEF Signing, signer
  <2>2. message = r
    BY <1>4, <1>8, <2>1
  <2>3. /\ original' \in [sent : Seq(t'), received : Seq(t')] /\ original'.sent = Sent(entries')
        /\ original'.received = r /\ message' = r /\ Counted(r)
    BY <1>6, <2>1, <2>2
  <2>4. (~uLastError' => ~uLastError) /\ DOMAIN got' = Names
    BY <1>1, <1>8, GetKeeps
  <2>5. ASSUME ~uLastError', pc' # "abort"
        PROVE  /\ CsfAt(r, s)
               /\ pc' = "publicKey" => map = Entered(r, s)
               /\ pc' \in Inner => /\ outerMap = Entered(r, s)
                                   /\ \E k \in 1..Len(r) : /\ KeyAt(r, s, k) /\ map = Entered(r, k)
                                                           /\ pc' = "exitKey" => /\ cursor' = After(r, k + 1, 2 * r[k][2])
                                                                                 /\ cursor' # 0
    <3>1. CsfAt(r, s)
      BY <1>8, <2>4, <2>5 DEF VerifierOK, Inner, InCsf
    <3>2. CASE pc = "algorithm"
      <4>1. pc' = "publicKey" /\ map = Entered(r, s)
        BY <1>8, <2>4, <2>5, <3>2 DEF VerifierOK, Inner, InCsf
      <4> QED BY <3>1, <4>1 DEF Inner
    <3>3. CASE pc \in {"keyType", "curve", "x"}
      <4>1. outerMap = Entered(r, s)
        BY <2>4, <2>5, <3>3 DEF VerifierOK, Inner, InCsf
      <4>0. \E k \in 1..Len(r) : /\ KeyAt(r, s, k) /\ map = Entered(r, k)
                                 /\ pc = "exitKey" => cursor = After(r, k + 1, 2 * r[k][2]) /\ cursor # 0
        BY <2>4, <2>5, <3>3, InnerHas DEF Inner
      <4>2. PICK k \in 1..Len(r) : KeyAt(r, s, k) /\ map = Entered(r, k)
        BY ONLY <4>0
      <4>3. r[k][1] = "map"
        BY <4>2 DEF KeyAt
      <4>4. map.first = k + 1 /\ map.count = r[k][2] /\ map.first \in 1..(Len(r) + 1) /\ map.count \in Nat
        BY <1>6, <2>1, <4>2, <4>3
      <4>5. cursor' = After(r, k + 1, 2 * r[k][2]) /\ cursor' # 0
        <5> HIDE DEF r
        <5>1. /\ Counted(message) /\ map.first \in 1..(Len(message) + 1) /\ map.count \in Nat
          BY <2>2, <2>3, <4>4
        <5>2. cursor' = After(message, map.first, 2 * map.count) /\ cursor' # 0
          BY ONLY <1>8, <2>5, <5>1, GetGives
        <5> QED BY ONLY <2>2, <4>4, <5>2
      <4>6. pc' # "publicKey"
        BY <1>8, <2>5, <3>3
      <4> HIDE DEF r, s
      <4> QED BY ONLY <3>1, <4>1, <4>2, <4>5, <4>6
    <3> QED BY <1>8, <3>2, <3>3
  <2>6. pc' \in {"abort", "publicKey", "curve", "x", "exitKey"}
    BY <1>8
  <2> HIDE DEF r
  <2> QED BY ONLY <2>1, <2>3, <2>4, <2>5, <2>6 DEF VerifierOK, Signing, Inner, InCsf, t, d, s
<1>9. CASE GetAlgorithm \/ GetKeyType \/ GetCurve \/ GetX
  <2>1. \A h \in BOOLEAN, n \in {"publicKey", "curve", "x", "exitKey"} : Expect(h, n) => pc' \in {"abort", n}
    BY DEF Expect
  <2>2. CASE GetAlgorithm
    <3>1. /\ pc = "algorithm" /\ pc' \in {"abort", "publicKey"} /\ Get(ALGORITHM_LABEL, "int", "algorithm")
          /\ UNCHANGED <<signatureMap, signer, message, original, damage, map, outerMap, beforeSignature>>
      BY <2>1, <2>2 DEF GetAlgorithm
    <3> QED BY <1>8, <3>1
  <2>3. CASE GetKeyType
    <3>1. /\ pc = "keyType" /\ pc' \in {"abort", "curve"} /\ Get(KEY_TYPE_LABEL, "int", "keyType")
          /\ UNCHANGED <<signatureMap, signer, message, original, damage, map, outerMap, beforeSignature>>
      BY <2>1, <2>3 DEF GetKeyType
    <3> QED BY <1>8, <3>1
  <2>4. CASE GetCurve
    <3>1. /\ pc = "curve" /\ pc' \in {"abort", "x"} /\ Get(OKP_CRV_LABEL, "int", "curveId")
          /\ UNCHANGED <<signatureMap, signer, message, original, damage, map, outerMap, beforeSignature>>
      BY <2>1, <2>4 DEF GetCurve
    <3> QED BY <1>8, <3>1
  <2>5. CASE GetX
    <3>1. /\ pc = "x" /\ pc' \in {"abort", "exitKey"} /\ Get(OKP_X_LABEL, "str", "x")
          /\ UNCHANGED <<signatureMap, signer, message, original, damage, map, outerMap, beforeSignature>>
      BY <2>5 DEF GetX, Expect
    <3> QED BY <1>8, <3>1
  <2> QED BY <1>9, <2>2, <2>3, <2>4, <2>5
<1>10. CASE EnterPublicKey
  <2>1. /\ pc = "publicKey" /\ pc' = "keyType" /\ UNCHANGED <<entries, original, message, signatureMap, got>>
        /\ Enter(map, PUBLIC_KEY_LABEL)
    BY <1>10 DEF EnterPublicKey, Goto, signer
  <2>2. message = r
    BY <1>4, <2>1 DEF Signing
  <2>3. /\ original' \in [sent : Seq(t'), received : Seq(t')] /\ original'.sent = Sent(entries')
        /\ original'.received = r /\ message' = r /\ Counted(r)
    BY <1>6, <2>1, <2>2 DEF Signing
  <2>4. ~uLastError' => ~uLastError
    BY <2>1, EnterKeeps
  <2>5. ASSUME ~uLastError'
        PROVE  CsfAt(r, s) /\ outerMap' = Entered(r, s) /\ \E k \in 1..Len(r) : KeyAt(r, s, k) /\ map' = Entered(r, k)
    <3>1. CsfAt(r, s) /\ map = Entered(r, s)
      BY <2>1, <2>4, <2>5 DEF VerifierOK, InCsf, Inner
    <3>2. s \in 1..Len(r) /\ r[s][1] = "map"
      BY <2>3, <3>1 DEF CsfAt, ValueAt, Counted
    <3>3. map.first = s + 1 /\ map.count = r[s][2] /\ map.first \in 1..(Len(r) + 1) /\ map.count \in Nat
      BY <1>6, <2>1, <3>1, <3>2 DEF Signing
    <3> HIDE DEF r, s
    <3>4. Counted(message) /\ map.first \in 1..(Len(message) + 1) /\ map.count \in Nat
      BY ONLY <2>2, <2>3, <3>3
    <3>5. \E p \in 1..Len(message) :
            /\ ValueAt(message, map.first, map.count, PUBLIC_KEY_LABEL, p) /\ message[p][1] = "map"
            /\ map' = Entered(message, p) /\ outerMap' = map /\ cursor' = p + 1
      BY ONLY <2>1, <2>5, <3>4, EnterGives
    <3>6. PICK p \in 1..Len(r) : /\ ValueAt(r, s + 1, r[s][2], PUBLIC_KEY_LABEL, p) /\ r[p][1] = "map"
                                 /\ map' = Entered(r, p) /\ outerMap' = map
      BY ONLY <2>2, <3>3, <3>5
    <3>7. KeyAt(r, s, p)
      BY ONLY <3>6 DEF KeyAt
    <3> QED BY ONLY <3>1, <3>6, <3>7
  <2> HIDE DEF r
  <2> QED BY ONLY <1>1, <2>1, <2>3, <2>4, <2>5 DEF VerifierOK, Signing, Inner, InCsf, t, d, s
<1>11. CASE ExitPublicKey
  <2>1. /\ pc = "exitKey" /\ pc' = "signature" /\ UNCHANGED <<entries, original, message, signatureMap, got, uLastError>>
        /\ map' = (IF uLastError THEN map ELSE outerMap) /\ beforeSignature' = cursor
    BY <1>11 DEF ExitPublicKey, Goto, signer
  <2>2. message = r
    BY <1>4, <2>1 DEF Signing
  <2>3. /\ original' \in [sent : Seq(t'), received : Seq(t')] /\ original'.sent = Sent(entries')
        /\ original'.received = r /\ message' = r
    BY <1>6, <2>1, <2>2 DEF Signing
  <2>4. ASSUME ~uLastError
        PROVE  CsfAt(r, s) /\ map' = Entered(r, s) /\ \E k \in 1..Len(r) : Read(r, s, k, beforeSignature')
    <3>1. CsfAt(r, s) /\ outerMap = Entered(r, s)
      BY <2>1, <2>4 DEF VerifierOK, Inner, InCsf
    <3>4. \E k \in 1..Len(r) : /\ KeyAt(r, s, k) /\ map = Entered(r, k)
                               /\ pc = "exitKey" => cursor = After(r, k + 1, 2 * r[k][2]) /\ cursor # 0
      BY <2>1, <2>4, InnerHas DEF Inner
    <3> HIDE DEF r, s
    <3>2. PICK k \in 1..Len(r) : KeyAt(r, s, k) /\ cursor = After(r, k + 1, 2 * r[k][2]) /\ cursor # 0
      BY ONLY <2>1, <3>4
    <3>3. Read(r, s, k, beforeSignature')
      BY ONLY <2>1, <3>1, <3>2 DEF Read
    <3> QED BY ONLY <2>1, <2>4, <3>1, <3>3
  <2> HIDE DEF r
  <2> QED BY ONLY <1>1, <2>1, <2>3, <2>4 DEF VerifierOK, Signing, Inner, InCsf, t, d, s
<1>12. CASE GetSignature
  <2>1. /\ pc = "signature" /\ pc' \in {"exit", "abort"}
        /\ UNCHANGED <<entries, original, message, signatureMap, map, beforeSignature>>
        /\ Get(SIGNATURE_LABEL, "str", "signature")
        /\ ~uLastError' /\ pc' = "exit" => cursor' = Len(message) + 1
    BY <1>12 DEF GetSignature, Expect, signer
  <2>2. message = r
    BY <1>4, <2>1 DEF Signing
  <2>3. /\ original' \in [sent : Seq(t'), received : Seq(t')] /\ original'.sent = Sent(entries')
        /\ original'.received = r /\ message' = r /\ Counted(r)
    BY <1>6, <2>1, <2>2 DEF Signing
  <2>4. (~uLastError' => ~uLastError) /\ DOMAIN got' = Names
    BY <1>1, <2>1, GetKeeps
  <2>5. ASSUME ~uLastError', pc' = "exit"
        PROVE  /\ CsfAt(r, s) /\ \E k \in 1..Len(r) : Read(r, s, k, beforeSignature)
               /\ \E g \in 1..Len(r) : ValueAt(r, s + 1, r[s][2], SIGNATURE_LABEL, g) /\ got'.signature = r[g]
               /\ After(r, s + 1, 2 * r[s][2]) = Len(r) + 1
    <3>1. CsfAt(r, s) /\ map = Entered(r, s) /\ \E k \in 1..Len(r) : Read(r, s, k, beforeSignature)
      BY <2>1, <2>4, <2>5 DEF VerifierOK, InCsf, Inner
    <3>2. s \in 1..Len(r) /\ r[s][1] = "map"
      BY <2>3, <3>1 DEF CsfAt, ValueAt, Counted
    <3>3. map.first = s + 1 /\ map.count = r[s][2] /\ map.first \in 1..(Len(r) + 1) /\ map.count \in Nat
      BY <1>6, <2>1, <3>1, <3>2 DEF Signing
    <3> HIDE DEF r, s
    <3>4. Counted(message) /\ map.first \in 1..(Len(message) + 1) /\ map.count \in Nat
      BY ONLY <2>2, <2>3, <3>3
    <3>5. /\ cursor' = After(message, map.first, 2 * map.count)
          /\ \E v \in 1..Len(message) :
               /\ ValueAt(message, map.first, map.count, SIGNATURE_LABEL, v)
               /\ got' = [got EXCEPT !["signature"] = message[v]]
      BY ONLY <2>1, <2>5, <3>4, GetGives
    <3>6. PICK g \in 1..Len(r) : /\ ValueAt(r, s + 1, r[s][2], SIGNATURE_LABEL, g)
                                 /\ got' = [got EXCEPT !["signature"] = r[g]]
      BY ONLY <2>2, <3>3, <3>5
    <3>7. got'.signature = r[g]
      BY ONLY <1>1, <3>6 DEF Names
    <3>8. After(r, s + 1, 2 * r[s][2]) = Len(r) + 1
      BY ONLY <2>1, <2>2, <2>5, <3>3, <3>5
    <3> QED BY ONLY <3>1, <3>6, <3>7, <3>8
  <2> HIDE DEF r
  <2> QED BY ONLY <2>1, <2>3, <2>4, <2>5 DEF VerifierOK, Signing, Inner, InCsf, t, d, s
<1>13. CASE ExitSignatureMap
  <2>1. /\ pc = "exit" /\ pc' = (IF uLastError THEN "abort" ELSE "strip")
        /\ UNCHANGED <<entries, original, message, signatureMap, got, uLastError, beforeSignature>>
    BY <1>13 DEF ExitSignatureMap, Goto, signer, verifier
  <2>2. message = r
    BY <1>4, <2>1 DEF Signing
  <2>3. /\ original' \in [sent : Seq(t'), received : Seq(t')] /\ original'.sent = Sent(entries')
        /\ original'.received = r /\ message' = r
    BY <1>6, <2>1, <2>2 DEF Signing
  <2>4. ASSUME ~uLastError
        PROVE  /\ CsfAt(r, s) /\ \E k \in 1..Len(r) : Read(r, s, k, beforeSignature)
               /\ \E g \in 1..Len(r) : ValueAt(r, s + 1, r[s][2], SIGNATURE_LABEL, g) /\ got.signature = r[g]
               /\ After(r, s + 1, 2 * r[s][2]) = Len(r) + 1
    BY <2>1, <2>4 DEF VerifierOK, Inner, InCsf
  <2> HIDE DEF r
  <2> QED BY ONLY <1>1, <2>1, <2>3, <2>4 DEF VerifierOK, Signing, Inner, InCsf, t, d, s
<1>14. ASSUME pc \in {"strip", "verify"}
       PROVE  /\ CsfAt(r, s) /\ \E k \in 1..Len(r) : Read(r, s, k, beforeSignature)
              /\ \E g \in 1..Len(r) : ValueAt(r, s + 1, r[s][2], SIGNATURE_LABEL, g) /\ got.signature = r[g]
              /\ After(r, s + 1, 2 * r[s][2]) = Len(r) + 1
              /\ pc = "verify" => message = Stripped(r, s, beforeSignature)
              /\ ~uLastError
  <2>1. ~uLastError
    BY <1>14 DEF VerifierOK
  <2> QED BY <1>14, <2>1 DEF VerifierOK, Inner, InCsf
<1>15. CASE StripSignature
  <2>1. /\ pc = "strip" /\ pc' = "verify"
        /\ UNCHANGED <<entries, original, signatureMap, got, uLastError, beforeSignature>>
        /\ message' = [p \in 1..(beforeSignature - 1) |->
                         IF p = signatureMap THEN Map(message[p][2] - 1) ELSE message[p]]
    BY <1>15 DEF StripSignature, Goto, signer
  <2>2. message = r
    BY <1>4, <2>1 DEF Signing
  <2>3. /\ original' \in [sent : Seq(t'), received : Seq(t')] /\ original'.sent = Sent(entries')
        /\ original'.received = r
    BY <1>6, <2>1 DEF Signing
  <2>4. message' = Stripped(r, s, beforeSignature)
    BY <2>1, <2>2 DEF Stripped
  <2>5. pc \in {"strip", "verify"}
    BY <2>1
  <2> HIDE DEF r
  <2> QED BY ONLY <1>1, <1>14, <2>1, <2>3, <2>4, <2>5 DEF VerifierOK, Signing, Inner, InCsf, t, d, s
<1>16. CASE Verify
  <2>1. /\ pc = "verify" /\ pc' \in {"accept", "reject"}
        /\ UNCHANGED <<entries, original, message, signatureMap, got, uLastError, beforeSignature>>
        /\ ~uLastError /\ pc' = "accept" => got.signature = Signature(message)
    BY <1>16 DEF Verify, Goto, signer, verifier
  <2>2. /\ original' \in [sent : Seq(t'), received : Seq(t')] /\ original'.sent = Sent(entries')
        /\ original'.received = r
    BY <1>6, <2>1 DEF Signing
  <2>3. pc \in {"strip", "verify"}
    BY <2>1
  <2> HIDE DEF r
  <2> QED BY ONLY <1>1, <1>14, <2>1, <2>2, <2>3 DEF VerifierOK, Signing, Inner, InCsf, t, d, s
<1>17. CASE UNCHANGED vars
  BY <1>17 DEF vars, signer, verifier, VerifierOK
<1> QED BY <1>2, <1>3, <1>5, <1>7, <1>9, <1>10, <1>11, <1>12, <1>13, <1>15, <1>16, <1>17 DEF Next

\* AcceptedIsSigned: whatever happened to it on the way, a message that is accepted is the
\* one that was sent, and the buffer holds what was signed.
THEOREM AcceptedRight ==
  Spec => []AcceptedIsSigned
<1>1. SignerOK /\ VerifierOK => AcceptedIsSigned
  <2> SUFFICES ASSUME SignerOK, VerifierOK, pc = "accept"
               PROVE  original.received = original.sent /\ Signature(message) = signature
    BY DEF AcceptedIsSigned
  <2> DEFINE r == original.received
             s == signatureMap
             b == beforeSignature
  <2>1. ~uLastError /\ original.sent = Sent(entries) /\ r \in Seq(Tokens(Signed(entries)))
    BY DEF VerifierOK, Signing
  <2>2. /\ \E k \in 1..Len(r) : Read(r, s, k, b)
        /\ \E g \in 1..Len(r) : ValueAt(r, s + 1, r[s][2], SIGNATURE_LABEL, g) /\ got.signature = r[g]
        /\ After(r, s + 1, 2 * r[s][2]) = Len(r) + 1
        /\ message = Stripped(r, s, b) /\ got.signature = Signature(message)
    BY <2>1 DEF VerifierOK, Inner, InCsf
  <2>3. entries \in Contents /\ signature = Signature(Signed(entries))
    BY DEF SignerOK, Signing
  <2> HIDE DEF r, s, b
  <2>4. PICK k \in 1..Len(r) : Read(r, s, k, b)
    BY ONLY <2>2
  <2>5. PICK g \in 1..Len(r) : ValueAt(r, s + 1, r[s][2], SIGNATURE_LABEL, g) /\ got.signature = r[g]
    BY ONLY <2>2
  <2>6. Valid(r, s, k, b, g)
    BY ONLY <2>2, <2>4, <2>5 DEF Valid
  <2>7. r = Sent(entries) /\ Stripped(r, s, b) = Signed(entries)
    BY ONLY <2>1, <2>3, <2>6, ValidIsSent, StrippedIsSigned
  <2>8. original.received = original.sent
    BY ONLY <2>1, <2>7 DEF r
  <2> QED BY ONLY <2>2, <2>3, <2>7, <2>8
<1>2. Init => SignerOK /\ VerifierOK
  BY SignerInit, VerifierInit
<1>3. SignerOK /\ VerifierOK /\ [Next]_vars => (SignerOK /\ VerifierOK)'
  BY SignerNext, VerifierNext
<1> QED BY <1>1, <1>2, <1>3, PTL DEF Spec
-----------------------------------------------------------------------------
(* What arrives as it was sent                                              *)

\* The search that finds the value at v and ends at end.
Finds(m, where, label, v, end) ==
  LET f == MapSearch(m, where, label)
  IN  f.ok /\ f.found = v /\ f.found # 0 /\ f.end = end

LEMMA Finding ==
  ASSUME NEW m, NEW first, NEW count, NEW label, NEW k, Unique(m, first, count, label, k),
         NEW v, After(m, first, 2 * k) + 1 = v, NEW end, After(m, first, 2 * count) = end
  PROVE  Finds(m, [first |-> first, count |-> count], label, v, end)
<1> DEFINE where == [first |-> first, count |-> count]
<1>1. where.first = first /\ where.count = count
  OBVIOUS
<1> HIDE DEF where
<1>2. Unique(m, where.first, where.count, label, k)
  BY <1>1
<1>3. LET f == MapSearch(m, where, label)
      IN  f.ok /\ f.found = After(m, where.first, 2 * k) + 1 /\ f.found # 0 /\ f.end = After(m, where.first, 2 * where.count)
  BY ONLY <1>2, SearchFinds
<1>4. Finds(m, where, label, v, end)
  BY <1>1, <1>3 DEF Finds
<1> QED BY <1>4 DEF where

\* Three entries of a map, with three labels.
Three(m, a, p, u, e, i, j, k) ==
  /\ Counted(m) /\ a \in 1..(Len(m) + 1)
  /\ After(m, a, 0) = a /\ After(m, a, 2) = p /\ After(m, a, 4) = u /\ After(m, a, 6) = e /\ e # 0
  /\ i \in Int /\ j \in Int /\ k \in Int /\ i # j /\ i # k /\ j # k
  /\ m[a] = Num(i) /\ m[p] = Num(j) /\ m[u] = Num(k)

LEMMA FindsOfThree ==
  ASSUME NEW m, NEW a, NEW p, NEW u, NEW e, NEW i, NEW j, NEW k, Three(m, a, p, u, e, i, j, k)
  PROVE  LET w == [first |-> a, count |-> 3]
         IN  Finds(m, w, i, a + 1, e) /\ Finds(m, w, j, p + 1, e) /\ Finds(m, w, k, u + 1, e)
<1>0. /\ Counted(m) /\ a \in 1..(Len(m) + 1)
      /\ After(m, a, 0) = a /\ After(m, a, 2) = p /\ After(m, a, 4) = u /\ After(m, a, 6) = e /\ e # 0
      /\ i \in Int /\ j \in Int /\ k \in Int /\ i # j /\ i # k /\ j # k
      /\ m[a] = Num(i) /\ m[p] = Num(j) /\ m[u] = Num(k)
  BY DEF Three
<1>1. \A x, y \in Int : IsNum(Num(x), y) <=> x = y
  BY DEF IsNum, Num
<1>2. \A x : Num(x)[1] # "map"
  BY DEF Num
<1> DEFINE c == 3
<1>3. /\ 2 * 0 = 0 /\ 2 * 1 = 2 /\ 2 * 2 = 4 /\ 2 * c = 6 /\ c \in Nat
      /\ \A x \in 0..(c - 1) : x = 0 \/ x = 1 \/ x = 2
      /\ 0 \in 0..(c - 1) /\ 1 \in 0..(c - 1) /\ 2 \in 0..(c - 1)
  OBVIOUS
<1>4. After(m, a, 2 * 0) = a /\ After(m, a, 2 * 1) = p /\ After(m, a, 2 * 2) = u /\ After(m, a, 2 * c) = e
  BY ONLY <1>3, <1>0
<1> DEFINE L(x) == m[After(m, a, 2 * x)]
<1>5. L(0) = Num(i) /\ L(1) = Num(j) /\ L(2) = Num(k)
  BY ONLY <1>4, <1>0
<1> HIDE DEF c, L
<1>6. \A x \in 0..(c - 1) : L(x)[1] # "map"
  BY ONLY <1>2, <1>3, <1>5
<1>7. /\ IsNum(L(0), i) /\ \A x \in 0..(c - 1) : x # 0 => ~IsNum(L(x), i)
      /\ IsNum(L(1), j) /\ \A x \in 0..(c - 1) : x # 1 => ~IsNum(L(x), j)
      /\ IsNum(L(2), k) /\ \A x \in 0..(c - 1) : x # 2 => ~IsNum(L(x), k)
  <2>1. \A x \in 0..(c - 1) : (L(x) = Num(i) /\ x = 0) \/ (L(x) = Num(j) /\ x = 1) \/ (L(x) = Num(k) /\ x = 2)
    <3> SUFFICES ASSUME NEW x \in 0..(c - 1)
                 PROVE  (L(x) = Num(i) /\ x = 0) \/ (L(x) = Num(j) /\ x = 1) \/ (L(x) = Num(k) /\ x = 2)
      OBVIOUS
    <3>1. CASE x = 0
      BY ONLY <1>5, <3>1
    <3>2. CASE x = 1
      BY ONLY <1>5, <3>2
    <3>3. CASE x = 2
      BY ONLY <1>5, <3>3
    <3> QED BY ONLY <1>3, <3>1, <3>2, <3>3, x \in 0..(c - 1)
  <2> QED BY ONLY <1>1, <1>5, <2>1, <1>0
<1>8. Unique(m, a, c, i, 0) /\ Unique(m, a, c, j, 1) /\ Unique(m, a, c, k, 2)
  <2>1. After(m, a, 2 * c) # 0
    BY ONLY <1>0, <1>4
  <2> QED BY ONLY <1>0, <1>3, <1>6, <1>7, <2>1 DEF Unique, L
<1>9. Finds(m, [first |-> a, count |-> c], i, a + 1, e)
  BY ONLY <1>4, <1>8, Finding
<1>10. Finds(m, [first |-> a, count |-> c], j, p + 1, e)
  BY ONLY <1>4, <1>8, Finding
<1>11. Finds(m, [first |-> a, count |-> c], k, u + 1, e)
  BY ONLY <1>4, <1>8, Finding
<1> QED BY ONLY <1>9, <1>10, <1>11 DEF c

\* What the verifier looks for in a message that was not changed is where the signer put it.
LEMMA SentFound ==
  ASSUME NEW es \in Contents
  PROVE  LET m == Sent(es)
             q == Place(es)
             w == [first |-> 2, count |-> Len(es) + 1]
             x == [first |-> q + 1, count |-> 3]
             y == [first |-> q + 5, count |-> 3]
         IN  /\ Finds(m, w, APP_SIGNATURE_LABEL, q, q + 13)
             /\ Finds(m, x, ALGORITHM_LABEL, q + 2, q + 13)
             /\ Finds(m, x, PUBLIC_KEY_LABEL, q + 4, q + 13)
             /\ Finds(m, x, SIGNATURE_LABEL, q + 12, q + 13)
             /\ Finds(m, y, KEY_TYPE_LABEL, q + 6, q + 11)
             /\ Finds(m, y, OKP_CRV_LABEL, q + 8, q + 11)
             /\ Finds(m, y, OKP_X_LABEL, q + 10, q + 11)
<1> DEFINE m == Sent(es)
           q == Place(es)
           n == Len(es)
<1>1. /\ Counted(m) /\ q \in Nat /\ q >= 3 /\ n \in Nat /\ Len(m) = q + 12
      /\ After(m, 2, 2 * n) = q - 1
      /\ \A i \in 0..(n - 1) : m[After(m, 2, 2 * i)] \in Labels
      /\ After(m, q + 1, 0) = q + 1 /\ After(m, q + 1, 2) = q + 3 /\ After(m, q + 1, 4) = q + 11
      /\ After(m, q + 1, 6) = q + 13
      /\ After(m, q + 5, 0) = q + 5 /\ After(m, q + 5, 2) = q + 7 /\ After(m, q + 5, 4) = q + 9
      /\ After(m, q + 5, 6) = q + 11
      /\ After(m, 2, 2 * (n + 1)) = q + 13
  BY SentRead
<1>2. /\ m[q - 1] = Num(-1) /\ m[q + 1] = Num(1) /\ m[q + 3] = Num(4) /\ m[q + 11] = Num(6)
      /\ m[q + 5] = Num(1) /\ m[q + 7] = Num(-1) /\ m[q + 9] = Num(-2)
  <2> DEFINE d == Signed(es)
  <2>1. \A j \in 1..(q + 10) : j # q => m[j] = d[j]
    BY SentHas
  <2>2. m[q + 11] = Num(6)
    BY SentHas
  <2>3. d[q - 1] = Num(-1)
    BY SignedHas
  <2>4. d[q + 1] = Num(1) /\ d[q + 3] = Num(4) /\ d[q + 5] = Num(1) /\ d[q + 7] = Num(-1) /\ d[q + 9] = Num(-2)
    BY SignedTokens
  <2> HIDE DEF d, m, q
  <2>5. \A i \in {-1, 1, 3, 5, 7, 9} : q + i \in 1..(q + 10) /\ q + i # q
    BY ONLY <1>1
  <2>6. q - 1 \in 1..(q + 10) /\ q - 1 # q
    BY ONLY <1>1
  <2> QED BY ONLY <2>1, <2>2, <2>3, <2>4, <2>5, <2>6
<1> HIDE DEF m, q, n
<1>3. Finds(m, [first |-> 2, count |-> n + 1], -1, q, q + 13)
  <2> DEFINE a == 2
             c == n + 1
             l == -1
             e == q + 13
  <2>1. /\ a \in 1..(Len(m) + 1) /\ c \in Nat /\ After(m, a, 2 * c) = e /\ e # 0 /\ n \in 0..(c - 1)
        /\ c - 1 = n /\ \A i \in 0..n : i # n => i \in 0..(n - 1)
    BY ONLY <1>1
  <2>2. After(m, a, 2 * n) = q - 1 /\ \A i \in 0..(n - 1) : m[After(m, a, 2 * i)] \in Labels
    BY ONLY <1>1
  <2>3. IsNum(m[q - 1], l) /\ m[q - 1][1] # "map"
    BY ONLY <1>2 DEF IsNum, Num
  <2>4. \A x \in Labels : x[1] # "map" /\ ~IsNum(x, l)
    BY DEF Labels, APP_SIGNATURE_LABEL
  <2>5. q - 1 + 1 = q
    BY ONLY <1>1
  <2> HIDE DEF a, c, l, e
  <2>6. Unique(m, a, c, l, n)
    BY ONLY <1>1, <2>1, <2>2, <2>3, <2>4 DEF Unique
  <2>7. Finds(m, [first |-> a, count |-> c], l, q, e)
    <3>1. After(m, a, 2 * n) + 1 = q
      BY ONLY <2>2, <2>5
    <3> QED BY ONLY <2>1, <2>6, <3>1, Finding
  <2> QED BY ONLY <2>7 DEF a, c, l, e
<1>4. LET w == [first |-> q + 1, count |-> 3]
      IN  Finds(m, w, 1, q + 2, q + 13) /\ Finds(m, w, 4, q + 4, q + 13) /\ Finds(m, w, 6, q + 12, q + 13)
  <2> DEFINE a == q + 1
             p == q + 3
             u == q + 11
             e == q + 13
             i == 1
             j == 4
             k == 6
  <2>1. /\ a \in 1..(Len(m) + 1) /\ e # 0 /\ i \in Int /\ j \in Int /\ k \in Int /\ i # j /\ i # k /\ j # k
        /\ a + 1 = q + 2 /\ p + 1 = q + 4 /\ u + 1 = q + 12
    BY ONLY <1>1
  <2>2. After(m, a, 0) = a /\ After(m, a, 2) = p /\ After(m, a, 4) = u /\ After(m, a, 6) = e
    BY ONLY <1>1
  <2>3. m[a] = Num(i) /\ m[p] = Num(j) /\ m[u] = Num(k)
    BY ONLY <1>2
  <2> HIDE DEF a, p, u, e, i, j, k
  <2>5. Three(m, a, p, u, e, i, j, k)
    BY ONLY <1>1, <2>1, <2>2, <2>3 DEF Three
  <2>4. LET w == [first |-> a, count |-> 3]
        IN  Finds(m, w, i, a + 1, e) /\ Finds(m, w, j, p + 1, e) /\ Finds(m, w, k, u + 1, e)
    BY ONLY <2>5, FindsOfThree
  <2> QED BY ONLY <2>1, <2>4 DEF a, i, j, k, e
<1>5. LET w == [first |-> q + 5, count |-> 3]
      IN  Finds(m, w, 1, q + 6, q + 11) /\ Finds(m, w, -1, q + 8, q + 11) /\ Finds(m, w, -2, q + 10, q + 11)
  <2> DEFINE a == q + 5
             p == q + 7
             u == q + 9
             e == q + 11
             i == 1
             j == -1
             k == -2
  <2>1. /\ a \in 1..(Len(m) + 1) /\ e # 0 /\ i \in Int /\ j \in Int /\ k \in Int /\ i # j /\ i # k /\ j # k
        /\ a + 1 = q + 6 /\ p + 1 = q + 8 /\ u + 1 = q + 10
    BY ONLY <1>1
  <2>2. After(m, a, 0) = a /\ After(m, a, 2) = p /\ After(m, a, 4) = u /\ After(m, a, 6) = e
    BY ONLY <1>1
  <2>3. m[a] = Num(i) /\ m[p] = Num(j) /\ m[u] = Num(k)
    BY ONLY <1>2
  <2> HIDE DEF a, p, u, e, i, j, k
  <2>5. Three(m, a, p, u, e, i, j, k)
    BY ONLY <1>1, <2>1, <2>2, <2>3 DEF Three
  <2>4. LET w == [first |-> a, count |-> 3]
        IN  Finds(m, w, i, a + 1, e) /\ Finds(m, w, j, p + 1, e) /\ Finds(m, w, k, u + 1, e)
    BY ONLY <2>5, FindsOfThree
  <2> QED BY ONLY <2>1, <2>4 DEF a, i, j, k, e
<1> QED BY ONLY <1>3, <1>4, <1>5 DEF m, q, n, APP_SIGNATURE_LABEL, ALGORITHM_LABEL, PUBLIC_KEY_LABEL,
          SIGNATURE_LABEL, KEY_TYPE_LABEL, OKP_CRV_LABEL, OKP_X_LABEL
LEMMA EnterFinds ==
  ASSUME NEW where, NEW label, NEW v, NEW end, Finds(message, where, label, v, end), ~uLastError,
         message[v][1] = "map", Enter(where, label)
  PROVE  /\ ~uLastError' /\ outerMap' = where /\ cursor' = v + 1
         /\ map' = [first |-> v + 1, count |-> message[v][2]]
BY DEF Finds, Enter, Found

\* A value of the right kind is found.
Gets(label, kind, v, end) == ~uLastError /\ Finds(message, map, label, v, end) /\ message[v][1] = kind

LEMMA GetFinds ==
  ASSUME NEW label, NEW kind, NEW name, NEW v, NEW end, Gets(label, kind, v, end), Get(label, kind, name)
  PROVE  ~uLastError' /\ cursor' = end /\ got' = [got EXCEPT ![name] = message[v]]
BY DEF Gets, Finds, Get, Found

\* The tokens that are read, and what is left of the message when it is stripped.
LEMMA SentTokens ==
  ASSUME NEW es \in Contents
  PROVE  LET m == Sent(es)
             q == Place(es)
             d == Signed(es)
         IN  /\ q \in Nat /\ Len(m) = q + 12 /\ m # <<>>
             /\ m[1] = Map(Len(es) + 1) /\ m[q] = Map(3)
             /\ m[q + 2] = Num(-8) /\ m[q + 4] = Map(3) /\ m[q + 6] = Num(1) /\ m[q + 8] = Num(6)
             /\ m[q + 10] = Str("key") /\ m[q + 12] = Signature(d)
             /\ Stripped(m, q, q + 11) = d
<1> DEFINE m == Sent(es)
           q == Place(es)
           d == Signed(es)
<1>1. /\ q \in Nat /\ q >= 3 /\ d \in Seq(Token) /\ Len(d) = q + 10 /\ d[1] = Map(Len(es) + 1)
  BY SignedHas
<1>2. /\ d[q] = Map(2) /\ d[q + 2] = Num(-8) /\ d[q + 4] = Map(3) /\ d[q + 6] = Num(1) /\ d[q + 8] = Num(6)
      /\ d[q + 10] = Str("key")
  BY SignedTokens
<1>3. /\ m \in Seq(Tokens(d)) /\ Len(m) = q + 12 /\ m[q] = Map(3) /\ m[q + 12] = Signature(d)
      /\ \A j \in 1..(q + 10) : j # q => m[j] = d[j]
  BY SentHas
<1> HIDE DEF m, q, d
<1>4. \A i \in {2, 4, 6, 8, 10} : q + i \in 1..(q + 10) /\ q + i # q
  BY ONLY <1>1
<1>5. /\ m[q + 2] = Num(-8) /\ m[q + 4] = Map(3) /\ m[q + 6] = Num(1) /\ m[q + 8] = Num(6)
      /\ m[q + 10] = Str("key")
  BY ONLY <1>2, <1>3, <1>4
<1>6. m[1] = Map(Len(es) + 1)
  <2>1. 1 \in 1..(q + 10) /\ 1 # q
    BY ONLY <1>1
  <2> QED BY ONLY <1>1, <1>3, <2>1
<1>7. m # <<>>
  <2>1. Len(<<>>) = 0 /\ q + 12 # 0
    BY <1>1
  <2> QED BY ONLY <1>3, <2>1
<1>8. Stripped(m, q, q + 11) = d
  <2> DEFINE x == Stripped(m, q, q + 11)
  <2>1. x = [p \in 1..(q + 10) |-> IF p = q THEN Map(m[q][2] - 1) ELSE m[p]]
    <3> DEFINE b == q + 11
               c == q + 10
    <3>1. b - 1 = c
      BY ONLY <1>1
    <3> HIDE DEF b, c
    <3>2. Stripped(m, q, b) = [p \in 1..c |-> IF p = q THEN Map(m[q][2] - 1) ELSE m[p]]
      BY ONLY <3>1 DEF Stripped
    <3> QED BY ONLY <3>2 DEF b, c
  <2>2. Map(m[q][2] - 1) = Map(2)
    <3>1. Map(3)[2] = 3
      BY DEF Map
    <3>2. m[q][2] - 1 = 2
      BY ONLY <1>3, <3>1
    <3> QED BY ONLY <3>2
  <2>3. \A p \in 1..(q + 10) : (IF p = q THEN Map(m[q][2] - 1) ELSE m[p]) = d[p]
    BY ONLY <1>2, <1>3, <2>2
  <2>4. d = [p \in 1..(q + 10) |-> d[p]]
    <3>1. d = [p \in 1..Len(d) |-> d[p]]
      BY ONLY <1>1
    <3> QED BY ONLY <1>1, <3>1
  <2> QED BY ONLY <2>1, <2>3, <2>4
<1> QED BY ONLY <1>1, <1>3, <1>5, <1>6, <1>7, <1>8 DEF m, q, d

LEMMA UndamagedInit ==
  Init => ReadAsSent
BY DEF Init, ReadAsSent, Signing

LEMMA UndamagedNext ==
  SignerOK /\ VerifierOK /\ ReadAsSent /\ [Next]_vars => ReadAsSent'
<1> SUFFICES ASSUME SignerOK, VerifierOK, ReadAsSent, [Next]_vars,
                    pc' \notin Signing, original'.received = original'.sent
             PROVE  ReadAsSent'
  BY DEF ReadAsSent
<1> DEFINE m == Sent(entries)
           q == Place(entries)
           d == Signed(entries)
           outer == [first |-> 2, count |-> Len(entries) + 1]
           csf == [first |-> q + 1, count |-> 3]
           key == [first |-> q + 5, count |-> 3]
<1>1. entries \in Contents /\ DOMAIN got = Names
  BY DEF SignerOK, VerifierOK
<1>2. /\ q \in Nat /\ Len(m) = q + 12 /\ m # <<>> /\ m[1] = Map(Len(entries) + 1) /\ m[q] = Map(3)
      /\ m[q + 2] = Num(-8) /\ m[q + 4] = Map(3) /\ m[q + 6] = Num(1) /\ m[q + 8] = Num(6)
      /\ m[q + 10] = Str("key") /\ m[q + 12] = Signature(d) /\ Stripped(m, q, q + 11) = d
  BY <1>1, SentTokens
<1>3. /\ Finds(m, outer, APP_SIGNATURE_LABEL, q, q + 13)
      /\ Finds(m, csf, ALGORITHM_LABEL, q + 2, q + 13)
      /\ Finds(m, csf, PUBLIC_KEY_LABEL, q + 4, q + 13)
      /\ Finds(m, csf, SIGNATURE_LABEL, q + 12, q + 13)
      /\ Finds(m, key, KEY_TYPE_LABEL, q + 6, q + 11)
      /\ Finds(m, key, OKP_CRV_LABEL, q + 8, q + 11)
      /\ Finds(m, key, OKP_X_LABEL, q + 10, q + 11)
  BY <1>1, SentFound
<1>4. /\ \A x : Num(x)[1] = "int" /\ Map(x)[1] = "map" /\ Map(x)[2] = x /\ Str(x)[1] = "str"
      /\ \A c : Signature(c)[1] = "str" /\ Len(Signature(c)) = 4
  BY DEF Num, Map, Str, Signature
<1>5. CASE WriteApplication \/ WriteKey \/ WriteCsfMap \/ Sign \/ AddSignature \/ CountSignature
  BY <1>5 DEF WriteApplication, WriteKey, WriteCsfMap, Sign, AddSignature, CountSignature, Goto, Signing
<1>6. CASE Send
  <2>1. pc = "send" /\ pc' = "enter" /\ uLastError' = uLastError
    BY <1>6 DEF Send, Goto
  <2>2. ~uLastError
    BY <2>1 DEF VerifierOK, Signing
  <2> QED BY ONLY <2>1, <2>2 DEF ReadAsSent, AsSent, Signing, Inner
<1>7. CASE Damage
  <2>1. pc = "enter" /\ pc' = "enter" /\ uLastError' = uLastError
    BY <1>7 DEF Damage
  <2>2. ~uLastError
    BY <2>1 DEF VerifierOK, Signing
  <2> QED BY ONLY <2>1, <2>2 DEF ReadAsSent, AsSent, Signing, Inner
<1>8. ASSUME pc \notin Signing, UNCHANGED <<entries, original>>
      PROVE  /\ AsSent /\ q' = q /\ d' = d
             /\ pc \notin {"verify", "accept", "reject"} => message = m
  <2>1. original.received = original.sent /\ q' = q /\ d' = d
    BY <1>8 DEF Place, Signed, Labelled, Opening
  <2>2. original.sent = m
    BY <1>8 DEF VerifierOK
  <2> QED BY <1>8, <2>1, <2>2 DEF ReadAsSent, VerifierOK
<1>9. CASE EnterSignatureMap
  <2>1. /\ pc = "enter" /\ pc' = "algorithm" /\ UNCHANGED <<entries, original, message>> /\ signatureMap' = cursor' - 1
    BY <1>9 DEF EnterSignatureMap, Goto, signer
  <2>2. AsSent /\ q' = q /\ message = m
    BY <1>8, <2>1 DEF Signing
  <2>3. ~uLastError
    BY <2>2 DEF AsSent
  <2> HIDE DEF m, q, d, csf, key
  <2>4. Enter(outer, APP_SIGNATURE_LABEL)
    <3>1. message # <<>> /\ message[1][1] = "map" /\ message[1][2] = Len(entries) + 1
      BY ONLY <1>2, <1>4, <2>2
    <3> QED BY <1>9, <3>1 DEF EnterSignatureMap
  <2>5. Finds(message, outer, APP_SIGNATURE_LABEL, q, q + 13) /\ message[q][1] = "map" /\ message[q][2] = 3
    BY ONLY <1>2, <1>3, <1>4, <2>2
  <2> HIDE DEF outer
  <2>6. ~uLastError' /\ cursor' = q + 1 /\ map' = [first |-> q + 1, count |-> 3]
    BY ONLY <2>3, <2>4, <2>5, EnterFinds
  <2>7. signatureMap' = q
    BY ONLY <1>2, <2>1, <2>6
  <2> QED BY ONLY <2>1, <2>2, <2>6, <2>7 DEF AsSent, ReadAsSent, Signing, Inner, q
<1>10. CASE GetAlgorithm
  <2>1. /\ pc = "algorithm" /\ UNCHANGED <<entries, original, message, signatureMap, map>>
        /\ Get(ALGORITHM_LABEL, "int", "algorithm")
    BY <1>10 DEF GetAlgorithm, signer
  <2>2. AsSent /\ q' = q /\ message = m
    BY <1>8, <2>1 DEF Signing
  <2>3. ~uLastError /\ map = csf /\ signatureMap = q
    BY <2>1, <2>2 DEF AsSent
  <2> HIDE DEF m, q, d, csf
  <2>4. /\ Finds(message, map, ALGORITHM_LABEL, q + 2, q + 13)
        /\ message[q + 2] = Num(EDDSA_ALG) /\ message[q + 2][1] = "int"
    BY ONLY <1>2, <1>3, <1>4, <2>2, <2>3 DEF EDDSA_ALG
  <2>5. ~uLastError' /\ got' = [got EXCEPT !["algorithm"] = message[q + 2]]
    <3> DEFINE v == q + 2
    <3>1. Gets(ALGORITHM_LABEL, "int", v, q + 13) /\ Get(ALGORITHM_LABEL, "int", "algorithm")
      BY ONLY <2>1, <2>3, <2>4 DEF Gets
    <3> HIDE DEF v
    <3>2. ~uLastError' /\ got' = [got EXCEPT !["algorithm"] = message[v]]
      BY ONLY <3>1, GetFinds
    <3> QED BY ONLY <3>2 DEF v
  <2>6. got'.algorithm = Num(EDDSA_ALG)
    BY ONLY <1>1, <2>4, <2>5 DEF Names
  <2>7. pc' = "publicKey"
    BY <1>10, <2>5, <2>6 DEF GetAlgorithm, Expect
  <2> QED BY ONLY <2>1, <2>2, <2>3, <2>5, <2>7 DEF AsSent, ReadAsSent, Signing, Inner, q, csf
<1>11. CASE EnterPublicKey
  <2>1. /\ pc = "publicKey" /\ pc' = "keyType" /\ UNCHANGED <<entries, original, message, signatureMap>>
        /\ Enter(map, PUBLIC_KEY_LABEL)
    BY <1>11 DEF EnterPublicKey, Goto, signer
  <2>2. AsSent /\ q' = q /\ message = m
    BY <1>8, <2>1 DEF Signing
  <2>3. ~uLastError /\ map = csf /\ signatureMap = q
    BY <2>1, <2>2 DEF AsSent
  <2> HIDE DEF m, q, d, csf
  <2> DEFINE v == q + 4
  <2>4. Finds(message, map, PUBLIC_KEY_LABEL, v, q + 13) /\ message[v][1] = "map" /\ message[v][2] = 3
    BY ONLY <1>2, <1>3, <1>4, <2>2, <2>3
  <2>5. v + 1 = q + 5
    BY ONLY <1>2
  <2> HIDE DEF v
  <2>6. ~uLastError' /\ map' = [first |-> q + 5, count |-> 3] /\ outerMap' = csf
    BY ONLY <2>1, <2>3, <2>4, <2>5, EnterFinds
  <2> QED BY ONLY <2>1, <2>2, <2>3, <2>6 DEF AsSent, ReadAsSent, Signing, Inner, q, csf
<1>12. ASSUME NEW label, NEW kind, NEW name \in Names \ {"signature"}, NEW v, NEW w, Finds(m, key, label, v, q + 11),
              m[v] = w, w[1] = kind, Get(label, kind, name), pc \in {"keyType", "curve", "x"},
              UNCHANGED <<signatureMap, signer, message, original, damage, map, outerMap, beforeSignature>>,
              ~uLastError' /\ got'[name] = w =>
                pc' = CASE pc = "keyType" -> "curve" [] pc = "curve" -> "x" [] pc = "x" -> "exitKey",
              pc = "x" => name = "x" /\ w = Str("key")
       PROVE  ReadAsSent'
  <2>1. pc \notin Signing /\ UNCHANGED <<entries, original, message, signatureMap, map, outerMap>>
    BY <1>12 DEF Signing, signer
  <2>2. AsSent /\ q' = q /\ message = m
    BY <1>8, <1>12, <2>1
  <2>3. ~uLastError /\ map = key /\ outerMap = csf /\ signatureMap = q
    BY <1>12, <2>2 DEF AsSent, Inner
  <2> HIDE DEF m, q, d, csf, key
  <2>4. Gets(label, kind, v, q + 11)
    BY ONLY <1>12, <2>2, <2>3 DEF Gets
  <2>5. ~uLastError' /\ cursor' = q + 11 /\ got' = [got EXCEPT ![name] = message[v]]
    BY ONLY <1>12, <2>3, <2>4, GetFinds
  <2>6. got'[name] = w
    BY ONLY <1>1, <1>12, <2>2, <2>5
  <2>7. pc' = CASE pc = "keyType" -> "curve" [] pc = "curve" -> "x" [] pc = "x" -> "exitKey"
    BY ONLY <1>12, <2>5, <2>6
  <2>8. pc' \in {"curve", "x", "exitKey"} /\ (pc' = "exitKey" => got'["x"] = Str("key"))
    BY ONLY <1>12, <2>6, <2>7
  <2>9. pc' = "exitKey" => got'.x = Str("key")
    BY ONLY <2>8
  <2> QED BY ONLY <2>1, <2>2, <2>3, <2>5, <2>8, <2>9 DEF AsSent, ReadAsSent, Signing, Inner, q, csf, key
<1>13. CASE GetKeyType
  <2> DEFINE v == q + 6
             w == Num(KEY_TYPE_OKP)
  <2>1. Finds(m, key, KEY_TYPE_LABEL, v, q + 11) /\ m[v] = w /\ w[1] = "int"
    BY ONLY <1>2, <1>3, <1>4 DEF KEY_TYPE_OKP
  <2>2. /\ Get(KEY_TYPE_LABEL, "int", "keyType") /\ pc \in {"keyType", "curve", "x"} /\ pc # "x"
        /\ UNCHANGED <<signatureMap, signer, message, original, damage, map, outerMap, beforeSignature>>
        /\ ~uLastError' /\ got'["keyType"] = w =>
             pc' = CASE pc = "keyType" -> "curve" [] pc = "curve" -> "x" [] pc = "x" -> "exitKey"
    BY <1>13 DEF GetKeyType, Expect
  <2>3. "keyType" \in Names \ {"signature"}
    BY DEF Names
  <2> HIDE DEF v, w, m, q, key
  <2> QED BY ONLY <1>12, <2>1, <2>2, <2>3
<1>14. CASE GetCurve
  <2> DEFINE v == q + 8
             w == Num(CRV_ED25519)
  <2>1. Finds(m, key, OKP_CRV_LABEL, v, q + 11) /\ m[v] = w /\ w[1] = "int"
    BY ONLY <1>2, <1>3, <1>4 DEF CRV_ED25519
  <2>2. /\ Get(OKP_CRV_LABEL, "int", "curveId") /\ pc \in {"keyType", "curve", "x"} /\ pc # "x"
        /\ UNCHANGED <<signatureMap, signer, message, original, damage, map, outerMap, beforeSignature>>
        /\ ~uLastError' /\ got'["curveId"] = w =>
             pc' = CASE pc = "keyType" -> "curve" [] pc = "curve" -> "x" [] pc = "x" -> "exitKey"
    BY <1>14 DEF GetCurve, Expect
  <2>3. "curveId" \in Names \ {"signature"}
    BY DEF Names
  <2> HIDE DEF v, w, m, q, key
  <2> QED BY ONLY <1>12, <2>1, <2>2, <2>3
<1>15. CASE GetX
  <2> DEFINE v == q + 10
             w == Str("key")
  <2>1. Finds(m, key, OKP_X_LABEL, v, q + 11) /\ m[v] = w /\ w[1] = "str"
    BY ONLY <1>2, <1>3, <1>4
  <2>2. /\ Get(OKP_X_LABEL, "str", "x") /\ pc \in {"keyType", "curve", "x"}
        /\ UNCHANGED <<signatureMap, signer, message, original, damage, map, outerMap, beforeSignature>>
        /\ ~uLastError' /\ got'["x"] = w =>
             pc' = CASE pc = "keyType" -> "curve" [] pc = "curve" -> "x" [] pc = "x" -> "exitKey"
    BY <1>15 DEF GetX, Expect
  <2>3. "x" \in Names \ {"signature"} /\ w = Str("key")
    BY DEF Names
  <2> HIDE DEF v, w, m, q, key
  <2> QED BY ONLY <1>12, <2>1, <2>2, <2>3
<1>16. CASE ExitPublicKey
  <2>1. /\ pc = "exitKey" /\ pc' = "signature" /\ UNCHANGED <<entries, original, message, signatureMap, got, uLastError>>
        /\ map' = (IF uLastError THEN map ELSE outerMap) /\ beforeSignature' = cursor
    BY <1>16 DEF ExitPublicKey, Goto, signer
  <2>2. AsSent /\ q' = q
    BY <1>8, <2>1 DEF Signing
  <2>3. ~uLastError /\ outerMap = csf /\ cursor = q + 11 /\ signatureMap = q /\ got.x = Str("key")
    BY <2>1, <2>2 DEF AsSent, Inner
  <2> HIDE DEF q, csf
  <2> QED BY ONLY <2>1, <2>2, <2>3 DEF AsSent, ReadAsSent, Signing, Inner, q, csf
<1>17. CASE GetSignature
  <2>1. /\ pc = "signature" /\ UNCHANGED <<entries, original, message, signatureMap, beforeSignature>>
        /\ Get(SIGNATURE_LABEL, "str", "signature")
    BY <1>17 DEF GetSignature, signer
  <2>2. AsSent /\ q' = q /\ d' = d /\ message = m
    BY <1>8, <2>1 DEF Signing
  <2>3. ~uLastError /\ map = csf /\ beforeSignature = q + 11 /\ signatureMap = q /\ got.x = Str("key")
    BY <2>1, <2>2 DEF AsSent
  <2> HIDE DEF m, q, d, csf
  <2>4. Finds(message, map, SIGNATURE_LABEL, q + 12, q + 13) /\ message[q + 12] = Signature(d)
        /\ message[q + 12][1] = "str" /\ q + 13 = Len(message) + 1
    BY ONLY <1>2, <1>3, <1>4, <2>2, <2>3
  <2>5. ~uLastError' /\ cursor' = Len(message) + 1 /\ got' = [got EXCEPT !["signature"] = message[q + 12]]
    <3> DEFINE v == q + 12
    <3>1. Gets(SIGNATURE_LABEL, "str", v, q + 13) /\ Get(SIGNATURE_LABEL, "str", "signature")
      BY ONLY <2>1, <2>3, <2>4 DEF Gets
    <3> HIDE DEF v
    <3>2. ~uLastError' /\ cursor' = q + 13 /\ got' = [got EXCEPT !["signature"] = message[v]]
      BY ONLY <3>1, GetFinds
    <3> QED BY ONLY <2>4, <3>2 DEF v
  <2>6. got'.signature = Signature(d) /\ got'.x = Str("key")
    BY ONLY <1>1, <2>3, <2>4, <2>5 DEF Names
  <2>7. Len(got'.signature) = 4
    BY ONLY <1>4, <2>6
  <2>8. pc' = "exit"
    BY <1>17, <2>5, <2>7 DEF GetSignature, Expect
  <2> QED BY ONLY <2>1, <2>2, <2>3, <2>5, <2>6, <2>8 DEF AsSent, ReadAsSent, Signing, Inner, q, d
<1>18. CASE ExitSignatureMap
  <2>1. /\ pc = "exit" /\ pc' = (IF uLastError THEN "abort" ELSE "strip")
        /\ UNCHANGED <<entries, original, signatureMap, got, uLastError, beforeSignature>>
    BY <1>18 DEF ExitSignatureMap, Goto, signer, verifier
  <2>2. AsSent /\ q' = q /\ d' = d
    BY <1>8, <2>1 DEF Signing
  <2>3. /\ ~uLastError /\ beforeSignature = q + 11 /\ signatureMap = q /\ got.x = Str("key")
        /\ got.signature = Signature(d)
    BY <2>1, <2>2 DEF AsSent
  <2> HIDE DEF q, d
  <2> QED BY ONLY <2>1, <2>2, <2>3 DEF AsSent, ReadAsSent, Signing, Inner, q, d
<1>19. CASE StripSignature
  <2>1. /\ pc = "strip" /\ pc' = "verify" /\ UNCHANGED <<entries, original, signatureMap, got, uLastError>>
        /\ message' = [p \in 1..(beforeSignature - 1) |->
                         IF p = signatureMap THEN Map(message[p][2] - 1) ELSE message[p]]
    BY <1>19 DEF StripSignature, Goto, signer
  <2>2. AsSent /\ q' = q /\ d' = d /\ message = m
    BY <1>8, <2>1 DEF Signing
  <2>3. /\ ~uLastError /\ beforeSignature = q + 11 /\ signatureMap = q /\ got.x = Str("key")
        /\ got.signature = Signature(d)
    BY <2>1, <2>2 DEF AsSent
  <2> HIDE DEF m, q, d
  <2>4. message' = Stripped(message, signatureMap, beforeSignature)
    BY ONLY <2>1 DEF Stripped
  <2>5. message' = d
    BY ONLY <1>2, <2>2, <2>3, <2>4
  <2> QED BY ONLY <2>1, <2>2, <2>3, <2>5 DEF AsSent, ReadAsSent, Signing, Inner, q, d
<1>20. CASE Verify
  <2>1. /\ pc = "verify" /\ UNCHANGED <<entries, original, signatureMap, got, uLastError, message>>
        /\ ~uLastError /\ got.signature = Signature(message) /\ got.x = Str("key") => pc' = "accept"
    BY <1>20 DEF Verify, Goto, signer, verifier
  <2>2. AsSent /\ q' = q
    BY <1>8, <2>1 DEF Signing
  <2>3. ~uLastError /\ signatureMap = q /\ got.x = Str("key") /\ got.signature = Signature(d) /\ message = d
    BY <2>1, <2>2 DEF AsSent
  <2> HIDE DEF q, d
  <2>4. pc' = "accept"
    BY ONLY <2>1, <2>3
  <2> QED BY ONLY <2>1, <2>2, <2>3, <2>4 DEF AsSent, ReadAsSent, Signing, Inner, q
<1>21. CASE UNCHANGED vars
  <2>1. UNCHANGED <<pc, entries, original, signatureMap, cursor, map, outerMap, uLastError, got, beforeSignature, message>>
    BY <1>21 DEF vars, signer, verifier
  <2>2. Place(entries)' = Place(entries) /\ Signed(entries)' = Signed(entries)
    BY <2>1 DEF Place, Signed, Labelled, Opening
  <2> QED BY ONLY ReadAsSent, <2>1, <2>2 DEF AsSent, ReadAsSent
<1> QED BY <1>5, <1>6, <1>7, <1>9, <1>10, <1>11, <1>13, <1>14, <1>15, <1>16, <1>17, <1>18, <1>19, <1>20, <1>21 DEF Next

\* UndamagedIsAccepted: for any entries, what arrives as it was sent is accepted.
THEOREM UndamagedRight ==
  Spec => []UndamagedIsAccepted
<1>1. ReadAsSent => UndamagedIsAccepted
  BY DEF ReadAsSent, AsSent, UndamagedIsAccepted, Signing
<1>2. Init => SignerOK /\ VerifierOK /\ ReadAsSent
  BY SignerInit, VerifierInit, UndamagedInit
<1>3. SignerOK /\ VerifierOK /\ ReadAsSent /\ [Next]_vars => (SignerOK /\ VerifierOK /\ ReadAsSent)'
  BY SignerNext, VerifierNext, UndamagedNext
<1> QED BY <1>1, <1>2, <1>3, PTL DEF Spec
=============================================================================
