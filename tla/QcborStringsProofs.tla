-------------------------- MODULE QcborStringsProofs --------------------------
(***************************************************************************)
(* For every pool size, every input and any number of strings: the pool's   *)
(* free offset stays inside the pool, no string that was returned and no    *)
(* chunk of one being read is written over, a call that fails gives back    *)
(* what it took, and no string that fits is refused.  For every storage and *)
(* list of writes: UsefulOutBuf's output is what the list means.            *)
(***************************************************************************)
EXTENDS QcborStrings, FiniteSetTheorems, SequenceTheorems, TLAPS

\* s is in m from p on.
Holds(m, p, s) == \A j \in 1..Len(s) : m[p + j - 1] = s[j]

\* n cells.
Memory(m, n) == n \in Nat /\ m \in [0..(n - 1) -> Int]

\* A buffer of n cells, d of them filled, and no error.
Filled(n, d, m) == [data_len |-> d, err |-> FALSE, size |-> n, storage |-> TRUE, mem |-> m]

\* A buffer with the error flag, its cells those of m.
Flagged(o, m) == o.err /\ o.mem = m

\* m2 is m with x in cell d.
Changed(m, m2, n, d, x) ==
  Memory(m2, n) /\ m2[d] = x /\ \A a \in 0..(n - 1) : a # d => m2[a] = m[a]

\* A pool of n cells with its two numbers in front.
GoodPool(m, n) ==
  /\ Memory(m, n) /\ n >= Header
  /\ m[0] = n /\ m[1] \in Header..n

\* The two pools agree on the cells behind the numbers and below b.
Same(m, m2, b) == \A a \in Header..(b - 1) : m2[a] = m[a]

(***************************************************************************)
(* The inductive invariant.  The strings returned lie below Base, which is  *)
(* the free offset or, inside the loop over chunks, the first of them; the  *)
(* chunks end at the free offset, so that a reallocation and a free concern *)
(* what was allocated last.                                                 *)
(***************************************************************************)
Base == IF pc = "chunks" /\ full.ptr # Null THEN full.ptr ELSE mem[1]

Types ==
  /\ input \in Inputs /\ cursor \in Nat
  /\ mode \in {"none", "chunks", "all"} /\ pc \in {"setup", "ready", "chunks"}
  /\ Size \in Nat /\ mem \in [0..(Size - 1) -> Int]
  /\ got \subseteq [ptr : Int, s : Seq(Int)]
  /\ text \in Seq(Int) /\ full \in [ptr : Int, len : Nat]

PoolUse ==
  /\ pc = "setup" => mode = "none"
  /\ mode = "none" => got = {} /\ pc # "chunks"
  /\ mode # "none" => GoodPool(mem, Size)

Reading ==
  /\ pc = "chunks" /\ full.ptr = Null => full.len = 0 /\ text = <<>>
  /\ pc = "chunks" /\ full.ptr # Null =>
       /\ full.ptr \in Header..Size /\ full.ptr + full.len = mem[1]
       /\ Len(text) = full.len /\ Holds(mem, full.ptr, text)

Returned ==
  \A g \in got : g.ptr >= Header /\ g.ptr + Len(g.s) <= Base /\ Holds(mem, g.ptr, g.s)

Restores ==
  mode # "none" =>
    /\ pc = "chunks" => before = Base
    /\ pc = "ready" /\ last.err \notin {"none", "SUCCESS"} => before = mem[1]

IInv == Types /\ PoolUse /\ Reading /\ Returned /\ Restores

-----------------------------------------------------------------------------
(* The pool                                                                 *)

\* What Write() changes, where there is room.
LEMMA WriteWorks ==
  ASSUME NEW n, NEW m, Memory(m, n), NEW p \in 0..n, NEW s \in Seq(Int), p + Len(s) <= n
  PROVE  /\ Memory(Write(m, p, s), n)
         /\ \A a \in 0..(n - 1) : a < p => Write(m, p, s)[a] = m[a]
         /\ \A a \in 0..(n - 1) : a >= p + Len(s) => Write(m, p, s)[a] = m[a]
         /\ Holds(Write(m, p, s), p, s)
<1> DEFINE l == Len(s)
           w == Write(m, p, s)
<1>0. n \in Nat /\ m \in [0..(n - 1) -> Int]
  BY DEF Memory
<1>1. l \in Nat /\ \A j \in 1..l : s[j] \in Int
  BY ElementOfSeq
<1>2. w = [a \in 0..(n - 1) |-> IF a \in p..(p + l - 1) THEN s[a - p + 1] ELSE m[a]]
  BY <1>0 DEF Write
<1>3. p + l <= n
  OBVIOUS
<1> HIDE DEF l, w
<1>4. \A a \in 0..(n - 1) : w[a] \in Int
  <2> SUFFICES ASSUME NEW a \in 0..(n - 1) PROVE w[a] \in Int
    OBVIOUS
  <2>1. a \in p..(p + l - 1) => a - p + 1 \in 1..l
    BY ONLY <1>0, <1>1, p \in 0..n, a \in 0..(n - 1)
  <2> QED BY ONLY <1>0, <1>1, <1>2, <2>1, a \in 0..(n - 1)
<1>5. Memory(w, n)
  BY ONLY <1>0, <1>2, <1>4 DEF Memory
<1>6. \A a \in 0..(n - 1) : (a < p => w[a] = m[a]) /\ (a >= p + l => w[a] = m[a])
  BY ONLY <1>0, <1>1, <1>2, p \in 0..n
<1>7. \A j \in 1..l : w[p + j - 1] = s[j]
  <2> SUFFICES ASSUME NEW j \in 1..l PROVE w[p + j - 1] = s[j]
    OBVIOUS
  <2>1. p + j - 1 \in 0..(n - 1) /\ p + j - 1 \in p..(p + l - 1) /\ (p + j - 1) - p + 1 = j
    BY ONLY <1>0, <1>1, <1>3, p \in 0..n, j \in 1..l
  <2> QED BY ONLY <1>2, <2>1
<1> QED BY <1>5, <1>6, <1>7 DEF Holds, l, w

\* One number behind the d cells of a buffer, or the error flag.
LEMMA AppendWrites ==
  ASSUME NEW n, NEW m, Memory(m, n), NEW d \in 0..n, NEW x \in Int
  PROVE  /\ d = n => Flagged(AppendUint32(Filled(n, d, m), x), m)
         /\ d < n => /\ AppendUint32(Filled(n, d, m), x) = Filled(n, d + 1, Write(m, d, <<x>>))
                     /\ Changed(m, Write(m, d, <<x>>), n, d, x)
<1> DEFINE o == Filled(n, d, m)
<1>0. n \in Nat /\ m \in [0..(n - 1) -> Int]
  BY DEF Memory
<1>1. Len(<<x>>) = 1 /\ <<x>>[1] = x /\ <<x>> \in Seq(Int)
  OBVIOUS
<1>2. MoveUp(m, d, d, 1) = m
  BY <1>0 DEF MoveUp
<1>3. AppendUint32(o, x) = InsertUsefulBuf(o, <<x>>, d)
  BY DEF AppendUint32, AppendUsefulBuf, Filled
<1>4. CASE d = n
  BY <1>0, <1>1, <1>3, <1>4 DEF InsertUsefulBuf, WillItFit, RoomLeft, Filled, Flagged
<1>5. CASE d < n
  <2>1. InsertUsefulBuf(o, <<x>>, d) =
          [o EXCEPT !.data_len = d + 1, !.mem = Write(MoveUp(m, d, d, 1), d, <<x>>)]
    BY <1>0, <1>1, <1>5 DEF InsertUsefulBuf, WillItFit, RoomLeft, Filled
  <2>2. InsertUsefulBuf(o, <<x>>, d) = Filled(n, d + 1, Write(m, d, <<x>>))
    BY <2>1, <1>2 DEF Filled
  <2> DEFINE w == Write(m, d, <<x>>)
  <2>3. d + Len(<<x>>) <= n /\ d + Len(<<x>>) = d + 1
    BY <1>0, <1>1, <1>5
  <2>4. Memory(w, n) /\ Holds(w, d, <<x>>)
    BY ONLY <1>1, <2>3, Memory(m, n), d \in 0..n, WriteWorks
  <2>5. ASSUME NEW a \in 0..(n - 1), a # d PROVE w[a] = m[a]
    <3>1. a < d \/ a >= d + Len(<<x>>)
      BY <1>0, <2>3, <2>5
    <3>2. /\ \A b \in 0..(n - 1) : b < d => w[b] = m[b]
          /\ \A b \in 0..(n - 1) : b >= d + Len(<<x>>) => w[b] = m[b]
      <4> DEFINE s == <<x>>
      <4>1. s \in Seq(Int) /\ d + Len(s) <= n
        BY <1>1, <2>3
      <4> HIDE DEF s
      <4>2. /\ \A b \in 0..(n - 1) : b < d => Write(m, d, s)[b] = m[b]
            /\ \A b \in 0..(n - 1) : b >= d + Len(s) => Write(m, d, s)[b] = m[b]
        BY ONLY <4>1, Memory(m, n), d \in 0..n, WriteWorks
      <4> QED BY <4>2 DEF s
    <3> QED BY <3>1, <3>2
  <2> HIDE DEF w
  <2>6. w[d] = x
    <3>1. w[d + 1 - 1] = <<x>>[1]
      BY ONLY <2>4, <1>1 DEF Holds
    <3> QED BY ONLY <3>1, <1>0, <1>1, d \in 0..n
  <2>7. Changed(m, w, n, d, x)
    BY <2>4, <2>5, <2>6 DEF Changed
  <2> QED BY <1>3, <1>5, <2>2, <2>7 DEF w
<1> QED BY <1>0, <1>4, <1>5

\* Only the two numbers are written by MemPool_Pack().
LEMMA PackWrites ==
  ASSUME NEW n, NEW m, Memory(m, n), NEW free \in Int
  PROVE  /\ n < Header => /\ MemPool_Pack(m, n, free).err
                          /\ Memory(MemPool_Pack(m, n, free).mem, n)
         /\ n >= Header =>
              /\ ~MemPool_Pack(m, n, free).err
              /\ \E m1 : /\ Changed(m, m1, n, 0, n)
                         /\ Changed(m1, MemPool_Pack(m, n, free).mem, n, 1, free)
<1> DEFINE first == AppendUint32(Filled(n, 0, m), n)
           second == AppendUint32(first, free)
<1> USE DEF Header
<1>0. n \in Nat
  BY DEF Memory
<1>1. MemPool_Pack(m, n, free) = second
  BY DEF MemPool_Pack, UsefulOutBuf_Init, Filled
<1>2. 0 \in 0..n /\ n \in Int
  BY <1>0
<1>3. CASE n = 0
  <2>1. Flagged(first, m)
    BY ONLY <1>2, <1>3, Memory(m, n), AppendWrites
  <2>2. second.err /\ second.mem = m
    BY <2>1 DEF AppendUint32, AppendUsefulBuf, InsertUsefulBuf, Flagged
  <2> QED BY <1>1, <1>3, <2>2
<1>4. CASE n >= 1
  <2> DEFINE m1 == Write(m, 0, <<n>>)
             m2 == Write(m1, 1, <<free>>)
  <2>1. 0 < n
    BY <1>0, <1>4
  <2>2. first = Filled(n, 0 + 1, m1) /\ Changed(m, m1, n, 0, n)
    BY ONLY <1>2, <2>1, Memory(m, n), AppendWrites
  <2> HIDE DEF m1, first
  <2>3. first = Filled(n, 1, m1) /\ Memory(m1, n)
    BY <2>2 DEF Changed
  <2>4. 1 \in 0..n
    BY <1>0, <1>4
  <2>5. n = 1 => second.err /\ second.mem = m1
    <3>1. 1 = n => Flagged(second, m1)
      BY ONLY <2>3, <2>4, free \in Int, AppendWrites
    <3> QED BY <3>1 DEF Flagged
  <2>6. n > 1 => second = Filled(n, 1 + 1, m2) /\ Changed(m1, m2, n, 1, free)
    BY ONLY <1>0, <2>3, <2>4, free \in Int, AppendWrites
  <2> HIDE DEF second, m2
  <2>7. n > 1 => ~second.err /\ second.mem = m2
    BY <2>6 DEF Filled
  <2> QED BY <1>0, <1>1, <1>4, <2>2, <2>3, <2>5, <2>6, <2>7
<1> QED BY <1>0, <1>3, <1>4

\* MemPool_Unpack() reads what MemPool_Pack() wrote.
LEMMA UnpackReads ==
  ASSUME NEW m
  PROVE  MemPool_Unpack(m) = [size |-> m[0], free |-> m[1]]
<1> DEFINE start == UsefulInputBuf_Init(m, Header)
           first == GetBytes(start, 1)
<1>1. start = [cursor |-> 0, err |-> FALSE, size |-> 2, mem |-> m]
  BY DEF UsefulInputBuf_Init, Header
<1> HIDE DEF start
<1>2. BytesUnconsumed(start) = 2
  BY <1>1 DEF BytesUnconsumed
<1>3. first = [start EXCEPT !.cursor = 1]
  BY <1>1, <1>2 DEF GetBytes
<1>4. first = [cursor |-> 1, err |-> FALSE, size |-> 2, mem |-> m]
  BY <1>1, <1>3
<1> HIDE DEF first
<1>5. BytesUnconsumed(first) = 1
  BY <1>4 DEF BytesUnconsumed
<1>6. GetBytes(first, 1) = [first EXCEPT !.cursor = 2]
  BY <1>4, <1>5 DEF GetBytes
<1>7. GetUint32(first) = m[0] /\ GetUint32(GetBytes(first, 1)) = m[1]
  BY <1>4, <1>6 DEF GetUint32
<1> QED BY <1>7 DEF MemPool_Unpack, first, start

\* What a call of the allocator returns and leaves: all but the free offset
\* is as it was, and what it returns ends there.
AllocatorResult(m, n, ptr, k, r) ==
  /\ GoodPool(r.mem, n) /\ Same(m, r.mem, n)
  /\ r.buf.ptr = Null => r.mem[1] = IF k = 0 /\ ptr # Null THEN ptr ELSE m[1]
  /\ r.buf.ptr # Null =>
       /\ r.buf.ptr = (IF ptr = Null THEN m[1] ELSE ptr)
       /\ r.buf.len = k /\ r.mem[1] = r.buf.ptr + k /\ k >= 1

\* A call of the allocator in a good pool with a pointer behind the numbers.
LEMMA FunctionWorks ==
  ASSUME NEW n, NEW m, GoodPool(m, n), NEW ptr \in {Null} \cup Header..n, NEW k \in Nat
  PROVE  AllocatorResult(m, n, ptr, k, MemPool_Function(m, ptr, k))
<1> DEFINE pool == [size |-> n, free |-> m[1]]
           done == Operation(pool, ptr, k)
           r == MemPool_Function(m, ptr, k)
<1> USE DEF Header
<1>0. Memory(m, n) /\ n \in Nat /\ n >= 2 /\ m[0] = n /\ m[1] \in 2..n
  BY DEF GoodPool, Memory
<1>1. r = [buf |-> done.buf, mem |-> MemPool_Pack(m, n, done.free).mem]
  BY <1>0, UnpackReads DEF MemPool_Function
<1>2. /\ done.free \in 2..n
      /\ done.buf.ptr = Null => done.free = IF k = 0 /\ ptr # Null THEN ptr ELSE m[1]
      /\ done.buf.ptr # Null =>
              /\ done.buf.ptr = (IF ptr = Null THEN m[1] ELSE ptr)
              /\ done.buf.len = k /\ done.free = done.buf.ptr + k /\ k >= 1
  <2>1. CASE k = 0
    BY <1>0, <2>1 DEF Operation, Freed, NullUsefulBuf
  <2>2. CASE k # 0 /\ ptr = Null
    BY <1>0, <2>2 DEF Operation, Allocated, NullUsefulBuf, Null
  <2>3. CASE k # 0 /\ ptr # Null
    BY <1>0, <2>3 DEF Operation, Reallocated, NullUsefulBuf, Null
  <2> QED BY <2>1, <2>2, <2>3
<1> HIDE DEF done
<1>3. Memory(r.mem, n) /\ r.mem[0] = n /\ r.mem[1] = done.free
      /\ \A a \in 2..(n - 1) : r.mem[a] = m[a]
  <2>1. done.free \in Int /\ n >= Header
    BY <1>0, <1>2
  <2>2. PICK m1 : Changed(m, m1, n, 0, n) /\ Changed(m1, r.mem, n, 1, done.free)
    BY <1>0, <1>1, <2>1, PackWrites
  <2> QED BY ONLY <1>0, <2>2 DEF Changed
<1>4. GoodPool(r.mem, n) /\ Same(m, r.mem, n) /\ r.mem[1] = done.free
  BY <1>0, <1>2, <1>3 DEF GoodPool, Same
<1>5. r.buf = done.buf
  BY <1>1
<1> HIDE DEF r
<1>6. AllocatorResult(m, n, ptr, k, r)
  BY <1>2, <1>4, <1>5 DEF AllocatorResult
<1> QED BY <1>6 DEF r

\* It refuses only what there is no room for, or nothing.
LEMMA RefusedIsTooLong ==
  ASSUME NEW n, NEW m, GoodPool(m, n), NEW ptr \in {Null} \cup Header..n, NEW k \in Nat,
         MemPool_Function(m, ptr, k).buf.ptr = Null
  PROVE  k = 0 \/ k > n - (IF ptr = Null THEN m[1] ELSE ptr)
<1> DEFINE pool == [size |-> n, free |-> m[1]]
           done == Operation(pool, ptr, k)
<1> USE DEF Header
<1>0. n \in Nat /\ n >= 2 /\ m[0] = n /\ m[1] \in 2..n
  BY DEF GoodPool, Memory
<1>1. done.buf.ptr = Null
  BY <1>0, UnpackReads DEF MemPool_Function
<1>2. CASE k # 0 /\ ptr = Null
  BY <1>0, <1>1, <1>2 DEF Operation, Allocated, NullUsefulBuf, Null
<1>3. CASE k # 0 /\ ptr # Null
  BY <1>0, <1>1, <1>3 DEF Operation, Reallocated, NullUsefulBuf, Null
<1> QED BY <1>2, <1>3

\* What a copy of s to ptr + off returns and leaves.
CopyResult(m, n, ptr, len, off, s, c) ==
  /\ c.buf = [ptr |-> ptr, len |-> len]
  /\ GoodPool(c.mem, n) /\ c.mem[1] = m[1]
  /\ Same(m, c.mem, ptr + off) /\ Holds(c.mem, ptr + off, s)

\* UsefulBuf_CopyOffset() when there is room for what it copies.
LEMMA CopyWorks ==
  ASSUME NEW n, NEW m, GoodPool(m, n), NEW ptr \in Header..n, NEW len \in Nat, ptr + len <= n,
         NEW dest, dest.ptr = ptr, dest.len = len,
         NEW s \in Seq(Int), NEW off \in Nat, off + Len(s) = len
  PROVE  CopyResult(m, n, ptr, len, off, s, CopyOffset(m, dest, off, s))
<1> USE DEF Header
<1>0. Memory(m, n) /\ n \in Nat /\ n >= 2 /\ m[0] = n /\ m[1] \in 2..n
  BY DEF GoodPool, Memory
<1>1. Len(s) \in Nat
  BY LenProperties
<1> DEFINE p == ptr + off
           w == Write(m, p, s)
           c == CopyOffset(m, dest, off, s)
<1>2. c = [buf |-> [ptr |-> ptr, len |-> len], mem |-> w]
  <2>1. ~(off > len \/ Len(s) > len - off) /\ Len(s) + off = len
    BY ONLY <1>1, off + Len(s) = len, off \in Nat, len \in Nat
  <2> QED BY <2>1 DEF CopyOffset
<1>3. p \in 2..n /\ p + Len(s) <= n
  BY ONLY <1>0, <1>1, ptr \in 2..n, len \in Nat, off \in Nat, ptr + len <= n, off + Len(s) = len
<1> HIDE DEF p
<1>4. /\ Memory(w, n)
      /\ \A a \in 0..(n - 1) : a < p => w[a] = m[a]
      /\ Holds(w, p, s)
  <2>1. p \in 0..n
    BY ONLY <1>0, <1>3
  <2> QED BY ONLY <1>0, <1>3, <2>1, s \in Seq(Int), WriteWorks
<1> HIDE DEF w
<1>5. w[0] = m[0] /\ w[1] = m[1]
  BY ONLY <1>0, <1>3, <1>4
<1>6. Same(m, w, p)
  BY ONLY <1>0, <1>3, <1>4 DEF Same, Header
<1>7. GoodPool(w, n)
  BY ONLY <1>0, <1>4, <1>5 DEF GoodPool, Header
<1> QED BY <1>2, <1>4, <1>5, <1>6, <1>7 DEF p, CopyResult

\* A string below b is not touched by a change above.
LEMMA HoldsKept ==
  ASSUME NEW m, NEW m2, NEW b \in Int, Same(m, m2, b), NEW p \in Int, p >= Header,
         NEW s \in Seq(Int), p + Len(s) <= b, Holds(m, p, s)
  PROVE  Holds(m2, p, s)
<1>1. Len(s) \in Nat
  BY LenProperties
<1>2. \A j \in 1..Len(s) : p + j - 1 \in Header..(b - 1)
  BY <1>1 DEF Header
<1> QED BY <1>2 DEF Holds, Same

\* Two strings one behind the other.
LEMMA HoldsConcat ==
  ASSUME NEW m, NEW p \in Int, NEW s \in Seq(Int), NEW t \in Seq(Int),
         Holds(m, p, s), Holds(m, p + Len(s), t)
  PROVE  Holds(m, p, s \o t)
<1>1. Len(s \o t) = Len(s) + Len(t) /\ Len(s) \in Nat /\ Len(t) \in Nat
  BY ConcatProperties, LenProperties
<1> SUFFICES ASSUME NEW j \in 1..Len(s \o t) PROVE m[p + j - 1] = (s \o t)[j]
  BY DEF Holds
<1>2. (s \o t)[j] = IF j <= Len(s) THEN s[j] ELSE t[j - Len(s)]
  BY ConcatProperties
<1>3. CASE j <= Len(s)
  BY <1>1, <1>2, <1>3 DEF Holds
<1>4. CASE j > Len(s)
  <2>1. j - Len(s) \in 1..Len(t) /\ p + Len(s) + (j - Len(s)) - 1 = p + j - 1
    BY <1>1, <1>4
  <2> QED BY <1>1, <1>2, <1>4, <2>1 DEF Holds
<1> QED BY <1>1, <1>3, <1>4

\* Cells() is what Holds() says.
LEMMA CellsHeld ==
  ASSUME NEW m, NEW p \in Int, NEW s \in Seq(Int), Holds(m, p, s)
  PROVE  Cells(m, p, Len(s)) = s
<1>1. s \in [1..Len(s) -> Int]
  BY LenProperties
<1>2. s = [j \in 1..Len(s) |-> s[j]]
  BY <1>1
<1> QED BY <1>2 DEF Cells, Holds

-----------------------------------------------------------------------------
(* The invariant                                                            *)

\* A token has a content.
LEMMA TokenType ==
  ASSUME input \in Inputs, cursor \in Nat, ~Ended
  PROVE  Token.s \in Seq(Int)
<1> DEFINE Tokens == [t : {"bytes", "text", "openBytes", "openText", "break", "other"},
                      s : Seq(Int)]
<1>1. input \in Seq(Tokens)
  BY InputsAssumption
<1>2. cursor + 1 \in 1..Len(input)
  BY <1>1, LenProperties DEF Ended
<1>3. input[cursor + 1] \in Tokens
  BY <1>1, <1>2, ElementOfSeq
<1> QED BY <1>3 DEF Token

\* The number of cells and the free offset.
LEMMA SizeIs ==
  ASSUME NEW n \in Nat, NEW m \in [0..(n - 1) -> Int]
  PROVE  Cardinality(DOMAIN m) = n
<1>1. Cardinality(0..(n - 1)) = IF 0 <= n - 1 THEN (n - 1) - 0 + 1 ELSE 0
  BY FS_Interval
<1> QED BY <1>1

LEMMA FreeIs == Free = mem[1]
BY UnpackReads DEF Free

THEOREM InitEstablishes == Init => IInv
<1> SUFFICES ASSUME Init PROVE IInv
  OBVIOUS
<1>1. PICK n \in PoolSizes : mem = Blank(n)
  BY DEF Init
<1>2. n \in Nat
  BY SizesAssumption
<1>3. mem \in [0..(n - 1) -> Int]
  BY <1>1, <1>2 DEF Blank
<1>4. Size = n
  BY <1>2, <1>3, SizeIs DEF Size
<1>5. Types
  BY <1>2, <1>3, <1>4 DEF Init, Types, NullUsefulBuf, Null
<1> QED BY <1>5 DEF Init, IInv, PoolUse, Reading, Returned, Restores

LEMMA SizeKept == ASSUME Memory(mem', Size) PROVE Size' = Size
BY SizeIs DEF Size, Memory

\* The first cell that no returned string may reach.
LEMMA BaseInside ==
  ASSUME IInv, mode # "none"
  PROVE  Base \in Header..Size /\ Base <= mem[1] /\ mem[1] \in Header..Size /\ Size \in Nat
BY DEF IInv, Types, PoolUse, Reading, Base, GoodPool, Memory, Header

\* A returned string is where it was after any change from Base on.
LEMMA Untouched ==
  ASSUME IInv, mode # "none", NEW m2, Same(mem, m2, Base)
  PROVE  \A g \in got : Holds(m2, g.ptr, g.s)
<1> SUFFICES ASSUME NEW g \in got PROVE Holds(m2, g.ptr, g.s)
  OBVIOUS
<1>1. g.ptr \in Int /\ g.s \in Seq(Int) /\ g.ptr >= Header
      /\ g.ptr + Len(g.s) <= Base /\ Holds(mem, g.ptr, g.s)
  BY DEF IInv, Types, Returned
<1>2. Base \in Int
  BY BaseInside
<1> QED BY ONLY <1>1, <1>2, Same(mem, m2, Base), HoldsKept

LEMMA SameLess ==
  ASSUME NEW m, NEW m2, NEW b \in Int, NEW c \in Int, c <= b, Same(m, m2, b)
  PROVE  Same(m, m2, c)
BY DEF Same, Header

LEMMA SameTwice ==
  ASSUME NEW m, NEW m2, NEW m3, NEW b, Same(m, m2, b), Same(m2, m3, b)
  PROVE  Same(m, m3, b)
BY DEF Same

LEMMA SetMemPoolKeeps ==
  ASSUME IInv, NEW allStrings \in BOOLEAN, SetMemPool(allStrings)
  PROVE  IInv'
<1>1. /\ pc = "setup" /\ pc' = "ready" /\ mode = "none" /\ got = {} /\ got' = {}
      /\ Memory(mem, Size) /\ UNCHANGED <<input, cursor, full, text, before>>
  BY DEF IInv, Types, PoolUse, SetMemPool, Memory
<1> DEFINE packed == MemPool_Pack(mem, Size, Header)
<1>2. /\ mem' = packed.mem
      /\ mode' = IF packed.err THEN "none" ELSE IF allStrings THEN "all" ELSE "chunks"
      /\ last'.err = IF packed.err THEN "MEM_POOL_SIZE" ELSE "SUCCESS"
  BY DEF SetMemPool
<1>3. Size \in Nat /\ Header \in Int
  BY <1>1 DEF Memory, Header
<1>4. CASE Size < Header
  <2>1. packed.err /\ Memory(packed.mem, Size)
    BY ONLY <1>1, <1>3, <1>4, PackWrites
  <2>2. mode' = "none" /\ Memory(mem', Size)
    BY ONLY <1>2, <2>1
  <2>3. Size' = Size
    BY <2>2, SizeKept
  <2> QED BY <1>1, <2>2, <2>3
       DEF IInv, Types, PoolUse, Reading, Returned, Restores, Memory
<1>5. CASE Size >= Header
  <2>1. /\ ~packed.err
        /\ \E m1 : Changed(mem, m1, Size, 0, Size) /\ Changed(m1, packed.mem, Size, 1, Header)
    BY ONLY <1>1, <1>3, <1>5, PackWrites
  <2>2. mode' \in {"all", "chunks"} /\ last'.err = "SUCCESS"
    BY ONLY <1>2, <2>1
  <2>3. GoodPool(mem', Size)
    BY ONLY <1>2, <1>3, <1>5, <2>1 DEF Changed, GoodPool, Memory, Header
  <2>4. Size' = Size
    BY <2>3, SizeKept DEF GoodPool
  <2> QED BY <1>1, <2>2, <2>3, <2>4
       DEF IInv, Types, PoolUse, Reading, Returned, Restores, GoodPool, Memory
<1> QED BY <1>3, <1>4, <1>5 DEF Header

LEMMA GetStringKeeps == ASSUME IInv, GetString PROVE IInv'
<1> USE DEF IInv
<1>1. /\ pc = "ready" /\ pc' = "ready" /\ Token.s \in Seq(Int) /\ cursor' \in Nat
      /\ UNCHANGED <<input, mode, full, text>>
  BY TokenType DEF GetString, DecodeBytesToPool, Returns, Types
<1>2. CASE mode = "all"
  <2> DEFINE s == Token.s
             k == Len(s)
             new == MemPool_Function(mem, Null, k)
             c == CopyOffset(new.mem, new.buf, 0, s)
  <2>1. /\ GoodPool(mem, Size) /\ Base = mem[1] /\ before' = mem[1] /\ k \in Nat
        /\ mem[1] \in Header..Size /\ Size \in Nat
    BY <1>1, <1>2, BaseInside, FreeIs, LenProperties DEF PoolUse, Base, GetString
  <2>2. DecodeBytesToPool(new)
    BY <1>2 DEF GetString, StringAllocator_Allocate
  <2>3. /\ GoodPool(new.mem, Size) /\ Same(mem, new.mem, Size)
        /\ new.buf.ptr = Null => new.mem[1] = mem[1]
        /\ new.buf.ptr # Null => new.buf.ptr = mem[1] /\ new.buf.len = k /\ new.mem[1] = mem[1] + k
    <3>1. Null \in {Null} \cup Header..Size
      OBVIOUS
    <3> HIDE DEF k, new
    <3>2. AllocatorResult(mem, Size, Null, k, new)
      BY ONLY <2>1, <3>1, FunctionWorks DEF new
    <3> QED BY <3>2 DEF AllocatorResult
  <2> HIDE DEF s, k, new
  <2>4. CASE new.buf.ptr = Null
    <3>1. mem' = new.mem /\ got' = got /\ mem'[1] = mem[1]
      BY <2>2, <2>3, <2>4 DEF DecodeBytesToPool
    <3>2. Size' = Size
      BY <2>3, <3>1, SizeKept DEF GoodPool
    <3>3. Same(mem, mem', Base)
      BY <2>1, <2>3, <3>1, SameLess
    <3>4. \A g \in got : Holds(mem', g.ptr, g.s)
      BY <1>2, <3>3, Untouched
    <3>5. Returned'
      BY <1>1, <2>1, <3>1, <3>4 DEF Returned, Base
    <3> QED BY <1>1, <1>2, <2>1, <2>3, <3>1, <3>2, <3>5
         DEF Types, PoolUse, Reading, Restores, GoodPool, Memory
  <2>5. CASE new.buf.ptr # Null
    <3>1. mem' = c.mem /\ got' = got \cup {[ptr |-> mem[1], s |-> s]} /\ last'.err = "SUCCESS"
      BY <2>2, <2>3, <2>5 DEF DecodeBytesToPool, Returns, s
    <3>2. mem[1] + k <= Size
      BY <2>1, <2>3, <2>5 DEF GoodPool
    <3>3. /\ GoodPool(c.mem, Size) /\ c.mem[1] = new.mem[1]
          /\ Same(new.mem, c.mem, mem[1] + 0) /\ Holds(c.mem, mem[1] + 0, s)
      <4>1. 0 + Len(s) = k /\ s \in Seq(Int) /\ 0 \in Nat
        BY <1>1, <2>1 DEF s, k
      <4>2. new.buf.ptr = mem[1] /\ new.buf.len = k
        BY <2>3, <2>5
      <4> HIDE DEF c
      <4>3. CopyResult(new.mem, Size, mem[1], k, 0, s, c)
        BY ONLY <2>1, <2>3, <3>2, <4>1, <4>2, CopyWorks DEF c
      <4> QED BY <4>3 DEF CopyResult
    <3> HIDE DEF c
    <3>4. mem[1] + 0 = mem[1] /\ mem'[1] = mem[1] + k
      BY <2>1, <2>3, <2>5, <3>1, <3>3 DEF Header
    <3>5. Size' = Size
      BY <3>1, <3>3, SizeKept DEF GoodPool
    <3>6. Same(mem, mem', Base)
      BY <2>1, <2>3, <3>1, <3>3, <3>4, SameLess, SameTwice
    <3>7. \A g \in got : Holds(mem', g.ptr, g.s)
      BY <1>2, <3>6, Untouched
    <3>8. Returned'
      <4> SUFFICES ASSUME NEW g \in got'
                   PROVE  g.ptr >= Header /\ g.ptr + Len(g.s) <= mem'[1] /\ Holds(mem', g.ptr, g.s)
        BY <1>1 DEF Returned, Base
      <4>1. CASE g \in got
        <5>1. g.ptr \in Int /\ g.s \in Seq(Int) /\ g.ptr >= Header /\ g.ptr + Len(g.s) <= mem[1]
          BY <2>1, <4>1 DEF Types, Returned
        <5>2. Len(g.s) \in Nat
          BY <5>1, LenProperties
        <5>3. mem[1] <= mem'[1] /\ mem[1] \in Int /\ mem'[1] \in Int
          BY <2>1, <3>4
        <5> QED BY <3>7, <4>1, <5>1, <5>2, <5>3
      <4>2. CASE g = [ptr |-> mem[1], s |-> s]
        BY <2>1, <3>1, <3>3, <3>4, <4>2 DEF k
      <4> QED BY <3>1, <4>1, <4>2
    <3>9. got' \subseteq [ptr : Int, s : Seq(Int)]
      BY <1>1, <2>1, <3>1 DEF Types, s
    <3> QED BY <1>1, <1>2, <2>1, <3>1, <3>3, <3>5, <3>8, <3>9
         DEF Types, PoolUse, Reading, Restores, GoodPool, Memory
  <2> QED BY <2>4, <2>5
<1>3. CASE mode # "all"
  <2>1. UNCHANGED <<mem, got>> /\ last'.err = "SUCCESS"
    BY <1>3 DEF GetString, Returns
  <2> QED BY <1>1, <1>3, <2>1
       DEF Types, PoolUse, Reading, Returned, Restores, Base, Size
<1> QED BY <1>2, <1>3

\* A call fails inside the loop over chunks: the memory of the chunks, the
\* last that was allocated, is given back.
LEMMA FailKeeps ==
  ASSUME IInv, pc = "chunks", NEW e, NEW pool, GoodPool(pool, Size),
         Same(mem, pool, Base), full.ptr = Null => pool[1] = mem[1], Fail(e, pool),
         UNCHANGED <<input, mode, before>>, cursor' \in Nat
  PROVE  IInv' /\ Size' = Size
<1> USE DEF IInv
<1>1. /\ mode # "none" /\ pc' = "ready" /\ UNCHANGED <<full, text, got>>
      /\ before = Base
  BY DEF PoolUse, Restores, Fail, Returns
<1>2. Base \in Header..Size /\ Size \in Nat
  BY <1>1, BaseInside
<1>3. GoodPool(mem', Size) /\ Same(mem, mem', Base) /\ mem'[1] = Base
  <2>1. CASE full.ptr = Null
    BY <2>1 DEF Fail, Base
  <2>2. CASE full.ptr # Null
    <3> DEFINE r == MemPool_Function(pool, full.ptr, 0)
    <3>1. full.ptr \in Header..Size /\ Base = full.ptr
      BY <2>2 DEF Reading, Base
    <3>2. AllocatorResult(pool, Size, full.ptr, 0, r)
      <4>1. full.ptr \in {Null} \cup Header..Size /\ 0 \in Nat
        BY <3>1
      <4> QED BY ONLY <4>1, GoodPool(pool, Size), FunctionWorks
    <3>3. mem' = r.mem
      BY <2>2 DEF Fail, StringAllocator_Free
    <3> HIDE DEF r
    <3>4. GoodPool(mem', Size) /\ Same(pool, mem', Size) /\ mem'[1] = full.ptr
      BY <2>2, <3>2, <3>3 DEF AllocatorResult
    <3>5. Same(pool, mem', Base)
      BY <1>2, <3>4, SameLess DEF Header
    <3> QED BY <3>1, <3>4, <3>5, SameTwice
  <2> QED BY <2>1, <2>2
<1>4. Size' = Size
  BY <1>3, SizeKept DEF GoodPool
<1>5. Returned'
  <2>1. \A g \in got : Holds(mem', g.ptr, g.s)
    BY <1>1, <1>3, Untouched
  <2> QED BY <1>1, <1>3, <2>1 DEF Returned, Base
<1> QED BY <1>1, <1>2, <1>3, <1>4, <1>5
     DEF Types, PoolUse, Reading, Restores, GoodPool, Memory

\* A chunk is copied behind the others.
LEMMA AddChunkKeeps ==
  ASSUME IInv, pc = "chunks", ~Ended,
         AddChunk(StringAllocator_Reallocate(mem, full.ptr, full.len + Len(Token.s))),
         UNCHANGED <<input, mode, before>>, cursor' \in Nat
  PROVE  IInv'
<1>0. Types /\ PoolUse /\ Reading /\ Returned /\ Restores
  BY DEF IInv
<1> DEFINE s == Token.s
           k == full.len + Len(s)
           new == MemPool_Function(mem, full.ptr, k)
           c == CopyOffset(new.mem, new.buf, full.len, s)
<1>1. /\ s \in Seq(Int) /\ Len(s) \in Nat /\ full.len \in Nat /\ k \in Nat /\ text \in Seq(Int)
      /\ mode # "none" /\ before = Base /\ GoodPool(mem, Size) /\ full.ptr \in Int
  BY <1>0, TokenType, LenProperties DEF Types, PoolUse, Restores
<1>2. Base \in Header..Size /\ Size \in Nat /\ Base = IF full.ptr = Null THEN mem[1] ELSE full.ptr
  BY <1>1, BaseInside DEF Base
<1>3. full.ptr \in {Null} \cup Header..Size
  BY <1>0 DEF Reading
<1> HIDE DEF s, k
<1>4. AllocatorResult(mem, Size, full.ptr, k, new)
  BY ONLY <1>1, <1>3, FunctionWorks
<1>5. AddChunk(new)
  BY DEF StringAllocator_Reallocate, k, s
<1> HIDE DEF new
<1>6. Same(mem, new.mem, Base) /\ GoodPool(new.mem, Size) /\ Same(mem, new.mem, Size)
  BY <1>2, <1>4, SameLess DEF AllocatorResult, Header
<1>7. CASE new.buf.ptr = Null
  <2>1. full.ptr = Null => new.mem[1] = mem[1]
    BY <1>4, <1>7 DEF AllocatorResult
  <2>2. Fail("STRING_ALLOCATE", new.mem)
    BY <1>5, <1>7 DEF AddChunk
  <2> QED BY ONLY IInv, pc = "chunks", UNCHANGED <<input, mode, before>>, cursor' \in Nat,
                  <1>6, <2>1, <2>2, FailKeeps
<1>8. CASE new.buf.ptr # Null
  <2>1. new.buf.ptr = Base /\ new.buf.len = k /\ new.mem[1] = Base + k
    BY <1>2, <1>4, <1>8 DEF AllocatorResult
  <2>2. /\ mem' = c.mem /\ full' = c.buf /\ text' = text \o s
        /\ UNCHANGED <<pc, last, got>>
    BY <1>5, <1>8 DEF AddChunk, s
  <2>3. Base + k <= Size /\ full.len + Len(s) = k
    BY <1>6, <2>1 DEF GoodPool, k
  <2>4. CopyResult(new.mem, Size, Base, k, full.len, s, c)
    <3> HIDE DEF c
    <3> QED BY ONLY <1>1, <1>2, <1>6, <2>1, <2>3, CopyWorks DEF c
  <2> HIDE DEF c
  <2>5. /\ full' = [ptr |-> Base, len |-> k] /\ GoodPool(mem', Size) /\ mem'[1] = Base + k
        /\ Same(new.mem, mem', Base + full.len) /\ Holds(mem', Base + full.len, s)
    BY <2>1, <2>2, <2>4 DEF CopyResult
  <2>6. Size' = Size
    BY <2>5, SizeKept DEF GoodPool
  <2>7. Base' = Base
    BY <1>2, <2>2, <2>5 DEF Base, Null, Header
  <2>8. Len(text) = full.len /\ Holds(mem, Base, text)
    <3>1. CASE full.ptr = Null
      <4>1. full.len = 0 /\ text = <<>>
        BY <1>0, <3>1 DEF Reading
      <4> QED BY <4>1 DEF Holds
    <3>2. CASE full.ptr # Null
      BY <1>0, <1>2, <3>2 DEF Reading
    <3> QED BY <3>1, <3>2
  <2>9. Len(text') = k /\ text' \in Seq(Int)
    BY <1>1, <2>2, <2>3, <2>8, ConcatProperties
  <2>10. Holds(mem', Base, text')
    <3>1. Base + full.len <= Size /\ Base + full.len \in Int /\ Base \in Int /\ Base >= Header
          /\ Base + Len(text) <= Base + full.len
      <4>1. Base \in Nat /\ Base >= 2 /\ Size \in Nat
        BY ONLY <1>2 DEF Header
      <4>2. full.len \in Nat /\ Len(s) \in Nat
        BY ONLY <1>1
      <4>3. Len(text) = full.len /\ Base + k <= Size /\ full.len + Len(s) = k
        BY ONLY <2>3, <2>8
      <4> DEFINE f == full.len  l == Len(s)  b == Base  h == Len(text)
      <4>4. b \in Nat /\ b >= 2 /\ f \in Nat /\ l \in Nat /\ h = f /\ b + k <= Size
            /\ f + l = k /\ Size \in Nat
        BY <4>1, <4>2, <4>3
      <4> HIDE DEF f, l, b, h
      <4>5. b + f <= Size /\ b + f \in Int /\ b \in Int /\ b >= 2 /\ b + h <= b + f
        BY ONLY <4>4
      <4> QED BY <4>5 DEF f, b, h, Header
    <3>2. Same(mem, new.mem, Base + full.len)
      BY <1>2, <1>6, <3>1, SameLess
    <3>3. Same(mem, mem', Base + full.len)
      BY <2>5, <3>2, SameTwice
    <3>4. Holds(mem', Base, text)
      BY ONLY <1>1, <2>8, <3>1, <3>3, HoldsKept
    <3> QED BY ONLY <1>1, <2>2, <2>5, <2>8, <3>1, <3>4, HoldsConcat
  <2>11. Returned'
    <3>1. Base <= Base + full.len /\ Base \in Int /\ Base + full.len \in Int
      BY <1>1, <1>2 DEF Header
    <3>2. Same(new.mem, mem', Base)
      BY <2>5, <3>1, SameLess
    <3>3. Same(mem, mem', Base)
      BY <1>6, <3>2, SameTwice
    <3>4. \A g \in got : Holds(mem', g.ptr, g.s)
      BY <1>1, <3>3, Untouched
    <3> QED BY <1>0, <2>2, <2>7, <3>4 DEF Returned
  <2>12. Types'
    <3>1. full' \in [ptr : Int, len : Nat]
      BY <1>1, <1>2, <2>5 DEF Header
    <3>2. Size' \in Nat /\ mem' \in [0..(Size' - 1) -> Int]
      BY <2>5, <2>6 DEF GoodPool, Memory
    <3> QED BY <1>0, <2>2, <2>9, <3>1, <3>2 DEF Types
  <2>13. PoolUse'
    BY <1>0, <1>1, <2>2, <2>5, <2>6 DEF PoolUse
  <2>14. Reading'
    BY <1>2, <2>2, <2>5, <2>6, <2>9, <2>10 DEF Reading, Header, Null
  <2>15. Restores'
    BY <1>0, <1>1, <2>2, <2>7 DEF Restores
  <2> QED BY <2>11, <2>12, <2>13, <2>14, <2>15 DEF IInv
<1> QED BY <1>7, <1>8

LEMMA NextChunkKeeps == ASSUME IInv, NextChunk PROVE IInv'
<1> USE DEF IInv
<1>1. /\ pc = "chunks" /\ cursor' \in Nat /\ UNCHANGED <<input, mode, before>> /\ mode # "none"
      /\ GoodPool(mem, Size)
  BY DEF NextChunk, Types, PoolUse
<1>2. ASSUME NEW e, Fail(e, mem) PROVE IInv'
  <2>1. Same(mem, mem, Base)
    BY DEF Same
  <2> QED BY <1>1, <1>2, <2>1, FailKeeps
<1>3. CASE Complete
  <2>1. /\ pc' = "ready" /\ UNCHANGED <<mem, full, text>> /\ last'.err = "SUCCESS"
        /\ got' = IF full.ptr = Null THEN got ELSE got \cup {[ptr |-> full.ptr, s |-> text]}
    BY <1>3 DEF Complete, Returns
  <2>2. Base <= mem[1] /\ Base \in Header..Size /\ mem[1] \in Header..Size /\ Size \in Nat
        /\ Base' = mem[1]
    BY <1>1, <2>1, BaseInside DEF Base
  <2>3. Returned'
    <3> SUFFICES ASSUME NEW g \in got'
                 PROVE  g.ptr >= Header /\ g.ptr + Len(g.s) <= mem[1] /\ Holds(mem, g.ptr, g.s)
      BY <2>1, <2>2 DEF Returned
    <3>1. CASE g \in got
      <4>1. g.ptr \in Int /\ Len(g.s) \in Nat /\ g.ptr >= Header /\ g.ptr + Len(g.s) <= Base
            /\ Holds(mem, g.ptr, g.s)
        BY <3>1, LenProperties DEF Types, Returned
      <4> QED BY <2>2, <4>1 DEF Header
    <3>2. CASE full.ptr # Null /\ g = [ptr |-> full.ptr, s |-> text]
      BY <1>1, <2>2, <3>2 DEF Reading, Header
    <3> QED BY <2>1, <3>1, <3>2
  <2>4. got' \subseteq [ptr : Int, s : Seq(Int)]
    BY <2>1 DEF Types
  <2> QED BY <1>1, <2>1, <2>3, <2>4 DEF Types, PoolUse, Reading, Restores, Size
<1>4. CASE ~Ended /\ AddChunk(StringAllocator_Reallocate(mem, full.ptr, full.len + Len(Token.s)))
  BY <1>1, <1>4, AddChunkKeeps
<1>5. \/ \E e \in {"HIT_END", "INDEFINITE_STRING_CHUNK"} : Fail(e, mem)
      \/ Complete
      \/ ~Ended /\ AddChunk(StringAllocator_Reallocate(mem, full.ptr, full.len + Len(Token.s)))
  BY DEF NextChunk
<1> HIDE DEF IInv
<1> QED BY <1>2, <1>3, <1>4, <1>5

\* The other calls leave the pool alone.
LEMMA OtherCallsKeep ==
  ASSUME IInv,
         \/ NoMemPool \/ GetOther \/ OpenString \/ Rewind
         \/ \E g \in got : \E pos \in 0..(Len(meant) + 1) : Put(g, pos)
  PROVE  IInv'
<1> USE DEF IInv
<1>1. CASE NoMemPool
  BY <1>1 DEF NoMemPool, poolVars, Types, PoolUse, Reading, Returned, Restores, Base, Size, Memory
<1>2. CASE GetOther
  BY <1>2, FreeIs
  DEF GetOther, Returns, poolVars, Types, PoolUse, Reading, Returned, Restores, Base, Size
<1>3. CASE OpenString
  <2>1. pc = "ready" /\ cursor' \in Nat /\ UNCHANGED <<input, mode, mem, got>>
        /\ (mode # "none" => before' = mem[1])
    BY <1>3, FreeIs DEF OpenString, poolVars, Types
  <2>2. CASE mode = "none"
    BY <1>3, <2>1, <2>2
    DEF OpenString, Returns, Types, PoolUse, Reading, Returned, Restores, Base, Size
  <2>3. CASE mode # "none"
    <3>1. pc' = "chunks" /\ full' = NullUsefulBuf /\ text' = <<>>
      BY <1>3, <2>3 DEF OpenString
    <3>2. full'.ptr = Null /\ full'.len = 0 /\ full' \in [ptr : Int, len : Nat]
      BY <3>1 DEF NullUsefulBuf, Null
    <3>3. Base = mem[1] /\ Base' = mem[1]
      BY <2>1, <3>1, <3>2 DEF Base
    <3> QED BY <2>1, <2>3, <3>1, <3>2, <3>3
         DEF Types, PoolUse, Reading, Returned, Restores, Size
  <2> QED BY <2>2, <2>3
<1>4. CASE Rewind
  BY <1>4
  DEF Rewind, callVars, poolVars, Types, PoolUse, Reading, Returned, Restores, Base, Size
<1>5. CASE \E g \in got : \E pos \in 0..(Len(meant) + 1) : Put(g, pos)
  BY <1>5
  DEF Put, callVars, poolVars, Types, PoolUse, Reading, Returned, Restores, Base, Size
<1> QED BY <1>1, <1>2, <1>3, <1>4, <1>5

THEOREM StepKeeps == IInv /\ [Next]_vars => IInv'
<1> SUFFICES ASSUME IInv, [Next]_vars PROVE IInv'
  OBVIOUS
<1>1. CASE UNCHANGED vars
  BY <1>1
  DEF vars, callVars, poolVars, IInv, Types, PoolUse, Reading, Returned, Restores, Base, Size
<1>2. CASE \E allStrings \in BOOLEAN : SetMemPool(allStrings)
  BY <1>2, SetMemPoolKeeps
<1>3. CASE GetString
  BY <1>3, GetStringKeeps
<1>4. CASE NextChunk
  BY <1>4, NextChunkKeeps
<1>5. CASE \/ NoMemPool \/ GetOther \/ OpenString \/ Rewind
           \/ \E g \in got : \E pos \in 0..(Len(meant) + 1) : Put(g, pos)
  BY <1>5, OtherCallsKeep
<1> QED BY <1>1, <1>2, <1>3, <1>4, <1>5 DEF Next

LEMMA Inductive == Spec => []IInv
BY InitEstablishes, StepKeeps, PTL DEF Spec

\* The free offset stays in the pool, behind the pool's own numbers.
THEOREM PoolIsOK == Spec => []PoolOK
<1>1. IInv => PoolOK
  BY FreeIs DEF IInv, PoolUse, GoodPool, PoolOK
<1> QED BY <1>1, Inductive, PTL

\* No string that was returned and no chunk of one being read is written over.
THEOREM StringsStayIntact == Spec => []StringsIntact
<1>1. IInv => StringsIntact
  <2> SUFFICES ASSUME IInv PROVE StringsIntact
    OBVIOUS
  <2>1. \A g \in got : Cells(mem, g.ptr, Len(g.s)) = g.s
    BY CellsHeld DEF IInv, Types, Returned
  <2>2. pc = "chunks" /\ full.ptr # Null => Cells(mem, full.ptr, full.len) = text
    BY CellsHeld DEF IInv, Types, Reading
  <2> QED BY <2>1, <2>2 DEF StringsIntact
<1> QED BY <1>1, Inductive, PTL

\* A call that fails leaves the free offset where it was before the call.
THEOREM FailuresFree == Spec => []FailureFrees
<1>1. IInv => FailureFrees
  BY FreeIs DEF IInv, Restores, FailureFrees
<1> QED BY <1>1, Inductive, PTL

-----------------------------------------------------------------------------
(* What is refused                                                          *)

\* Inside the loop over chunks, what the call had to store is what it has.
Wanted ==
  /\ need \in Seq(Int) /\ kind \in {"bytes", "text", "other"}
  /\ pc = "chunks" => need = text
  /\ pc = "setup" => last.err # "STRING_ALLOCATE"
  /\ FitsUnlessEmpty

LEMMA GetStringWants == ASSUME IInv, Wanted, GetString PROVE Wanted'
<1>1. /\ pc' = "ready" /\ need' = Token.s /\ Token.s \in Seq(Int)
      /\ kind' \in {"bytes", "text", "other"}
  BY TokenType DEF IInv, Types, GetString, DecodeBytesToPool, Returns, Wanted
<1>2. CASE mode = "all" /\ last'.err = "STRING_ALLOCATE"
  <2> DEFINE k == Len(Token.s)
             new == MemPool_Function(mem, Null, k)
  <2>1. GoodPool(mem, Size) /\ k \in Nat /\ Null \in {Null} \cup Header..Size /\ before' = mem[1]
    BY <1>1, <1>2, FreeIs, LenProperties DEF IInv, PoolUse, GetString
  <2>2. DecodeBytesToPool(new)
    BY <1>2 DEF GetString, StringAllocator_Allocate
  <2>3. new.buf.ptr = Null /\ mem' = new.mem
    BY <1>2, <2>2 DEF DecodeBytesToPool, Returns
  <2> HIDE DEF k
  <2>4. k = 0 \/ k > Size - mem[1]
    BY ONLY <2>1, <2>3, RefusedIsTooLong
  <2>5. GoodPool(new.mem, Size)
    BY ONLY <2>1, FunctionWorks DEF AllocatorResult
  <2>6. Size' = Size
    BY <2>3, <2>5, SizeKept DEF GoodPool
  <2>7. k = 0 => need' = <<>>
    BY <1>1, EmptySeq DEF k
  <2> QED BY <1>1, <2>1, <2>4, <2>6, <2>7 DEF Wanted, FitsUnlessEmpty, k
<1>3. CASE mode # "all"
  BY <1>1, <1>3 DEF Wanted, FitsUnlessEmpty, GetString, Returns
<1>4. CASE last'.err # "STRING_ALLOCATE"
  BY <1>1, <1>4 DEF Wanted, FitsUnlessEmpty
<1> QED BY <1>2, <1>3, <1>4

LEMMA NextChunkWants == ASSUME IInv, Wanted, NextChunk PROVE Wanted'
<1>1. /\ pc = "chunks" /\ need = text /\ need \in Seq(Int) /\ cursor' \in Nat
      /\ UNCHANGED <<input, mode, before>> /\ before = Base /\ mode # "none"
      /\ GoodPool(mem, Size) /\ full.len \in Nat
      /\ kind' = kind /\ kind \in {"bytes", "text", "other"}
  BY DEF NextChunk, Wanted, IInv, Types, PoolUse, Restores
<1>2. ASSUME NEW e \in {"HIT_END", "INDEFINITE_STRING_CHUNK"}, Fail(e, mem), need' = need
      PROVE  Wanted'
  BY <1>1, <1>2 DEF Fail, Returns, Wanted, FitsUnlessEmpty
<1>3. ASSUME Complete, need' = need
      PROVE  Wanted'
  BY <1>1, <1>3 DEF Complete, Returns, Wanted, FitsUnlessEmpty
<1>4. ASSUME ~Ended, need' = need \o Token.s,
             AddChunk(StringAllocator_Reallocate(mem, full.ptr, full.len + Len(Token.s)))
      PROVE  Wanted'
  <2> DEFINE s == Token.s
             k == full.len + Len(s)
             new == MemPool_Function(mem, full.ptr, k)
  <2>1. s \in Seq(Int)
    BY <1>4, TokenType DEF IInv, Types
  <2>2. Len(s) \in Nat /\ k \in Nat
    BY <1>1, <2>1, LenProperties
  <2>3. need' \in Seq(Int) /\ Len(need') = Len(need) + Len(s)
    BY <1>1, <1>4, <2>1, ConcatProperties
  <2>4. Len(need) = full.len
    BY <1>1, EmptySeq DEF IInv, Reading
  <2>5. AddChunk(new)
    BY <1>4 DEF StringAllocator_Reallocate
  <2>6. CASE new.buf.ptr # Null
    BY <1>1, <1>4, <2>3, <2>5, <2>6 DEF AddChunk, Wanted, FitsUnlessEmpty
  <2>7. CASE new.buf.ptr = Null
    <3>1. Fail("STRING_ALLOCATE", new.mem) /\ pc' = "ready"
      BY <2>5, <2>7 DEF AddChunk, Fail, Returns
    <3>2. full.ptr \in {Null} \cup Header..Size
      BY <1>1 DEF IInv, Reading
    <3> HIDE DEF k
    <3>3. k = 0 \/ k > Size - (IF full.ptr = Null THEN mem[1] ELSE full.ptr)
      BY ONLY <1>1, <2>2, <2>7, <3>2, RefusedIsTooLong
    <3>4. k = 0 \/ k > Size - before
      BY <1>1, <3>3 DEF Base
    <3>5. AllocatorResult(mem, Size, full.ptr, k, new)
      BY ONLY <1>1, <2>2, <3>2, FunctionWorks
    <3>6. Size' = Size
      <4>1. GoodPool(new.mem, Size) /\ (full.ptr = Null => new.mem[1] = mem[1])
        BY <2>7, <3>5 DEF AllocatorResult
      <4>2. Same(mem, new.mem, Base)
        <5>1. Base \in Header..Size /\ Size \in Nat
          BY <1>1, BaseInside
        <5> QED BY <3>5, <5>1, SameLess DEF AllocatorResult, Header
      <4> QED BY ONLY IInv, <1>1, <3>1, <4>1, <4>2, FailKeeps
    <3>7. k = 0 => need' = <<>>
      BY <2>2, <2>3, <2>4, EmptySeq DEF k
    <3>8. k = Len(need')
      BY <2>3, <2>4 DEF k
    <3> QED BY <1>1, <2>3, <3>1, <3>4, <3>6, <3>7, <3>8 DEF Wanted, FitsUnlessEmpty
  <2> QED BY <2>6, <2>7
<1>5. \/ \E e \in {"HIT_END", "INDEFINITE_STRING_CHUNK"} : Fail(e, mem) /\ need' = need
      \/ Complete /\ need' = need
      \/ /\ ~Ended /\ need' = need \o Token.s
         /\ AddChunk(StringAllocator_Reallocate(mem, full.ptr, full.len + Len(Token.s)))
  <2>1. kind # "break"
    BY <1>1
  <2>2. CASE Ended
    BY <1>1, <2>2 DEF NextChunk
  <2>3. CASE ~Ended /\ Token.t = kind
    BY <1>1, <2>1, <2>3 DEF NextChunk
  <2>4. CASE ~Ended /\ Token.t # kind
    BY <1>1, <2>4 DEF NextChunk
  <2> QED BY <2>2, <2>3, <2>4
<1> QED BY <1>2, <1>3, <1>4, <1>5

LEMMA WantedKept == IInv /\ Wanted /\ [Next]_vars => Wanted'
<1> SUFFICES ASSUME IInv, Wanted, [Next]_vars PROVE Wanted'
  OBVIOUS
<1>1. CASE UNCHANGED vars
  BY <1>1 DEF vars, callVars, poolVars, Wanted, FitsUnlessEmpty, Size
<1>2. CASE \E allStrings \in BOOLEAN : SetMemPool(allStrings)
  BY <1>2 DEF SetMemPool, Wanted, FitsUnlessEmpty
<1>3. CASE NoMemPool
  <2>1. Size' = Size /\ need' = need /\ last' = last /\ kind' = kind /\ pc' = "ready" /\ pc = "setup"
        /\ before' = before
    BY <1>3 DEF NoMemPool, poolVars, Size
  <2>2. last.err # "STRING_ALLOCATE"
    BY <2>1 DEF Wanted
  <2> QED BY <2>1, <2>2 DEF Wanted, FitsUnlessEmpty
<1>4. CASE GetOther
  <2>1. need' = <<>> /\ pc' = "ready" /\ kind' = kind /\ need' \in Seq(Int)
    BY <1>4, EmptySeq DEF GetOther, Returns
  <2> QED BY <2>1 DEF Wanted, FitsUnlessEmpty
<1>5. CASE OpenString
  <2>1. need' = <<>> /\ need' \in Seq(Int) /\ (pc' = "chunks" => text' = <<>>)
        /\ kind' \in {"bytes", "text", "other"} /\ pc' \in {"ready", "chunks"}
    BY <1>5, EmptySeq DEF OpenString, Returns, ChunkOf, Wanted
  <2> QED BY <2>1 DEF Wanted, FitsUnlessEmpty
<1>6. CASE Rewind
  BY <1>6 DEF Rewind, callVars, poolVars, Wanted, FitsUnlessEmpty, Size
<1>7. CASE \E g \in got : \E pos \in 0..(Len(meant) + 1) : Put(g, pos)
  BY <1>7 DEF Put, callVars, poolVars, Wanted, FitsUnlessEmpty, Size
<1> QED BY <1>1, <1>2, <1>3, <1>4, <1>5, <1>6, <1>7, GetStringWants, NextChunkWants DEF Next

\* Allocating fails only if the pool has no room for the string, or if what is
\* allocated first is empty.
THEOREM OnlyLongOrEmptyRefused == Spec => []FitsUnlessEmpty
<1>1. Init => Wanted
  BY EmptySeq DEF Init, Wanted, FitsUnlessEmpty, NoResult
<1>2. Wanted => FitsUnlessEmpty
  BY DEF Wanted
<1> QED BY <1>1, <1>2, Inductive, WantedKept, PTL DEF Spec

-----------------------------------------------------------------------------
(* The application                                                          *)

\* What Insert() makes of a sequence, member by member.
LEMMA InsertHas ==
  ASSUME NEW q \in Seq(Int), NEW s \in Seq(Int), NEW p \in 0..Len(q)
  PROVE  /\ Insert(q, p, s) \in Seq(Int) /\ Len(Insert(q, p, s)) = Len(q) + Len(s)
         /\ \A j \in 1..p : Insert(q, p, s)[j] = q[j]
         /\ \A j \in 1..Len(s) : Insert(q, p, s)[p + j] = s[j]
         /\ \A j \in (p + 1)..Len(q) : Insert(q, p, s)[j + Len(s)] = q[j]
<1> DEFINE l == Len(q)
           k == Len(s)
           front == SubSeq(q, 1, p)
           back == SubSeq(q, p + 1, l)
           head == front \o s
<1>0. l \in Nat /\ k \in Nat /\ p \in 0..l /\ l = Len(q) /\ k = Len(s)
  OBVIOUS
<1>1. \A i \in 1..l : q[i] \in Int
  BY ElementOfSeq
<1> HIDE DEF l, k
<1>2. 1 \in Int /\ p \in Int /\ \A i \in 1..p : q[i] \in Int
  BY ONLY <1>0, <1>1
<1>3. front \in Seq(Int) /\ Len(front) = p /\ \A i \in 1..p : front[i] = q[i]
  <2>1. /\ front \in Seq(Int) /\ Len(front) = (IF 1 <= p THEN p - 1 + 1 ELSE 0)
        /\ \A i \in 1..(p - 1 + 1) : front[i] = q[1 + i - 1]
    BY ONLY <1>2, SubSeqProperties
  <2> QED BY ONLY <1>0, <2>1
<1>4. p + 1 \in Int /\ l \in Int /\ \A i \in (p + 1)..l : q[i] \in Int
  BY ONLY <1>0, <1>1
<1>5. back \in Seq(Int) /\ Len(back) = l - p /\ \A i \in 1..(l - p) : back[i] = q[p + i]
  <2>1. /\ back \in Seq(Int) /\ Len(back) = (IF p + 1 <= l THEN l - (p + 1) + 1 ELSE 0)
        /\ \A i \in 1..(l - (p + 1) + 1) : back[i] = q[p + 1 + i - 1]
    BY ONLY <1>4, SubSeqProperties
  <2>2. Len(back) = l - p /\ l - (p + 1) + 1 = l - p
    BY ONLY <1>0, <2>1
  <2>3. ASSUME NEW i \in 1..(l - p) PROVE back[i] = q[p + i]
    <3>1. p + 1 + i - 1 = p + i
      BY ONLY <1>0, <2>3
    <3> QED BY ONLY <2>1, <2>2, <2>3, <3>1
  <2> QED BY ONLY <2>1, <2>2, <2>3
<1> HIDE DEF front, back
<1>6. /\ head \in Seq(Int) /\ Len(head) = p + k
      /\ \A i \in 1..(p + k) : head[i] = IF i <= p THEN front[i] ELSE s[i - p]
  BY ONLY <1>0, <1>3, s \in Seq(Int), ConcatProperties
<1> HIDE DEF head
<1> DEFINE w == head \o back
<1>7. /\ w \in Seq(Int) /\ Len(w) = p + k + (l - p)
      /\ \A i \in 1..(p + k + (l - p)) : w[i] = IF i <= p + k THEN head[i] ELSE back[i - (p + k)]
  <2>1. /\ w \in Seq(Int) /\ Len(w) = Len(head) + Len(back)
        /\ \A i \in 1..(Len(head) + Len(back)) :
             w[i] = IF i <= Len(head) THEN head[i] ELSE back[i - Len(head)]
    BY ONLY <1>5, <1>6, ConcatProperties
  <2> QED BY ONLY <1>5, <1>6, <2>1
<1>8. Insert(q, p, s) = w
  BY DEF Insert, head, front, back, l
<1> HIDE DEF w
<1>9. p + k + (l - p) = l + k
  BY ONLY <1>0
<1>10. ASSUME NEW j \in 1..p PROVE w[j] = q[j]
  <2>1. j \in 1..(p + k) /\ j \in 1..(l + k) /\ j <= p /\ j <= p + k
    BY ONLY <1>0, <1>10
  <2> QED BY ONLY <1>3, <1>6, <1>7, <1>9, <1>10, <2>1
<1>11. ASSUME NEW j \in 1..k PROVE w[p + j] = s[j]
  <2> DEFINE i == p + j
  <2>1. i \in 1..(p + k) /\ i \in 1..(l + k) /\ ~(i <= p) /\ i <= p + k /\ i - p = j
    BY ONLY <1>0, <1>11
  <2> HIDE DEF i
  <2>2. w[i] = head[i] /\ head[i] = s[i - p]
    BY ONLY <1>6, <1>7, <1>9, <2>1
  <2> QED BY <2>1, <2>2 DEF i
<1>12. ASSUME NEW j \in (p + 1)..l PROVE w[j + k] = q[j]
  <2> DEFINE i == j + k
             e == j - p
  <2>1. /\ i \in 1..(l + k) /\ ~(i <= p + k) /\ i - (p + k) = e
        /\ e \in 1..(l - p) /\ p + e = j
    BY ONLY <1>0, <1>12
  <2> HIDE DEF i, e
  <2>2. w[i] = back[e] /\ back[e] = q[p + e]
    BY ONLY <1>5, <1>7, <1>9, <2>1
  <2> QED BY <2>1, <2>2 DEF i
<1> QED BY ONLY <1>0, <1>7, <1>8, <1>9, <1>10, <1>11, <1>12

\* The cells from an insertion point on, moved out of the way, and the new ones
\* put there, are the sequence with the new one inserted.
LEMMA InsertedHeld ==
  ASSUME NEW n, NEW m, Memory(m, n), NEW q \in Seq(Int), NEW s \in Seq(Int),
         NEW p \in 0..Len(q), Len(q) + Len(s) <= n, Holds(m, 0, q)
  PROVE  /\ Memory(Write(MoveUp(m, p, Len(q), Len(s)), p, s), n)
         /\ Holds(Write(MoveUp(m, p, Len(q), Len(s)), p, s), 0, Insert(q, p, s))
<1> DEFINE l == Len(q)
           k == Len(s)
           u == MoveUp(m, p, l, k)
           w == Write(u, p, s)
           t == Insert(q, p, s)
<1>0. /\ n \in Nat /\ m \in [0..(n - 1) -> Int] /\ l \in Nat /\ k \in Nat /\ p \in 0..l
      /\ l + k <= n /\ l = Len(q) /\ k = Len(s)
  BY DEF Memory
<1>1. /\ t \in Seq(Int) /\ Len(t) = l + k
      /\ \A j \in 1..p : t[j] = q[j]
      /\ \A j \in 1..k : t[p + j] = s[j]
      /\ \A j \in (p + 1)..l : t[j + k] = q[j]
  BY InsertHas
<1>2. \A j \in 1..l : m[0 + j - 1] = q[j]
  BY DEF Holds
<1> HIDE DEF l, k, t
<1>3. u = [a \in 0..(n - 1) |-> IF a \in (p + k)..(l + k - 1) THEN m[a - k] ELSE m[a]]
  BY <1>0 DEF MoveUp
<1>4. Memory(u, n)
  <2> SUFFICES ASSUME NEW a \in 0..(n - 1) PROVE u[a] \in Int
    BY <1>0, <1>3 DEF Memory
  <2>1. a \in (p + k)..(l + k - 1) => a - k \in 0..(n - 1)
    BY ONLY <1>0, a \in 0..(n - 1)
  <2> QED BY ONLY <1>0, <1>3, <2>1, a \in 0..(n - 1)
<1> HIDE DEF u
<1>5. p \in 0..n /\ p + Len(s) <= n
  BY ONLY <1>0
<1>6. /\ Memory(w, n)
      /\ \A a \in 0..(n - 1) : a < p => w[a] = u[a]
      /\ \A a \in 0..(n - 1) : a >= p + k => w[a] = u[a]
      /\ Holds(w, p, s)
  <2>1. /\ Memory(w, n)
        /\ \A a \in 0..(n - 1) : a < p => w[a] = u[a]
        /\ \A a \in 0..(n - 1) : a >= p + Len(s) => w[a] = u[a]
        /\ Holds(w, p, s)
    BY ONLY <1>0, <1>4, <1>5, s \in Seq(Int), WriteWorks
  <2> QED BY ONLY <1>0, <2>1
<1> HIDE DEF w
<1>7. \A j \in 1..k : w[p + j - 1] = s[j]
  BY ONLY <1>0, <1>6 DEF Holds
<1>8. ASSUME NEW j \in 1..(l + k) PROVE w[0 + j - 1] = t[j]
  <2>1. CASE j <= p
    <3> DEFINE a == j - 1
    <3>1. /\ a \in 0..(n - 1) /\ a < p /\ ~(a \in (p + k)..(l + k - 1)) /\ j \in 1..l /\ j \in 1..p
          /\ 0 + j - 1 = a
      BY ONLY <1>0, <1>8, <2>1
    <3> HIDE DEF a
    <3>2. w[a] = m[a] /\ m[a] = q[j] /\ t[j] = q[j]
      BY ONLY <1>1, <1>2, <1>3, <1>6, <3>1
    <3> QED BY ONLY <3>1, <3>2
  <2>2. CASE ~(j <= p) /\ j <= p + k
    <3> DEFINE i == j - p
    <3>1. i \in 1..k /\ p + i = j /\ p + i - 1 = 0 + j - 1
      BY ONLY <1>0, <1>8, <2>2
    <3> HIDE DEF i
    <3> QED BY ONLY <1>1, <1>7, <3>1
  <2>3. CASE ~(j <= p + k)
    <3> DEFINE a == j - 1
               i == j - k
    <3>1. /\ a \in 0..(n - 1) /\ a >= p + k /\ a \in (p + k)..(l + k - 1) /\ i \in (p + 1)..l
          /\ i \in 1..l /\ 0 + j - 1 = a /\ a - k = 0 + i - 1 /\ i + k = j
      BY ONLY <1>0, <1>8, <2>3
    <3> HIDE DEF a, i
    <3>2. w[a] = u[a] /\ u[a] = m[a - k]
      BY ONLY <1>3, <1>6, <3>1
    <3>3. m[0 + i - 1] = q[i] /\ t[i + k] = q[i]
      BY ONLY <1>1, <1>2, <3>1
    <3> QED BY ONLY <3>1, <3>2, <3>3
  <2> QED BY ONLY <2>1, <2>2, <2>3
<1>9. Holds(w, 0, t)
  BY ONLY <1>1, <1>8 DEF Holds
<1> QED BY ONLY <1>6, <1>9 DEF w, u, t, l, k

\* The two buffers of the application.
Wrote ==
  /\ meant \in Seq(Int)
  /\ out.size \in OutSizes /\ out.storage = TRUE /\ Memory(out.mem, out.size)
  /\ out \in [data_len : Nat, err : BOOLEAN, size : Nat, storage : BOOLEAN, mem : {out.mem}]
  /\ sizes \in [data_len : Nat, err : BOOLEAN, size : {SizeMax}, storage : {FALSE}, mem : {<<>>}]
  /\ ~out.err => /\ out.data_len = Len(meant) /\ Len(meant) <= out.size
                 /\ Holds(out.mem, 0, meant)
  /\ ~sizes.err => /\ sizes.data_len = Len(meant) /\ Len(meant) <= SizeMax
                   /\ out.err => Len(meant) > out.size
  /\ sizes.err => out.err

LEMMA PutWrites ==
  ASSUME IInv, Wrote, NEW g \in got, NEW pos \in 0..(Len(meant) + 1), Put(g, pos)
  PROVE  Wrote'
<1> DEFINE s == g.s
           l == Len(meant)
           k == Len(s)
           w == Write(MoveUp(out.mem, pos, l, k), pos, s)
<1>0. /\ meant \in Seq(Int) /\ s \in Seq(Int) /\ l \in Nat /\ k \in Nat /\ pos \in 0..(l + 1)
      /\ out.size \in Nat /\ SizeMax \in Nat /\ out.size <= SizeMax
  <2>1. g \in [ptr : Int, s : Seq(Int)]
    BY DEF IInv, Types
  <2> QED BY <2>1, SizesAssumption DEF Wrote
<1>1. Cells(mem, g.ptr, k) = s
  <2>1. g \in [ptr : Int, s : Seq(Int)] /\ Holds(mem, g.ptr, s)
    BY DEF IInv, Types, Returned
  <2> QED BY <2>1, CellsHeld
<1>2. /\ out' = InsertUsefulBuf(out, s, pos) /\ sizes' = InsertUsefulBuf(sizes, s, pos)
      /\ meant' = IF sizes.err \/ pos > l THEN meant ELSE Insert(meant, pos, s)
  BY <1>1 DEF Put
<1>3. CASE sizes.err
  BY <1>2, <1>3 DEF InsertUsefulBuf, Wrote
<1>4. CASE ~sizes.err /\ pos > l
  <2>1. meant' = meant
    BY <1>2, <1>4
  <2>2. sizes' = [sizes EXCEPT !.err = TRUE]
    BY <1>2, <1>4 DEF InsertUsefulBuf, Wrote
  <2>3. out' = IF out.err THEN out ELSE [out EXCEPT !.err = TRUE]
    BY <1>2, <1>4 DEF InsertUsefulBuf, Wrote
  <2> QED BY <2>1, <2>2, <2>3 DEF Wrote
<1>5. CASE ~sizes.err /\ ~(pos > l)
  <2>1. pos \in 0..l
    BY <1>0, <1>5
  <2>2. meant' = Insert(meant, pos, s) /\ meant' \in Seq(Int) /\ Len(meant') = l + k
    BY <1>2, <1>5, <1>0, <2>1, InsertHas
  <2>3. sizes' = IF l + k > SizeMax THEN [sizes EXCEPT !.err = TRUE]
                 ELSE [sizes EXCEPT !.data_len = l + k]
    <3>1. /\ sizes.data_len = l /\ l <= SizeMax /\ sizes.size = SizeMax /\ ~sizes.storage /\ ~sizes.err
          /\ sizes \in [data_len : Nat, err : BOOLEAN, size : {SizeMax}, storage : {FALSE},
                        mem : {<<>>}]
      BY <1>5 DEF Wrote
    <3>2. k <= SizeMax - l <=> ~(l + k > SizeMax)
      BY ONLY <1>0
    <3>3. CASE l + k > SizeMax
      BY ONLY <1>0, <1>2, <2>1, <3>1, <3>2, <3>3 DEF InsertUsefulBuf, WillItFit, RoomLeft, k
    <3>4. CASE ~(l + k > SizeMax)
      <4>1. sizes' = [sizes EXCEPT !.data_len = @ + Len(s), !.mem = @]
        BY ONLY <1>0, <1>2, <2>1, <3>1, <3>2, <3>4 DEF InsertUsefulBuf, WillItFit, RoomLeft, k
      <4> QED BY ONLY <3>1, <3>4, <4>1 DEF k
    <3> QED BY <3>3, <3>4
  <2>4. out' = IF out.err THEN out
               ELSE IF l + k > out.size THEN [out EXCEPT !.err = TRUE]
               ELSE [out EXCEPT !.data_len = l + k, !.mem = w]
    <3>1. CASE out.err
      BY <1>2, <3>1 DEF InsertUsefulBuf
    <3>2. CASE ~out.err
      <4>1. out.data_len = l /\ l <= out.size /\ out.storage
        BY <3>2 DEF Wrote
      <4>2. k <= out.size - l <=> ~(l + k > out.size)
        BY ONLY <1>0
      <4> QED BY ONLY <1>0, <1>2, <2>1, <3>2, <4>1, <4>2 DEF InsertUsefulBuf, WillItFit, RoomLeft, k, w
    <3> QED BY <3>1, <3>2
  <2>5. ~out.err /\ ~(l + k > out.size) =>
          Memory(w, out.size) /\ Holds(w, 0, meant')
    <3> SUFFICES ASSUME ~out.err, ~(l + k > out.size)
                 PROVE  Memory(w, out.size) /\ Holds(w, 0, meant')
      OBVIOUS
    <3>1. Memory(out.mem, out.size) /\ Holds(out.mem, 0, meant) /\ l + k <= out.size
      BY <1>0 DEF Wrote
    <3> QED BY <1>0, <2>1, <2>2, <3>1, InsertedHeld
  <2> HIDE DEF w, l, k
  <2>6. out.err => l > out.size
    BY <1>5 DEF Wrote, l
  <2>7. /\ out'.size = out.size /\ out'.storage = TRUE /\ Memory(out'.mem, out.size)
        /\ out' \in [data_len : Nat, err : BOOLEAN, size : Nat, storage : BOOLEAN, mem : {out'.mem}]
        /\ ~out'.err => out'.data_len = l + k /\ l + k <= out.size /\ Holds(out'.mem, 0, meant')
        /\ out'.err => l + k > out.size
    <3>0. /\ Memory(out.mem, out.size) /\ out.storage = TRUE
          /\ out \in [data_len : Nat, err : BOOLEAN, size : Nat, storage : BOOLEAN, mem : {out.mem}]
      BY DEF Wrote
    <3>1. CASE out.err
      BY ONLY <1>0, <2>4, <2>6, <3>0, <3>1
    <3>2. CASE ~out.err /\ l + k > out.size
      BY ONLY <1>0, <2>4, <3>0, <3>2
    <3>3. CASE ~out.err /\ ~(l + k > out.size)
      <4>1. out' = [out EXCEPT !.data_len = l + k, !.mem = w]
        BY ONLY <2>4, <3>3
      <4>2. /\ out'.size = out.size /\ out'.storage = TRUE /\ out'.mem = w /\ ~out'.err
            /\ out'.data_len = l + k /\ l + k \in Nat
        BY ONLY <1>0, <3>0, <3>3, <4>1
      <4>3. out' \in [data_len : Nat, err : BOOLEAN, size : Nat, storage : BOOLEAN, mem : {w}]
        BY ONLY <3>0, <4>1, <4>2
      <4> QED BY ONLY <1>0, <2>5, <3>3, <4>2, <4>3
    <3> QED BY ONLY <3>1, <3>2, <3>3
  <2>8. /\ sizes' \in [data_len : Nat, err : BOOLEAN, size : {SizeMax}, storage : {FALSE},
                       mem : {<<>>}]
        /\ ~sizes'.err => sizes'.data_len = l + k /\ l + k <= SizeMax
        /\ sizes'.err => l + k > SizeMax
    <3>1. /\ sizes \in [data_len : Nat, err : BOOLEAN, size : {SizeMax}, storage : {FALSE},
                        mem : {<<>>}]
          /\ ~sizes.err
      BY <1>5 DEF Wrote
    <3>2. CASE l + k > SizeMax
      BY ONLY <2>3, <3>1, <3>2
    <3>3. CASE ~(l + k > SizeMax)
      <4>1. sizes' = [sizes EXCEPT !.data_len = l + k]
        BY ONLY <2>3, <3>3
      <4>2. sizes'.data_len = l + k /\ l + k \in Nat /\ ~sizes'.err
        BY ONLY <1>0, <3>1, <4>1
      <4>3. sizes' \in [data_len : Nat, err : BOOLEAN, size : {SizeMax}, storage : {FALSE},
                        mem : {<<>>}]
        BY ONLY <3>1, <4>1, <4>2
      <4>4. l + k <= SizeMax
        BY ONLY <1>0, <3>3
      <4> QED BY ONLY <4>2, <4>3, <4>4
    <3> QED BY ONLY <3>2, <3>3
  <2>9. sizes'.err => out'.err
    BY ONLY <1>0, <2>7, <2>8
  <2>10. out.size \in OutSizes
    BY DEF Wrote
  <2> QED BY ONLY <1>0, <2>2, <2>7, <2>8, <2>9, <2>10 DEF Wrote
<1> QED BY <1>3, <1>4, <1>5

LEMMA WroteKept == IInv /\ Wrote /\ [Next]_vars => Wrote'
<1> SUFFICES ASSUME IInv, Wrote, [Next]_vars PROVE Wrote'
  OBVIOUS
<1>1. CASE UNCHANGED appVars
  BY <1>1 DEF appVars, Wrote
<1>2. CASE \E g \in got : \E pos \in 0..(Len(meant) + 1) : Put(g, pos)
  BY <1>2, PutWrites
<1> QED BY <1>1, <1>2 DEF Next, vars, SetMemPool, NoMemPool, GetString, GetOther, OpenString,
                         NextChunk, Rewind

\* What an application wrote is what it meant to, and the run that only counts
\* gives the size it needs, or the same error.
THEOREM AsMeant == Spec => []OutIsWhatWasMeant
<1>1. Init => Wrote
  <2> SUFFICES ASSUME Init PROVE Wrote
    OBVIOUS
  <2>1. PICK size \in OutSizes : out = UsefulOutBuf_Init(Blank(size), size, TRUE)
    BY DEF Init
  <2>2. size \in Nat /\ size <= SizeMax /\ SizeMax \in Nat
    BY SizesAssumption
  <2>3. Memory(Blank(size), size)
    BY <2>2 DEF Memory, Blank
  <2>4. meant = <<>> /\ Len(meant) = 0 /\ meant \in Seq(Int)
    BY EmptySeq DEF Init
  <2>5. Holds(Blank(size), 0, meant)
    BY <2>4 DEF Holds
  <2>6. sizes = UsefulOutBuf_Init(<<>>, SizeMax, FALSE)
    BY DEF Init
  <2> QED BY <2>1, <2>2, <2>3, <2>4, <2>5, <2>6 DEF UsefulOutBuf_Init, Wrote
<1>2. Wrote => OutIsWhatWasMeant
  <2> SUFFICES ASSUME Wrote PROVE OutIsWhatWasMeant
    OBVIOUS
  <2>1. ~out.err => Cells(out.mem, 0, out.data_len) = meant
    BY CellsHeld DEF Wrote
  <2> QED BY <2>1 DEF Wrote, OutIsWhatWasMeant, OutUBuf, NullUsefulBuf
<1> QED BY <1>1, <1>2, Inductive, WroteKept, PTL DEF Spec
=============================================================================
