----------------------------- MODULE QcborStrings -----------------------------
(***************************************************************************)
(* Strings that the decoder puts together from chunks, or copies because it *)
(* was told to allocate all, in the memory pool the caller gave it          *)
(* (QCBORDecode_GetNextFullString() in QCBOR/src/qcbor_decode.c), and an    *)
(* application that writes what it got to an UsefulOutBuf and, to learn the *)
(* size, to one without storage.                                            *)
(*                                                                          *)
(* The input is a sequence of tokens [t, s]: a string of type t (bytes or   *)
(* text) with content s, the head of a string of indefinite length (t is    *)
(* openBytes or openText), a break, or another item.                        *)
(***************************************************************************)
EXTENDS MemPool, FiniteSets

CONSTANTS
  Inputs,     \* encodings to decode
  PoolSizes,  \* sizes of the pool the caller gives
  SizeMax,    \* SIZE_MAX
  OutSizes,   \* sizes of the storage the application writes to
  MaxGot,     \* strings kept in the pool
  MaxRewinds, \* times the input is read again
  MaxPuts     \* strings the application writes

ASSUME SizesAssumption ==
  /\ PoolSizes \subseteq Nat /\ SizeMax \in Nat /\ OutSizes \subseteq 0..SizeMax
  /\ MaxGot \in Nat /\ MaxRewinds \in Nat /\ MaxPuts \in Nat
ASSUME InputsAssumption ==
  \A i \in Inputs : i \in Seq([t : {"bytes", "text", "openBytes", "openText", "break", "other"},
                               s : Seq(Int)])

VARIABLES
  input,   \* the tokens
  cursor,  \* tokens read
  mode,    \* the string allocator: "none", "chunks" or "all" (bStringAllocateAll)
  mem,     \* the pool
  pc,      \* "setup", "ready", or "chunks" in the loop over chunks
  full,    \* FullString
  text,    \* history: the content of the chunks so far
  kind,    \* uStringType
  got,     \* history: strings returned from the pool, [ptr, s]
  last,    \* history: what the last call returned, [err, s]
  before,  \* history: the free offset at the beginning of the last call
  need,    \* history: the content the last call had to store, as far as it got
  rewinds,
  out, sizes, \* the application's UsefulOutBuf, and the one without storage
  meant, puts \* history: what it meant to write, and how often

poolVars == <<mode, mem>>
callVars == <<pc, full, text, kind, last, before, need>>
appVars  == <<out, sizes, meant, puts>>
vars     == <<input, cursor, poolVars, callVars, got, rewinds, appVars>>

Blank(size) == [a \in 0..(size - 1) |-> 0]
NoResult    == [err |-> "none", s |-> <<>>]

Init ==
  /\ input \in Inputs /\ cursor = 0
  /\ mode = "none" /\ \E size \in PoolSizes : mem = Blank(size)
  /\ pc = "setup" /\ full = NullUsefulBuf /\ text = <<>> /\ kind = "other"
  /\ got = {} /\ last = NoResult /\ before = 0 /\ need = <<>> /\ rewinds = 0
  /\ \E size \in OutSizes : out = UsefulOutBuf_Init(Blank(size), size, TRUE)
  /\ sizes = UsefulOutBuf_Init(<<>>, SizeMax, FALSE)
  /\ meant = <<>> /\ puts = 0

-----------------------------------------------------------------------------
(* The pool                                                                 *)

Size == Cardinality(DOMAIN mem)
Free == MemPool_Unpack(mem).free

\* QCBORDecode_SetMemPool(): a pool that is too small for its own numbers is
\* refused, and there is no allocator then.
SetMemPool(allStrings) ==
  /\ pc = "setup"
  /\ pc' = "ready"
  /\ \E packed \in {MemPool_Pack(mem, Size, Header)} :
       /\ mem' = packed.mem
       /\ mode' = IF packed.err THEN "none" ELSE IF allStrings THEN "all" ELSE "chunks"
       /\ last' = [err |-> IF packed.err THEN "MEM_POOL_SIZE" ELSE "SUCCESS", s |-> <<>>]
  /\ UNCHANGED <<input, cursor, full, text, kind, before, need, got, rewinds, appVars>>

\* The caller sets no pool.
NoMemPool ==
  /\ pc = "setup"
  /\ pc' = "ready"
  /\ UNCHANGED <<input, cursor, poolVars, full, text, kind, last, before, need, got, rewinds,
                 appVars>>

-----------------------------------------------------------------------------
(* QCBORDecode_GetNextFullString()                                          *)

Returns(e, s) == pc' = "ready" /\ last' = [err |-> e, s |-> s]

Strings    == {"bytes", "text"}
Opens      == {"openBytes", "openText"}
ChunkOf(t) == IF t = "openBytes" THEN "bytes" ELSE "text"
Ended      == cursor >= Len(input)
Token      == input[cursor + 1]

\* DecodeBytes() with an allocator: the string is copied.
DecodeBytesToPool(new) ==
  IF new.buf.ptr = Null
  THEN /\ mem' = new.mem /\ got' = got /\ Returns("STRING_ALLOCATE", <<>>)
  ELSE /\ mem' = CopyOffset(new.mem, new.buf, 0, Token.s).mem
       /\ got' = got \cup {[ptr |-> new.buf.ptr, s |-> Token.s]}
       /\ Returns("SUCCESS", Token.s)

GetString ==
  /\ pc = "ready" /\ ~Ended /\ Token.t \in Strings /\ Cardinality(got) < MaxGot
  /\ cursor' = cursor + 1
  /\ before' = (IF mode = "none" THEN 0 ELSE Free) /\ need' = Token.s
  /\ IF mode = "all"
     THEN \E new \in {StringAllocator_Allocate(mem, Len(Token.s))} : DecodeBytesToPool(new)
     ELSE /\ Returns("SUCCESS", Token.s)
          /\ UNCHANGED <<mem, got>>
  /\ UNCHANGED <<input, mode, full, text, kind, rewinds, appVars>>

\* An item that is no string, or none: nothing for this layer to do.
GetOther ==
  /\ pc = "ready"
  /\ ~Ended => Token.t \in {"break", "other"}
  /\ IF Ended THEN cursor' = cursor /\ Returns("HIT_END", <<>>)
     ELSE cursor' = cursor + 1 /\ Returns("SUCCESS", <<>>)
  /\ before' = (IF mode = "none" THEN 0 ELSE Free) /\ need' = <<>>
  /\ UNCHANGED <<input, poolVars, full, text, kind, got, rewinds, appVars>>

OpenString ==
  /\ pc = "ready" /\ ~Ended /\ Token.t \in Opens /\ Cardinality(got) < MaxGot
  /\ cursor' = cursor + 1
  /\ before' = (IF mode = "none" THEN 0 ELSE Free) /\ need' = <<>>
  /\ IF mode = "none"
     THEN Returns("NO_STRING_ALLOCATOR", <<>>) /\ UNCHANGED <<full, text, kind>>
     ELSE /\ pc' = "chunks" /\ full' = NullUsefulBuf /\ text' = <<>>
          /\ kind' = ChunkOf(Token.t) /\ UNCHANGED last
  /\ UNCHANGED <<input, poolVars, got, rewinds, appVars>>

\* Mutant: the chunks so far stay allocated.
FailKeeping(e, pool) ==
  /\ Returns(e, <<>>)
  /\ mem' = pool
  /\ UNCHANGED <<full, text, got>>

\* Clean up: what the chunks so far have is freed.
Fail(e, pool) ==
  /\ Returns(e, <<>>)
  /\ mem' = IF full.ptr = Null THEN pool ELSE StringAllocator_Free(pool, full.ptr)
  /\ UNCHANGED <<full, text, got>>

Complete ==
  /\ Returns("SUCCESS", text)
  /\ got' = IF full.ptr = Null THEN got ELSE got \cup {[ptr |-> full.ptr, s |-> text]}
  /\ UNCHANGED <<mem, full, text>>

\* Copied behind the chunks before it, in more memory at the same place.
AddChunk(new) ==
  IF new.buf.ptr = Null THEN Fail("STRING_ALLOCATE", new.mem)
  ELSE \E copied \in {CopyOffset(new.mem, new.buf, full.len, Token.s)} :
         /\ mem' = copied.mem /\ full' = copied.buf /\ text' = text \o Token.s
         /\ UNCHANGED <<pc, last, got>>

NextChunk ==
  /\ pc = "chunks"
  /\ cursor' = IF Ended THEN cursor ELSE cursor + 1
  /\ need' = IF ~Ended /\ Token.t = kind THEN need \o Token.s ELSE need
  /\ \/ Ended /\ Fail("HIT_END", mem)
     \/ ~Ended /\ Token.t = "break" /\ Complete
     \/ ~Ended /\ Token.t \notin {"break", kind} /\ Fail("INDEFINITE_STRING_CHUNK", mem)
     \/ /\ ~Ended /\ Token.t = kind
        /\ \E new \in {StringAllocator_Reallocate(mem, full.ptr, full.len + Len(Token.s))} :
             AddChunk(new)
  /\ UNCHANGED <<input, mode, kind, before, rewinds, appVars>>

\* The input is read again, as a search for a label or a rewind does.
Rewind ==
  /\ pc = "ready" /\ rewinds < MaxRewinds /\ cursor > 0
  /\ cursor' = 0 /\ rewinds' = rewinds + 1
  /\ UNCHANGED <<input, poolVars, callVars, got, appVars>>

-----------------------------------------------------------------------------
(* The application                                                          *)

Insert(s, pos, new) == SubSeq(s, 1, pos) \o new \o SubSeq(s, pos + 1, Len(s))

\* It inserts a string at any position up to one behind the end, or at one
\* that is too large.
Put(g, pos) ==
  /\ pc = "ready" /\ puts < MaxPuts
  /\ puts' = puts + 1
  /\ \E s \in {Cells(mem, g.ptr, Len(g.s))} :
       /\ out' = InsertUsefulBuf(out, s, pos)
       /\ sizes' = InsertUsefulBuf(sizes, s, pos)
       /\ meant' = IF sizes.err \/ pos > Len(meant) THEN meant ELSE Insert(meant, pos, g.s)
  /\ UNCHANGED <<input, cursor, poolVars, callVars, got, rewinds>>

Next ==
  \/ \E allStrings \in BOOLEAN : SetMemPool(allStrings)
  \/ NoMemPool
  \/ GetString \/ GetOther \/ OpenString \/ NextChunk \/ Rewind
  \/ \E g \in got : \E pos \in 0..(Len(meant) + 1) : Put(g, pos)

Spec == Init /\ [][Next]_vars

-----------------------------------------------------------------------------
(* Properties                                                               *)

\* The free offset is inside the pool, behind its own two numbers.
PoolOK == pc # "setup" /\ mode # "none" => Size >= Header /\ Free \in Header..Size

\* No later string, no failed one and no number of the pool is ever written
\* over a string that was returned, nor over the chunks of one being read.
StringsIntact ==
  /\ \A g \in got : Cells(mem, g.ptr, Len(g.s)) = g.s
  /\ pc = "chunks" /\ full.ptr # Null => Cells(mem, full.ptr, full.len) = text

\* A call that fails gives back all the memory it took.
FailureFrees == pc = "ready" /\ mode # "none" /\ last.err \notin {"none", "SUCCESS"} => Free = before

\* A string fails to be allocated only if the pool has no room for it, or if
\* what it allocates first is empty.
FitsUnlessEmpty ==
  pc = "ready" /\ last.err = "STRING_ALLOCATE" => Len(need) > Size - before \/ need = <<>>

\* What the application wrote is what it meant to, if it fits, and is nothing
\* otherwise; the run without storage gives the size it needs, or the same
\* error.
OutIsWhatWasMeant ==
  /\ sizes.err => out.err
  /\ ~sizes.err => sizes.data_len = Len(meant) /\ (out.err => Len(meant) > out.size)
  /\ ~out.err => OutUBuf(out).len = Len(meant) /\ Cells(out.mem, 0, out.data_len) = meant
  /\ out.err => OutUBuf(out) = NullUsefulBuf
=============================================================================
