------------------------------- MODULE MemPool -------------------------------
(***************************************************************************)
(* The string allocator built into the decoder (MemPool_Function() and      *)
(* around it in QCBOR/src/qcbor_decode.c): a pool whose first cells hold    *)
(* its size and the offset of what is free.  It knows no allocations, only  *)
(* that high-water mark; a reallocation or a free is meant for the last     *)
(* chunk allocated.                                                         *)
(***************************************************************************)
EXTENDS UsefulBuf

Header == 2   \* QCBOR_DECODE_MIN_MEM_POOL_SIZE

\* The pool size and the free offset, as they are stored in the pool.
MemPool_Unpack(mem) ==
  LET first  == GetBytes(UsefulInputBuf_Init(mem, Header), 1)
      second == GetBytes(first, 1)
  IN  [size |-> GetUint32(first), free |-> GetUint32(second)]

MemPool_Pack(mem, size, free) ==
  AppendUint32(AppendUint32(UsefulOutBuf_Init(mem, size, TRUE), size), free)

\* What an operation does: the buffer it returns and the next free offset.
Reallocated(pool, ptr, n) ==
  IF ptr >= 0 /\ ptr < pool.size /\ n <= pool.size - ptr
  THEN [buf |-> [ptr |-> ptr, len |-> n], free |-> ptr + n]
  ELSE [buf |-> NullUsefulBuf, free |-> pool.free]

\* Mutant: the last cell is never given out.
AllocatedShort(pool, n) ==
  IF n < pool.size - pool.free
  THEN [buf |-> [ptr |-> pool.free, len |-> n], free |-> pool.free + n]
  ELSE [buf |-> NullUsefulBuf, free |-> pool.free]

Allocated(pool, n) ==
  IF n <= pool.size - pool.free
  THEN [buf |-> [ptr |-> pool.free, len |-> n], free |-> pool.free + n]
  ELSE [buf |-> NullUsefulBuf, free |-> pool.free]

\* Mutant: a free empties the pool.
FreedAll(pool, ptr) == [buf |-> NullUsefulBuf, free |-> Header]

\* A size of 0 is a free or, without a pointer, the end of the allocator.
Freed(pool, ptr) ==
  [buf |-> NullUsefulBuf, free |-> IF ptr = Null THEN pool.free ELSE ptr]

Operation(pool, ptr, n) ==
  IF n = 0 THEN Freed(pool, ptr)
  ELSE IF ptr = Null THEN Allocated(pool, n) ELSE Reallocated(pool, ptr, n)

MemPool_Function(mem, ptr, n) ==
  LET pool == MemPool_Unpack(mem)
      done == Operation(pool, ptr, n)
  IN  [buf |-> done.buf, mem |-> MemPool_Pack(mem, pool.size, done.free).mem]

StringAllocator_Allocate(mem, n)        == MemPool_Function(mem, Null, n)
StringAllocator_Reallocate(mem, ptr, n) == MemPool_Function(mem, ptr, n)
StringAllocator_Free(mem, ptr)          == MemPool_Function(mem, ptr, 0).mem
=============================================================================
