------------------------------ MODULE UsefulBuf ------------------------------
(***************************************************************************)
(* The buffers of QCBOR/src/UsefulBuf.c and QCBOR/inc/qcbor/UsefulBuf.h:    *)
(* an UsefulOutBuf, to whose storage data is appended or inserted, and an   *)
(* UsefulInputBuf with its cursor.  Memory is a function on 0..size-1; a    *)
(* pointer is an offset in it, and Null none.  An integer of more than one  *)
(* byte takes one cell.                                                     *)
(***************************************************************************)
EXTENDS Integers, Sequences

Null  == -1
NullUsefulBuf == [ptr |-> Null, len |-> 0]

\* The cells of s in mem from offset off on.
Write(mem, off, s) ==
  [a \in DOMAIN mem |-> IF a \in off..(off + Len(s) - 1) THEN s[a - off + 1] ELSE mem[a]]

\* The n cells of mem from offset off on.
Cells(mem, off, n) == [j \in 1..n |-> mem[off + j - 1]]

\* The cells from offset off to end moved up by n.
MoveUp(mem, off, end, n) ==
  [a \in DOMAIN mem |-> IF a \in (off + n)..(end + n - 1) THEN mem[a - n] ELSE mem[a]]

-----------------------------------------------------------------------------
(* Output: storage is whether there is any; without it a buffer counts only *)

UsefulOutBuf_Init(mem, size, storage) ==
  [data_len |-> 0, err |-> FALSE, size |-> size, storage |-> storage, mem |-> mem]

RoomLeft(o)     == o.size - o.data_len
WillItFit(o, n) == n <= RoomLeft(o)

\* Mutant: what is behind the insertion point is not moved.
InsertUsefulBufOnTop(o, s, pos) ==
  IF o.err THEN o
  ELSE IF o.data_len > o.size \/ ~WillItFit(o, Len(s)) \/ pos > o.data_len
       THEN [o EXCEPT !.err = TRUE]
  ELSE [o EXCEPT !.data_len = @ + Len(s), !.mem = IF o.storage THEN Write(@, pos, s) ELSE @]

InsertUsefulBuf(o, s, pos) ==
  IF o.err THEN o
  ELSE IF o.data_len > o.size \/ ~WillItFit(o, Len(s)) \/ pos > o.data_len
       THEN [o EXCEPT !.err = TRUE]
  ELSE [o EXCEPT !.data_len = @ + Len(s),
                 !.mem = IF o.storage THEN Write(MoveUp(@, pos, o.data_len, Len(s)), pos, s)
                         ELSE @]

AppendUsefulBuf(o, s) == InsertUsefulBuf(o, s, o.data_len)
AppendUint32(o, n)    == AppendUsefulBuf(o, <<n>>)

OutUBuf(o) ==
  IF o.err THEN NullUsefulBuf
  ELSE [ptr |-> IF o.storage THEN 0 ELSE Null, len |-> o.data_len]

-----------------------------------------------------------------------------
(* Input                                                                    *)

UsefulInputBuf_Init(mem, size) == [cursor |-> 0, err |-> FALSE, size |-> size, mem |-> mem]

BytesUnconsumed(u) == IF u.cursor > u.size THEN 0 ELSE u.size - u.cursor

GetBytes(u, n) ==
  IF u.err \/ BytesUnconsumed(u) < n THEN [u EXCEPT !.err = TRUE] ELSE [u EXCEPT !.cursor = @ + n]

\* The integer in front of the cursor, once GetBytes() has been there.
GetUint32(u) == IF u.err THEN 0 ELSE u.mem[u.cursor - 1]

-----------------------------------------------------------------------------
(* UsefulBuf_CopyOffset(): src behind the first offset cells of dest, a     *)
(* buffer in mem.  What it returns is all that is now in dest.              *)

CopyOffset(mem, dest, offset, src) ==
  IF offset > dest.len \/ Len(src) > dest.len - offset
  THEN [buf |-> NullUsefulBuf, mem |-> mem]
  ELSE [buf |-> [ptr |-> dest.ptr, len |-> Len(src) + offset],
        mem |-> Write(mem, dest.ptr + offset, src)]
=============================================================================
