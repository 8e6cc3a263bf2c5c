---------------------------- MODULE QcborEncode ----------------------------
(***************************************************************************)
(* QCBOR's encoding context: the output buffer (UsefulOutBuf), the stack of *)
(* open levels (QCBORTrackNesting) and the error, with every call that      *)
(* changes them.                                                            *)
(*                                                                          *)
(* The output is a sequence of tokens, one per byte: the first byte of a    *)
(* head is its major type and argument, the other bytes of a head and the   *)
(* bytes of a string are opaque.                                            *)
(***************************************************************************)
EXTENDS Integers, SequencesExt

CONSTANTS
  MaxItems,    \* QCBOR_MAX_ITEMS_IN_ARRAY
  MaxNesting,  \* QCBOR_MAX_ARRAY_NESTING
  MaxOffset,   \* QCBOR_MAX_ARRAY_OFFSET
  Direct,      \* the largest argument in the first byte of a head, 23
  MaxWraps,    \* bound: how far below zero a uint16_t count is followed
  MaxLate      \* bound: for each size of the output buffer, the calls made after the
               \* one that met the first error

ASSUME BoundsAssumption ==
  /\ {MaxItems, MaxNesting, MaxOffset, Direct, MaxWraps} \subseteq Nat
  /\ DOMAIN MaxLate \subseteq Nat /\ Range(MaxLate) \subseteq Nat
  /\ MaxItems > 1
  /\ MaxItems + MaxWraps < 65536

VARIABLES
  size,      \* OutBuf.UB.len: Storage.len, and never changed
  data,      \* OutBuf: the bytes up to data_len
  err,       \* OutBuf.err
  nesting,   \* pArrays up to pCurrentNesting; empty when that is below pArrays[0]
  uError,
  returned   \* what the last call gave back: [code, bytes, head]

\* History of the calls, for the properties.
VARIABLES
  late,      \* calls since one met an error, itself included; 0 before
  misused    \* a call the library leaves to the caller to avoid

vars == <<size, data, err, nesting, uError, returned, late, misused>>

Current == Last(nesting)
failed  == late > 0
Nothing == [code |-> "none", bytes |-> <<>>, head |-> FALSE]

-----------------------------------------------------------------------------
(* Heads and the output buffer                                             *)

\* QCBOREncode_EncodeHead(), its control modelled in CborHead: one byte, or one
\* more for an argument that does not fit in it.
EncodeHead(major, n) ==
  <<<<major, n>>>> \o (IF n > Direct THEN <<<<"more", 0>>>> ELSE <<>>)

Fits(bytes) == Len(bytes) <= size - Len(data)

\* Mutant of InsertUsefulBuf: the data is put in without sliding what follows.
InsertUsefulBufOver(bytes, pos) ==
  IF err THEN UNCHANGED <<data, err>>
  ELSE IF ~Fits(bytes) \/ pos > Len(data)
  THEN err' = TRUE /\ UNCHANGED data
  ELSE /\ data' = SubSeq(data, 1, pos) \o bytes \o SubSeq(data, pos + Len(bytes) + 1, Len(data))
       /\ UNCHANGED err

\* UsefulOutBuf_InsertUsefulBuf(); its checks for corruption cannot fail.
InsertUsefulBuf(bytes, pos) ==
  IF err THEN UNCHANGED <<data, err>>
  ELSE IF ~Fits(bytes) \/ pos > Len(data)
  THEN err' = TRUE /\ UNCHANGED data
  ELSE /\ data' = SubSeq(data, 1, pos) \o bytes \o SubSeq(data, pos + 1, Len(data))
       /\ UNCHANGED err

AppendUsefulBuf(bytes) == InsertUsefulBuf(bytes, Len(data))

\* AddBuffer()'s two calls: the bytes are tried even if the head did not fit.
AppendBoth(head, bytes) ==
  IF err \/ ~Fits(head) THEN AppendUsefulBuf(head)
  ELSE IF Fits(head \o bytes) THEN AppendUsefulBuf(head \o bytes)
  ELSE data' = data \o head /\ err' = TRUE

-----------------------------------------------------------------------------
(* Nesting                                                                 *)

\* Nesting_Increment()
CanIncrement == 1 < MaxItems - Current.count

Incremented(stack) == [stack EXCEPT ![Len(stack)].count = @ + 1]

\* IncrementMapOrArrayCount()
IncrementMapOrArrayCount ==
  IF uError # "SUCCESS" THEN UNCHANGED <<nesting, uError>>
  ELSE IF CanIncrement
  THEN nesting' = Incremented(nesting) /\ UNCHANGED uError
  ELSE uError' = "ARRAY_TOO_LONG" /\ UNCHANGED nesting

\* Nesting_GetCount()
GetCount == IF Current.major = "map" THEN Current.count \div 2 ELSE Current.count

\* Why a close of this major type is refused, or "SUCCESS".  Nothing is refused
\* once uError is set.
CloseError(major) ==
  CASE uError # "SUCCESS"                        -> "SUCCESS"
    [] uError = "SUCCESS" /\ Len(nesting) = 1    -> "TOO_MANY_CLOSES"
    [] uError = "SUCCESS" /\ Len(nesting) > 1 /\ Current.major # major -> "CLOSE_MISMATCH"
    [] OTHER                                     -> "SUCCESS"

\* The history of a call, after what it did; misuse is of no interest after an error.
Note(error, misuse) ==
  /\ late <= MaxLate[size]
  /\ late' = IF failed \/ err' \/ uError' # "SUCCESS" \/ error THEN late + 1 ELSE 0
  /\ misused' = ((misused \/ misuse) /\ late' = 0)

\* From start on a tag is written last, and not the item it tags.
Dangling(start) == Len(data) > start /\ Last(data)[1] = "tag"

-----------------------------------------------------------------------------
Init ==
  /\ size \in DOMAIN MaxLate
  /\ data = <<>>
  /\ err = FALSE
  /\ nesting = <<[major |-> "array", count |-> 0, start |-> 0]>>
  /\ uError = "SUCCESS"
  /\ returned = Nothing
  /\ late = 0
  /\ misused = FALSE

\* QCBOREncode_AddUInt64(), AddInt64(), and AddType7() with a value it accepts.
AddInt64 ==
  /\ AppendUsefulBuf(EncodeHead("int", 0))
  /\ IncrementMapOrArrayCount
  /\ Note(FALSE, FALSE)
  /\ returned' = Nothing

\* QCBOREncode_AddType7() with one of the reserved simple values.
AddType7Reserved ==
  /\ IF uError = "SUCCESS"
     THEN uError' = "ENCODE_UNSUPPORTED" /\ UNCHANGED <<data, err, nesting>>
     ELSE /\ AppendUsefulBuf(EncodeHead("int", 0))
          /\ UNCHANGED <<uError, nesting>>
  /\ Note(FALSE, FALSE)
  /\ returned' = Nothing

\* QCBOREncode_AddBuffer(): a string of one byte, an encoded item, and a head whose
\* bytes the caller adds by other means.
AddBuffer(kind) ==
  /\ CASE kind = "string"  -> AppendBoth(EncodeHead("string", 1), <<<<"byte", 0>>>>)
       [] kind = "raw"     -> AppendUsefulBuf(EncodeHead("int", 0))
       [] kind = "lenOnly" -> AppendUsefulBuf(EncodeHead("string", 1))
  /\ IncrementMapOrArrayCount
  /\ Note(FALSE, kind = "lenOnly")
  /\ returned' = Nothing

\* QCBOREncode_AddTag()
AddTag ==
  /\ AppendUsefulBuf(EncodeHead("tag", 0))
  /\ UNCHANGED <<nesting, uError>>
  /\ Note(FALSE, FALSE)
  /\ returned' = Nothing

\* The nesting part of QCBOREncode_OpenMapOrArray(), at the end position.  uError
\* is assigned whatever it was.
OpenLevel(major, position) ==
  LET counted == uError = "SUCCESS" /\ CanIncrement
      stack   == IF counted THEN Incremented(nesting) ELSE nesting
  IN  /\ CASE position >= MaxOffset ->
                uError' = "BUFFER_TOO_LARGE" /\ nesting' = stack
           [] position < MaxOffset /\ Len(nesting) = MaxNesting + 1 ->
                uError' = "NESTING_TOO_DEEP" /\ nesting' = stack
           [] OTHER ->
                /\ uError' = "SUCCESS"
                /\ nesting' = Append(stack, [major |-> major, count |-> 0, start |-> position])
      /\ Note(~counted, FALSE)
      /\ returned' = Nothing

\* Mutant of the next: the level starts behind the head it will get.
OpenMapOrArrayAhead(major) ==
  /\ nesting # <<>>
  /\ UNCHANGED <<data, err>>
  /\ OpenLevel(major, Len(data) + 1)

OpenMapOrArray(major) ==
  /\ nesting # <<>>
  /\ UNCHANGED <<data, err>>
  /\ OpenLevel(major, Len(data))

\* The item count and the position are taken after the marker is appended.
OpenMapOrArrayIndefiniteLength(major) ==
  /\ nesting # <<>>
  /\ AppendUsefulBuf(EncodeHead(major, 0))
  /\ OpenLevel(major, Len(data'))

\* InsertCBORHead()
InsertCBORHead(major, n) ==
  IF CloseError(major) # "SUCCESS"
  THEN uError' = CloseError(major) /\ UNCHANGED <<data, err, nesting>>
  ELSE /\ InsertUsefulBuf(EncodeHead(major, n), Current.start)
       /\ nesting' = Front(nesting)
       /\ UNCHANGED uError

\* QCBOREncode_CloseMapOrArray().  Left to the caller: an odd number of items in a
\* map, and a tag with nothing after it.
CloseMapOrArray(major) ==
  /\ nesting # <<>>
  /\ InsertCBORHead(major, GetCount)
  /\ Note(FALSE, (major = "map" /\ Current.count % 2 = 1) \/ Dangling(Current.start))
  /\ returned' = Nothing

\* Mutant of WrappedFrom: the head is taken to be one byte.
WrappedFromByte(include, start) == IF include THEN start ELSE start + 1

\* Where the bytes CloseBstrWrap2() gives back begin.
WrappedFrom(include, start) ==
  IF include THEN start ELSE start + Len(data') - Len(data)

\* QCBOREncode_CloseBstrWrap2()
CloseBstrWrap2(include) ==
  /\ nesting # <<>>
  /\ InsertCBORHead("bstr", Len(data) - Current.start)
  /\ Note(FALSE, Dangling(Current.start))
  /\ returned' =
       IF err' THEN Nothing
       ELSE [code |-> "wrapped", head |-> include,
             bytes |-> SubSeq(data', WrappedFrom(include, Current.start) + 1, Len(data'))]

\* Why a cancel is refused, or "SUCCESS".
CancelError ==
  IF CloseError("bstr") # "SUCCESS" THEN CloseError("bstr")
  ELSE IF uError = "SUCCESS" /\ Current.start # Len(data) THEN "CANNOT_CANCEL"
  ELSE "SUCCESS"

\* Mutant of CancelBstrWrap: the item the level was is still counted.
CancelBstrWrapCounted ==
  /\ nesting # <<>>
  /\ IF CancelError # "SUCCESS"
     THEN uError' = CancelError /\ UNCHANGED nesting
     ELSE nesting' = Front(nesting) /\ UNCHANGED uError
  /\ UNCHANGED <<data, err>>
  /\ Note(FALSE, FALSE)
  /\ returned' = Nothing

\* Nesting_Decrement() of a uint16_t, and how far the bound follows it.
Decremented(count) == (count + 65535) % 65536
Followed(count)    == count \notin (MaxItems + 1)..(65536 - MaxWraps)

\* QCBOREncode_CancelBstrWrap()
CancelBstrWrap ==
  /\ nesting # <<>>
  /\ LET outer == Front(nesting)
     IN  /\ outer # <<>> => Followed(Last(outer).count)
         /\ IF CancelError # "SUCCESS"
            THEN uError' = CancelError /\ UNCHANGED nesting
            ELSE /\ nesting' = IF outer = <<>> THEN outer
                               ELSE [outer EXCEPT ![Len(outer)].count = Decremented(@)]
                 /\ UNCHANGED uError
  /\ UNCHANGED <<data, err>>
  /\ Note(FALSE, FALSE)
  /\ returned' = Nothing

\* QCBOREncode_CloseMapOrArrayIndefiniteLength()
CloseMapOrArrayIndefiniteLength(major) ==
  /\ nesting # <<>>
  /\ IF CloseError(major) # "SUCCESS"
     THEN uError' = CloseError(major) /\ UNCHANGED <<data, err, nesting>>
     ELSE /\ AppendUsefulBuf(EncodeHead("break", 0))
          /\ nesting' = Front(nesting)
          /\ UNCHANGED uError
  /\ Note(FALSE, (major = "openMap" /\ Current.count % 2 = 1) \/ Dangling(Current.start))
  /\ returned' = Nothing

\* Mutant of GetErrorState: the error of the buffer is not looked at.
GetErrorStateOwn == uError

\* QCBOREncode_GetErrorState(), which also assigns uError.
GetErrorState == IF err THEN "BUFFER_TOO_SMALL" ELSE uError

\* QCBOREncode_Finish(), and QCBOREncode_GetErrorState() as its first step.
Finish ==
  /\ uError' = GetErrorState
  /\ returned' =
       IF uError' # "SUCCESS" THEN [Nothing EXCEPT !.code = uError']
       ELSE IF Len(nesting) > 1 THEN [Nothing EXCEPT !.code = "ARRAY_OR_MAP_STILL_OPEN"]
       ELSE [Nothing EXCEPT !.code = "SUCCESS", !.bytes = data]
  /\ UNCHANGED <<data, err, nesting>>
  /\ Note(FALSE, FALSE)

Majors  == {"array", "map"}
Endless == {"openArray", "openMap"}

Next ==
  /\ UNCHANGED size
  /\ \/ AddInt64 \/ AddType7Reserved \/ AddTag
     \/ \E kind \in {"string", "raw", "lenOnly"} : AddBuffer(kind)
     \/ \E major \in Majors \cup {"bstr"} : OpenMapOrArray(major)
     \/ \E major \in Endless : OpenMapOrArrayIndefiniteLength(major)
     \/ \E major \in Majors : CloseMapOrArray(major)
     \/ \E include \in BOOLEAN : CloseBstrWrap2(include)
     \/ CancelBstrWrap
     \/ \E major \in Endless : CloseMapOrArrayIndefiniteLength(major)
     \/ Finish

Spec == Init /\ [][Next]_vars

-----------------------------------------------------------------------------
(* Properties                                                              *)

\* One token of a CBOR sequence read from left to right.  skip is how many tokens
\* are the rest of a head or of a string; owed has, for each indefinite length and
\* the outermost level, the number of items definite heads still ask for.
ReadToken(state, token) ==
  LET top     == Len(state.owed)
      less    == IF state.owed[top] > 0 THEN state.owed[top] - 1 ELSE 0
      owing(n) == [state.owed EXCEPT ![top] = n]
      tail    == Len(EncodeHead(token[1], token[2])) - 1
      then(skip, owed) == [ok |-> state.ok, skip |-> skip, owed |-> owed]
  IN  CASE state.skip > 0 -> then(state.skip - 1, state.owed)
        [] state.skip = 0 /\ token[1] = "int" -> then(tail, owing(less))
        [] state.skip = 0 /\ token[1] \in {"string", "bstr"} -> then(tail + token[2], owing(less))
        [] state.skip = 0 /\ token[1] = "tag" -> then(tail, owing(less + 1))
        [] state.skip = 0 /\ token[1] = "array" -> then(tail, owing(less + token[2]))
        [] state.skip = 0 /\ token[1] = "map" -> then(tail, owing(less + 2 * token[2]))
        [] state.skip = 0 /\ token[1] \in Endless -> then(0, Append(owing(less), 0))
        [] state.skip = 0 /\ token[1] = "break" /\ top > 1 /\ state.owed[top] = 0 ->
             then(0, Front(state.owed))
        [] OTHER -> [state EXCEPT !.ok = FALSE]

WellFormed(tokens) ==
  FoldLeft(ReadToken, [ok |-> TRUE, skip |-> 0, owed |-> <<0>>], tokens)
    = [ok |-> TRUE, skip |-> 0, owed |-> <<0>>]

\* QCBOREncode_Finish() answers success only for output that is well formed: every
\* count agrees with what follows it, every level is closed and every string has
\* its bytes, however opens, closes, cancels and insertions were mixed, provided
\* no call met an error and the caller did what the library leaves to it.
FinishedIsWellFormed ==
  returned.code = "SUCCESS" /\ ~failed /\ ~misused /\ ~Dangling(0) => WellFormed(returned.bytes)

\* An output that once did not fit is never reported as a success or given back.
OverflowNeverSucceeds == err => returned.code \notin {"SUCCESS", "wrapped"}

\* "This subtraction can't go negative because the UsefulOutBuf always only grows":
\* the levels start one behind the other inside the output, in every state, the
\* ones after an error included.
StartsInOrder ==
  \A l \in 1..Len(nesting) :
    /\ nesting[l].start <= Len(data)
    /\ l > 1 => nesting[l - 1].start <= nesting[l].start

\* The items of the innermost level, after the call before they are enclosed.
Collected == SubSeq(data, Current.start + 1, Len(data))

\* CloseBstrWrap2() gives back the bytes it wrapped, for hashing, with their head or
\* without, though the head has just moved them.
WrappedIsContent ==
  [][returned'.code = "wrapped" /\ ~failed' =>
       returned'.bytes = (IF returned'.head THEN EncodeHead("bstr", Len(Collected)) ELSE <<>>)
                           \o Collected]_vars

\* The encoder implements the collection of items level by level.
LevelItems(l) ==
  SubSeq(data, nesting[l].start + 1,
         IF l = Len(nesting) THEN Len(data) ELSE nesting[l + 1].start)

Levels ==
  IF failed THEN <<>>
  ELSE [l \in 1..Len(nesting) |->
          [major |-> nesting[l].major, count |-> nesting[l].count, items |-> LevelItems(l)]]

Nested == INSTANCE NestedItems
            WITH ItemHead <- EncodeHead, levels <- Levels, broken <- failed,
                 delivered <- IF returned.code = "SUCCESS" /\ ~failed THEN returned.bytes ELSE <<>>

ImplementsNested == Nested!Spec

\* qcbor_encode.c:189-192: "Once either of these errors is set they are never
\* cleared."
ErrorsKept == [][uError # "SUCCESS" => uError' # "SUCCESS"]_vars
=============================================================================
