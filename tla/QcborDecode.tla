----------------------------- MODULE QcborDecode -----------------------------
(***************************************************************************)
(* The QCBOR decoder (QCBOR/src/qcbor_decode.c): the input buffer, the      *)
(* nesting levels with their two cursors, pCurrent for the pre-order walk   *)
(* and pCurrentBounded for what the caller entered, the search of a map by  *)
(* label, and the error state.  The encoding is a sequence of the tokens of *)
(* CborTree, so an offset is the number of a token.                         *)
(*                                                                          *)
(* A function of the C code that changes the context is an operator from a  *)
(* context d to a record with the context it leaves in field d and what it  *)
(* returns.  Every call of the interface is an action.                      *)
(***************************************************************************)
EXTENDS CborTree, FiniteSets

CONSTANTS
  Inputs,        \* [tokens, mode]: encodings to decode, and the QCBORDecodeMode
  MaxNesting,    \* QCBOR_MAX_ARRAY_NESTING
  CountBits,     \* bits of the item counts of a level, uint16_t
  MaxTags,       \* QCBOR_MAX_TAGS_PER_ITEM
  NumMappedTags, \* QCBOR_NUM_MAPPED_TAGS
  LastUnmapped,  \* QCBOR_LAST_UNMAPPED_TAG
  Wanted,        \* labels the caller looks up
  Calls,         \* calls of the interface the caller makes
  Careful        \* the caller keeps to what the decoder really supports

ASSUME DecodeAssumption ==
  /\ MaxNesting \in Nat /\ CountBits \in Nat \ {0, 1}
  /\ MaxTags \in Nat \ {0} /\ NumMappedTags \in Nat /\ LastUnmapped \in Nat
  /\ \A i \in Inputs : i.mode \in {"normal", "stringsOnly", "mapAsArray"}
  /\ Careful \in BOOLEAN

VARIABLES
  input,     \* the encoding
  dec,       \* QCBORDecodeContext
  entered,   \* history: what the caller entered and did not exit: [at, byLabel]
  lost,      \* history: a search or an exit left the cursor where no item is next
  answer     \* what the last call returned to the caller

vars == <<input, dec, entered, lost, answer>>

-----------------------------------------------------------------------------
(* Counts, offsets and errors                                              *)

Indefinite  == 2^CountBits - 1
ZeroLength  == Indefinite - 1
MaxItems    == Indefinite - 1
Count(n)    == n % 2^CountBits

NonBounded  == -1    \* QCBOR_NON_BOUNDED_OFFSET, above every offset
NoCache     == -1    \* QCBOR_MAP_OFFSET_CACHE_INVALID

\* Errors from 14 to 23, and the two ways not to come back at all.
Unrecoverable(e) ==
  e \in {"HIT_END", "BAD_BREAK", "INPUT_TOO_LARGE", "NESTING_TOO_DEEP", "DECODE_TOO_LONG",
         "never", "undefined"}

-----------------------------------------------------------------------------
(* UsefulInputBuf                                                          *)

BytesUnconsumed(d) == IF d.cursor > d.len THEN 0 ELSE d.len - d.cursor

Seek(d, p) ==
  IF p = NonBounded \/ p > d.len THEN [d EXCEPT !.bufErr = TRUE] ELSE [d EXCEPT !.cursor = p]

-----------------------------------------------------------------------------
(* DecodeNesting                                                           *)

Current(d) == d.levels[d.cur]
Bounded(d) == d.levels[d.bnd]

IsCurrentBounded(d) == Current(d).type = "bstr" \/ Current(d).start # NonBounded
IsCurrentDefinite(d) == Current(d).type # "bstr" /\ Current(d).total # Indefinite
IsBoundedType(d, type) == d.bnd # -1 /\ Bounded(d).type = type
IsBoundedEmpty(d) == Bounded(d).count = ZeroLength

\* Mutant of IsAtEndOfBoundedLevel: what is empty has not ended.
EndOfBoundedNotEmpty(d) ==
  d.bnd # -1 /\ Current(d).type # "bstr" /\ IsCurrentBounded(d) /\ Bounded(d).count = 0

IsAtEndOfBoundedLevel(d) ==
  /\ d.bnd # -1
  /\ Current(d).type # "bstr"
  /\ IsCurrentBounded(d)
  /\ Bounded(d).count \in {0, ZeroLength}

AddToCount(d, n) == [d EXCEPT !.levels[d.cur].count = Count(@ + n)]

\* DecodeNesting_Descend(): only the type of the new level is set.
Descend(d, type) ==
  IF d.cur >= MaxNesting THEN [d |-> d, err |-> "NESTING_TOO_DEEP"]
  ELSE [d |-> [d EXCEPT !.cur = @ + 1, !.levels[d.cur + 1].type = type], err |-> "SUCCESS"]

DescendMapOrArray(d, type, n) ==
  IF n = 0 THEN [d |-> d, err |-> "SUCCESS"]
  ELSE IF n # Indefinite /\ n > MaxItems THEN [d |-> d, err |-> "DECODE_TOO_LONG"]
  ELSE LET r == Descend(d, type)
       IN  IF r.err # "SUCCESS" THEN r
           ELSE [r EXCEPT !.d.levels[r.d.cur] =
                   [@ EXCEPT !.count = n, !.total = n, !.start = NonBounded]]

ResetMapOrArrayCount(d) ==
  IF Current(d).count = ZeroLength THEN d
  ELSE [d EXCEPT !.levels[d.bnd].count = d.levels[d.bnd].total]

RewindMapOrArray(d) ==
  LET up == ResetMapOrArrayCount([d EXCEPT !.cur = d.bnd]) IN Seek(up, Bounded(up).start)

\* The loop looks at pCurrent in every round, and pCurrent stays where it is.
LevelUpBounded(d) ==
  IF d.bnd = 0 THEN d
  ELSE [d EXCEPT !.bnd = IF IsCurrentBounded(d) THEN @ - 1 ELSE 0]

-----------------------------------------------------------------------------
(* Layers 6 and 5: one primitive item; a string of indefinite length is not *)
(* one of the tokens                                                       *)

NoItem == [type |-> "none", n |-> 0, at |-> 0, label |-> NoLabel, tags |-> <<>>,
           nest |-> 0, next |-> 0]
\* The caller's item where the call did not write to it.
Untouched == [NoItem EXCEPT !.type = "untouched"]

HitEnd(d) == [d |-> [d EXCEPT !.bufErr = TRUE], err |-> "HIT_END", item |-> NoItem]

DecodeAtomicDataItem(d) ==
  IF d.bufErr \/ BytesUnconsumed(d) = 0 THEN HitEnd(d)
  ELSE
    LET token == Token(input, d.cursor)
        past  == [d EXCEPT !.cursor = @ + 1]
        done(e, type, n) == [d |-> past, err |-> e,
                             item |-> [NoItem EXCEPT !.type = type, !.n = n, !.at = d.cursor]]
    IN  CASE token.t = "bad"       -> done("BAD_TYPE_7", "none", 0)
          [] token.t = "openArray" -> done("SUCCESS", "array", Indefinite)
          [] token.t = "openMap"   -> done("SUCCESS", "map", Indefinite)
          [] token.t \in Closed /\ token.n > MaxItems -> done("DECODE_TOO_LONG", "none", 0)
          [] token.t = "bstr"      ->
               IF BytesUnconsumed(past) < token.n THEN HitEnd(past)
               ELSE [done("SUCCESS", "bstr", token.n) EXCEPT !.d.cursor = @ + token.n]
          [] OTHER                 -> done("SUCCESS", token.t, token.n)

-----------------------------------------------------------------------------
(* Layer 4: tags                                                           *)

\* MapTagNumber(): numbers that do not fit 16 bits are kept in a table, and what is
\* stored in the item is their place there.
MapTagNumber(d, tag) ==
  LET at == CHOOSE k \in 1..(Len(d.mapped) + 1) :
              /\ k \in DOMAIN d.mapped => d.mapped[k] = tag
              /\ \A j \in 1..(k - 1) : d.mapped[j] # tag
  IN  CASE tag <= LastUnmapped -> [d |-> d, err |-> "SUCCESS", tag |-> tag]
        [] tag > LastUnmapped /\ at > NumMappedTags ->
             [d |-> d, err |-> "TOO_MANY_TAGS", tag |-> 0]
        [] OTHER -> [d |-> [d EXCEPT !.mapped = IF at > Len(@) THEN Append(@, tag) ELSE @],
                     err |-> "SUCCESS", tag |-> LastUnmapped + at]

UnMapTagNumber(d, stored) ==
  IF stored <= LastUnmapped THEN stored ELSE d.mapped[stored - LastUnmapped]

RECURSIVE GetNextTagNumber(_, _, _), TagOrItem(_, _, _)

\* Mutant of TagOrItem: tags without a place are dropped and nothing is said.
TagOrItemDropped(r, tags, err) ==
  IF r.err # "SUCCESS" THEN r
  ELSE IF r.item.type # "tag" THEN [r EXCEPT !.err = err, !.item.tags = tags]
  ELSE IF Len(tags) = MaxTags THEN GetNextTagNumber(r.d, tags, err)
  ELSE LET m == MapTagNumber(r.d, r.item.n)
       IN  GetNextTagNumber(m.d, <<m.tag>> \o tags, m.err)

TagOrItem(r, tags, err) ==
  IF r.err # "SUCCESS" THEN r
  ELSE IF r.item.type # "tag" THEN [r EXCEPT !.err = err, !.item.tags = tags]
  ELSE IF Len(tags) = MaxTags THEN GetNextTagNumber(r.d, tags, "TOO_MANY_TAGS")
  ELSE LET m == MapTagNumber(r.d, r.item.n)
       IN  GetNextTagNumber(m.d, <<m.tag>> \o tags, m.err)

\* tags are those before the item, the innermost first; err is the result so far.
GetNextTagNumber(d, tags, err) == TagOrItem(DecodeAtomicDataItem(d), tags, err)

-----------------------------------------------------------------------------
(* Layer 3: a label and a value are one item                               *)

\* The types of item that are taken for a label.
LabelTypes(mode) ==
  IF mode = "stringsOnly" THEN {"text"} ELSE {"text", "int", "bstr"}

MapAsArray(r) ==
  IF r.item.n > MaxItems \div 2 THEN [r EXCEPT !.err = "DECODE_TOO_LONG"]
  ELSE [r EXCEPT !.item.type = "mapAsArray", !.item.n = 2 * @]

WithLabel(label, value) ==
  IF Unrecoverable(value.err) THEN value
  ELSE IF label.type \notin LabelTypes(value.d.mode) THEN [value EXCEPT !.err = "MAP_LABEL_TYPE"]
  ELSE [value EXCEPT !.item.label = <<label.type, label.n>>]

EntryFrom(d, first) ==
  IF first.err # "SUCCESS" \/ first.item.type = "break" THEN first
  ELSE IF d.mode = "mapAsArray" /\ first.item.type = "map" THEN MapAsArray(first)
  ELSE IF d.mode # "mapAsArray" /\ Current(d).type = "map"
  THEN WithLabel(first.item, GetNextTagNumber(first.d, <<>>, "SUCCESS"))
  ELSE first

GetNextMapEntry(d) == EntryFrom(d, GetNextTagNumber(d, <<>>, "SUCCESS"))

-----------------------------------------------------------------------------
(* Layer 2: descending into and ascending out of levels                    *)

RECURSIVE NestLevelAscender(_, _)

\* Mutant of Ascend: what was entered is ascended out of like anything else.
AscendFreely(d, markEnd) == NestLevelAscender([d EXCEPT !.cur = @ - 1], markEnd)

\* The current level has come to its end.
Ascend(d, markEnd) ==
  IF ~IsCurrentBounded(d) THEN NestLevelAscender([d EXCEPT !.cur = @ - 1], markEnd)
  ELSE [d |-> IF markEnd THEN [d EXCEPT !.levels[d.cur].count = 0] ELSE d, err |-> "SUCCESS"]

AscendAtZero(d, markEnd) ==
  IF Current(d).count # 0 THEN [d |-> d, err |-> "SUCCESS"] ELSE Ascend(d, markEnd)

\* NextIsBreak() takes back what it read if it was something else.
AscendAtBreak(d, peek, markEnd) ==
  IF peek.err # "SUCCESS" THEN [d |-> peek.d, err |-> peek.err]
  ELSE IF peek.item.type # "break" THEN [d |-> d, err |-> "SUCCESS"]
  ELSE Ascend(peek.d, markEnd)

\* QCBORDecode_NestLevelAscender(): an item was consumed, close what it ends.
NestLevelAscender(d, markEnd) ==
  IF d.cur = 0 \/ Current(d).type = "bstr" THEN [d |-> d, err |-> "SUCCESS"]
  ELSE IF IsCurrentDefinite(d) THEN AscendAtZero(AddToCount(d, -1), markEnd)
  ELSE IF BytesUnconsumed(d) = 0 THEN [d |-> d, err |-> "SUCCESS"]
  ELSE AscendAtBreak(d, DecodeAtomicDataItem(d), markEnd)

IsMapOrArray(item) == item.type \in {"array", "map", "mapAsArray"}

\* An item of the result err, with the levels that follow it in up.
Placed(item, err, up) ==
  IF up.err # "SUCCESS" THEN [d |-> up.d, err |-> up.err, item |-> item]
  ELSE [d |-> up.d, err |-> err,
        item |-> [item EXCEPT !.next = IF IsAtEndOfBoundedLevel(up.d) THEN 0 ELSE up.d.cur]]

Descended(item, err, down) ==
  IF down.err # "SUCCESS" THEN [d |-> down.d, err |-> down.err, item |-> item]
  ELSE Placed(item, err,
              IF IsMapOrArray(item) /\ item.n \notin {0, Indefinite} THEN down
              ELSE NestLevelAscender(down.d, TRUE))

MapOrArrayFrom(r) ==
  IF Unrecoverable(r.err) THEN r
  ELSE IF r.item.type = "break" THEN [r EXCEPT !.err = "BAD_BREAK"]
  ELSE Descended([r.item EXCEPT !.nest = r.d.cur], r.err,
                 IF IsMapOrArray(r.item) THEN DescendMapOrArray(r.d, r.item.type, r.item.n)
                 ELSE [d |-> r.d, err |-> "SUCCESS"])

\* QCBORDecode_GetNextMapOrArray(), and QCBORDecode_GetNextTagContent() for tags
\* that are left to the caller.
GetNextTagContent(d) ==
  IF BytesUnconsumed(d) = 0 \/ IsAtEndOfBoundedLevel(d)
  THEN [d |-> d, err |-> "NO_MORE_ITEMS", item |-> Untouched]
  ELSE MapOrArrayFrom(GetNextMapEntry(d))

NoneUnlessSuccess(r) ==
  IF r.err = "SUCCESS" \/ r.item = Untouched THEN r
  ELSE [r EXCEPT !.item.type = "none", !.item.label = NoLabel]

GetNext(d) == NoneUnlessSuccess(GetNextTagContent(d))

-----------------------------------------------------------------------------
(* Consuming whole items and searching maps                                *)

RECURSIVE ConsumeUpTo(_, _, _), SearchEntries(_, _, _, _)

ConsumeOn(r, level, last) ==
  LET next == IF r.item = Untouched THEN last ELSE r.item.next
  IN  IF Unrecoverable(r.err) THEN [d |-> r.d, err |-> r.err, next |-> last]
      ELSE IF next < level THEN [d |-> r.d, err |-> "SUCCESS", next |-> next]
      ELSE IF r.item = Untouched THEN [d |-> r.d, err |-> "never", next |-> next]
      ELSE ConsumeUpTo(r.d, level, next)

\* The loop of ConsumeItem().  last is the nesting level its local Item holds; a round
\* that changes nothing is repeated for ever.
ConsumeUpTo(d, level, last) == ConsumeOn(GetNext(d), level, last)

\* stale is what an uninitialized Item may hold.
ConsumeItem(d, item, stale) ==
  IF IsMapOrArray(item) /\ item.next > item.nest THEN ConsumeUpTo(d, item.next, stale)
  ELSE [d |-> d, err |-> "SUCCESS", next |-> item.next]

MatchType(type, wanted) == wanted = "any" \/ type = wanted

\* The entry was consumed, with the result c: on to the next, or to the end.
SearchOn(c, s, found, offset) ==
  IF c.err # "SUCCESS" THEN [d |-> c.d, err |-> c.err, found |-> found, offset |-> offset]
  ELSE IF c.next >= c.d.bnd THEN SearchEntries(c.d, s, found, offset)
  ELSE [d |-> [c.d EXCEPT !.cache = c.d.cursor], err |-> "SUCCESS", found |-> found,
        offset |-> offset]

\* The entry r begins at the offset at.
SearchEntry(r, at, s, found, offset) ==
  LET hit     == r.item.label \in DOMAIN s.wanted
      fail(e) == [d |-> r.d, err |-> e, found |-> found, offset |-> offset]
  IN  IF Unrecoverable(r.err) \/ r.err = "NO_MORE_ITEMS" THEN fail(r.err)
      ELSE IF hit /\ r.item.label \in DOMAIN found THEN fail("DUPLICATE_LABEL")
      ELSE IF hit /\ r.err # "SUCCESS" THEN fail(r.err)
      ELSE IF hit /\ ~MatchType(r.item.type, s.wanted[r.item.label]) THEN fail("UNEXPECTED_TYPE")
      ELSE SearchOn(ConsumeItem(r.d, r.item, s.stale), s,
                    IF hit THEN found @@ (r.item.label :> r.item) ELSE found,
                    IF hit THEN at ELSE offset)

\* The loop of MapSearch() from one entry on.  s has what is wanted, a type for each
\* label, and stale; found and offset are the entries found and where the last of them is.
SearchEntries(d, s, found, offset) ==
  SearchEntry(GetNextTagContent(d), d.cursor, s, found, offset)

\* The nesting is put back, the offset in the buffer is not.
RestoreFromMapSearch(d, r) == [r EXCEPT !.d.levels = d.levels, !.d.cur = d.cur, !.d.bnd = d.bnd]

MapSearch(d, wanted, stale) ==
  LET without(e, at) == [d |-> at, err |-> e, found |-> <<>>, offset |-> 0]
  IN  IF d.err # "SUCCESS" THEN without(d.err, d)
      ELSE IF ~IsBoundedType(d, "map") /\ DOMAIN wanted # {} THEN without("MAP_NOT_ENTERED", d)
      ELSE IF IsBoundedEmpty(d)
      THEN without("SUCCESS",
                   IF DOMAIN wanted = {} THEN [d EXCEPT !.cache = Bounded(d).start] ELSE d)
      ELSE RestoreFromMapSearch(d,
             SearchEntries(RewindMapOrArray(d), [wanted |-> wanted, stale |-> stale], <<>>, 0))

MustBeFound(r) ==
  LET err == IF r.err = "SUCCESS" /\ DOMAIN r.found = {} THEN "LABEL_NOT_FOUND" ELSE r.err
  IN  [r EXCEPT !.err = err, !.d.err = err]

\* QCBORDecode_GetItemInMapN() and QCBORDecode_GetItemInMapSZ()
GetItemInMap(d, label, type, stale) == MustBeFound(MapSearch(d, label :> type, stale))

-----------------------------------------------------------------------------
(* Entering and exiting                                                    *)

\* An empty map or array has not been descended into, so that is made up for; whether
\* there was a level left is not asked.
EnterItem(r, type) ==
  LET empty == r.item.next <= r.item.nest
      again == IF IsCurrentDefinite(r.d) THEN AddToCount(r.d, 1) ELSE r.d
      level == IF empty THEN Descend(again, type).d ELSE r.d
      err   == IF r.err # "SUCCESS" THEN r.err
               ELSE IF r.item.type # type THEN "UNEXPECTED_TYPE" ELSE "SUCCESS"
  IN  IF err # "SUCCESS" THEN [r EXCEPT !.err = err, !.d.err = err]
      ELSE [r EXCEPT !.d =
              [level EXCEPT !.bnd = level.cur, !.cache = NoCache,
                            !.levels[level.cur].start = level.cursor,
                            !.levels[level.cur].count = IF empty THEN ZeroLength ELSE @]]

EnterBoundedMapOrArray(d, type) == EnterItem(GetNext(d), type)

EnterFound(r, type) ==
  LET there == ResetMapOrArrayCount(Seek(r.d, r.offset))
  IN  IF r.err # "SUCCESS" THEN [d |-> r.d, err |-> r.err, item |-> NoItem]
      ELSE EnterBoundedMapOrArray([there EXCEPT !.cur = there.bnd], type)

SearchAndEnter(d, label, type, stale) == EnterFound(GetItemInMap(d, label, type, stale), type)

\* unmarked says that a break was read and the level it ends is not marked as being at
\* its end.
LevelUp(out, r) ==
  IF r.err # "SUCCESS" THEN r
  ELSE [d |-> [LevelUpBounded(r.d) EXCEPT !.cache = NoCache], err |-> "SUCCESS",
        unmarked |-> r.d.cursor # out.cursor /\ Current(r.d).count # 0]

\* There is no level below the first: what the code reads there is undefined.
ExitBoundedLevel(d, end) ==
  LET out == [Seek(d, end) EXCEPT !.cur = d.bnd - 1]
  IN  IF d.bnd = 0 THEN [d |-> d, err |-> "undefined"]
      ELSE LevelUp(out, NestLevelAscender(out, FALSE))

ExitFound(r) ==
  IF r.err # "SUCCESS" THEN [d |-> r.d, err |-> r.err] ELSE ExitBoundedLevel(r.d, r.d.cache)

\* The end is where a search found it, or is searched for now.
ExitBoundedMapOrArray(d, type, stale) ==
  IF ~IsBoundedType(d, type) THEN [d |-> d, err |-> "EXIT_MISMATCH"]
  ELSE IF d.cache # NoCache THEN ExitBoundedLevel(d, d.cache)
  ELSE ExitFound(MapSearch(d, <<>>, stale))

\* InternalEnterBstrWrapped(), for a caller that expects no tag.  No offset is found for
\* an empty string at the end of the buffer.
InternalEnterBstrWrapped(d, item) ==
  LET again == IF IsCurrentDefinite(d) THEN AddToCount(d, 1) ELSE d
      inner == [Seek(again, item.at + 1) EXCEPT !.len = item.at + 1 + item.n]
      r     == Descend(inner, "bstr")
  IN  IF d.err # "SUCCESS" THEN [d |-> d, err |-> d.err]
      ELSE IF item.type # "bstr" \/ item.tags # <<>> THEN [d |-> d, err |-> "UNEXPECTED_TYPE"]
      ELSE IF item.at + 1 >= d.len THEN [d |-> again, err |-> "INPUT_TOO_LARGE"]
      ELSE IF r.err # "SUCCESS" THEN r
      ELSE [r EXCEPT !.d.bnd = r.d.cur,
                     !.d.levels[r.d.cur] =
                       [type |-> "bstr", total |-> 0, count |-> 0,
                        start |-> item.at + 1, savedEnd |-> d.len]]

ExitBstrWrapped(d) ==
  IF ~IsBoundedType(d, "bstr") THEN [d |-> d, err |-> "EXIT_MISMATCH"]
  ELSE ExitBoundedLevel([d EXCEPT !.len = Bounded(d).savedEnd], d.len)

-----------------------------------------------------------------------------
(* The calls                                                               *)

NoLevel == [type |-> "none", total |-> 0, count |-> 0, start |-> 0, savedEnd |-> 0]

\* QCBORDecode_Init()
Start(s, mode) ==
  [mode |-> mode, cursor |-> 0, len |-> Len(s), bufErr |-> FALSE,
   levels |-> [l \in 0..MaxNesting |-> IF l = 0 THEN [NoLevel EXCEPT !.type = "bstr"] ELSE NoLevel],
   cur |-> 0, bnd |-> -1, cache |-> 0, err |-> "SUCCESS", mapped |-> <<>>]

Answer(call, err, items) ==
  [call |-> call, err |-> err,
   got |-> IF err = "SUCCESS" THEN {<<item.label, item.at>> : item \in items} ELSE {},
   tags |-> IF err = "SUCCESS" THEN {<<item.at, item.tags>> : item \in items} ELSE {}]

Init ==
  /\ \E i \in Inputs : input = i.tokens /\ dec = Start(i.tokens, i.mode)
  /\ entered = <<>>
  /\ lost = FALSE
  /\ answer = Answer("Init", "SUCCESS", {})

\* Calls do nothing while there is an error, and there are none after one that never
\* came back.
Called(call) ==
  /\ call \in Calls
  /\ answer.err \notin {"never", "undefined"}
Ready(call) == Called(call) /\ dec.err = "SUCCESS"

\* What a local Item that was not written to may have for its uNextNestLevel.
Stale == {0, MaxNesting}

Return(d, err) == dec' = [d EXCEPT !.err = err]

\* The cursor is where the caller left it.
CanWalk == Careful => ~lost
\* It is not in a map or array the caller walked into without entering it.
CanEnter == CanWalk /\ (Careful => dec.cur = (IF dec.bnd = -1 THEN 0 ELSE dec.bnd))
CanExit == Careful => entered # <<>>
CanReset == Careful => ~Unrecoverable(dec.err)

UnMapped(item) == [item EXCEPT !.tags = [k \in DOMAIN @ |-> UnMapTagNumber(dec', @[k])]]

VGetNext ==
  /\ Ready("VGetNext") /\ CanWalk
  /\ \E r \in {GetNext(dec)} :
       Return(r.d, r.err) /\ answer' = Answer("VGetNext", r.err, {UnMapped(r.item)})
  /\ UNCHANGED <<input, entered, lost>>

VGetNextConsume ==
  /\ Ready("VGetNextConsume") /\ CanWalk
  /\ \E stale \in Stale, r \in {GetNext(dec)} :
       IF r.err # "SUCCESS"
       THEN Return(r.d, r.err) /\ answer' = Answer("VGetNextConsume", r.err, {})
       ELSE \E c \in {ConsumeItem(r.d, r.item, stale)} :
              Return(c.d, c.err) /\ answer' = Answer("VGetNextConsume", c.err, {r.item})
  /\ UNCHANGED <<input, entered, lost>>

\* QCBORDecode_PeekNext() puts nesting and buffer back; tags stay mapped.
VPeekNext ==
  /\ Ready("VPeekNext") /\ CanWalk
  /\ \E r \in {GetNext(dec)} :
       /\ Return([dec EXCEPT !.mapped = r.d.mapped], r.err)
       /\ answer' = Answer("VPeekNext", r.err, {r.item})
  /\ UNCHANGED <<input, entered, lost>>

\* What remains of a call that was to enter an item.
Entered(call, r, byLabel) ==
  /\ Return(r.d, r.err)
  /\ answer' = Answer(call, r.err, {})
  /\ entered' = IF r.err = "SUCCESS" THEN Append(entered, [at |-> r.item.at, byLabel |-> byLabel])
                ELSE entered
  /\ lost' = IF r.err = "SUCCESS" THEN FALSE
             ELSE lost \/ (byLabel /\ r.d.cursor # dec.cursor)
  /\ UNCHANGED input

\* QCBORDecode_EnterMap(), QCBORDecode_EnterArray()
Enter(type) ==
  /\ Ready("Enter") /\ CanEnter
  /\ Entered("Enter", EnterBoundedMapOrArray(dec, type), FALSE)

\* QCBORDecode_EnterMapFromMapN() and the like
EnterFromMap(label, type) ==
  /\ Ready("EnterFromMap")
  /\ \E stale \in Stale : Entered("EnterFromMap", SearchAndEnter(dec, label, type, stale), TRUE)

EnterBstrWrapped ==
  /\ Ready("EnterBstrWrapped") /\ CanEnter
  /\ \E r \in {GetNext(dec)} :
       IF r.err # "SUCCESS" THEN Entered("EnterBstrWrapped", r, FALSE)
       ELSE \E b \in {InternalEnterBstrWrapped(r.d, r.item)} :
              Entered("EnterBstrWrapped", [d |-> b.d, err |-> b.err, item |-> r.item], FALSE)

EnterBstrWrappedFromMap(label) ==
  /\ Ready("EnterBstrWrappedFromMap") /\ (Careful => dec.cur = dec.bnd)
  /\ \E stale \in Stale : \E r \in {GetItemInMap(dec, label, "any", stale)} :
       \E item \in {IF r.err = "SUCCESS" THEN r.found[label] ELSE NoItem} :
         \E b \in {InternalEnterBstrWrapped(r.d, item)} :
           Entered("EnterBstrWrappedFromMap", [d |-> b.d, err |-> b.err, item |-> item], TRUE)

Exited(call, r) ==
  /\ Return(r.d, r.err)
  /\ answer' = Answer(call, r.err, {})
  /\ IF r.err = "SUCCESS" /\ entered # <<>>
     THEN entered' = Front(entered) /\ lost' = (Last(entered).byLabel \/ r.unmarked)
     ELSE UNCHANGED <<entered, lost>>
  /\ UNCHANGED input

\* QCBORDecode_ExitMap(), QCBORDecode_ExitArray()
Exit(type) ==
  /\ Ready("Exit") /\ CanExit
  /\ \E stale \in Stale : Exited("Exit", ExitBoundedMapOrArray(dec, type, stale))

ExitBstr ==
  /\ Ready("ExitBstrWrapped") /\ CanExit
  /\ Exited("ExitBstrWrapped", ExitBstrWrapped(dec))

Searched(call, r, labels) ==
  /\ Return(r.d, r.err)
  /\ answer' = Answer(call, r.err, {r.found[l] : l \in labels \cap DOMAIN r.found})
  /\ lost' = (lost \/ r.d.cursor # dec.cursor)
  /\ UNCHANGED <<input, entered>>

GetOneItemInMap(label) ==
  /\ Ready("GetItemInMap")
  /\ \E stale \in Stale :
       Searched("GetItemInMap", GetItemInMap(dec, label, "any", stale), {label})

\* QCBORDecode_GetItemsInMap()
GetItemsInMap(labels) ==
  /\ Ready("GetItemsInMap")
  /\ \E stale \in Stale :
       Searched("GetItemsInMap", MapSearch(dec, [l \in labels |-> "any"], stale), labels)

Rewind ==
  /\ Called("Rewind") /\ CanReset
  /\ LET top == [Seek(dec, 0) EXCEPT !.cur = 0, !.levels[0].type = "bstr"]
         inside == IF IsBoundedType(dec, "bstr")
                   THEN [Seek(dec, Bounded(dec).start) EXCEPT !.cur = dec.bnd]
                   ELSE RewindMapOrArray(dec)
     IN  Return(IF dec.bnd # -1 THEN inside ELSE top, "SUCCESS")
  /\ lost' = FALSE
  /\ answer' = Answer("Rewind", "SUCCESS", {})
  /\ UNCHANGED <<input, entered>>

GetAndResetError ==
  /\ Called("GetAndResetError") /\ CanReset
  /\ Return(dec, "SUCCESS")
  /\ answer' = Answer("GetAndResetError", dec.err, {})
  /\ UNCHANGED <<input, entered, lost>>

\* Mutant of FinishError: only what is left over is looked at.
FinishErrorExtraOnly ==
  IF dec.err # "SUCCESS" THEN dec.err
  ELSE IF BytesUnconsumed(dec) # 0 THEN "EXTRA_BYTES" ELSE "SUCCESS"

FinishError ==
  IF dec.err # "SUCCESS" THEN dec.err
  ELSE IF dec.cur # 0 THEN "ARRAY_OR_MAP_UNCONSUMED"
  ELSE IF BytesUnconsumed(dec) # 0 THEN "EXTRA_BYTES" ELSE "SUCCESS"

Finish ==
  /\ Called("Finish")
  /\ answer' = Answer("Finish", FinishError, {})
  /\ UNCHANGED <<input, dec, entered, lost>>

Next ==
  \/ VGetNext \/ VGetNextConsume \/ VPeekNext
  \/ \E type \in {"array", "map"} : Enter(type) \/ Exit(type)
  \/ EnterBstrWrapped \/ ExitBstr
  \/ \E label \in Wanted : \/ EnterBstrWrappedFromMap(label)
                           \/ GetOneItemInMap(label)
                           \/ \E type \in {"array", "map"} : EnterFromMap(label, type)
  \/ \E labels \in SUBSET Wanted : Cardinality(labels) = 2 /\ GetItemsInMap(labels)
  \/ Rewind \/ GetAndResetError \/ Finish

Spec == Init /\ [][Next]_vars

-----------------------------------------------------------------------------
(* Properties                                                              *)

TreeOf == [labels \in BOOLEAN |-> [s \in {i.tokens : i \in Inputs} |-> ScopesOf(s, labels)]]
Labelled == dec.mode # "mapAsArray"
ScopeNow == TreeOf[Labelled][input][IF entered = <<>> THEN Outside ELSE Last(entered).at]

Tree == INSTANCE ItemCursor
          WITH Trees      <- TreeOf,
               labelTypes <- IF Labelled THEN LabelTypes(dec.mode) ELSE {},
               scopes     <- entered,
               todo       <- IF lost THEN <<[type |-> "nowhere"]>>
                             ELSE SelectSeq(ScopeNow.walk, LAMBDA v : v.start >= dec.cursor),
               error      <- dec.err,
               answer     <- [err |-> answer.err, got |-> answer.got]

\* Item counts, breaks found by looking ahead, levels closed several at a time and
\* offsets kept from earlier make up a walk of the tree: each call returns the item,
\* or the error, that ItemCursor says, and leaves the cursor where it says.
ImplementsItemCursor == Tree!Spec

\* The pre-order walk is always inside what was entered.
WalkInsideBounded == dec.err = "SUCCESS" => dec.cur >= dec.bnd

\* When all is well in the end the input was well formed to its last byte, and what
\* the caller entered was exited: an encoding cut off anywhere does not pass.
FinishMeansWellFormed ==
  answer.call = "Finish" /\ answer.err = "SUCCESS" => WellFormed(input) /\ entered = <<>>

\* An item is returned with the tags in front of it, all of them and no others, or with an
\* error; in a map, with those behind the label.
TagsAsEncoded ==
  [][answer'.call = "VGetNext" =>
       \A t \in answer'.tags :
         LET first   == IF Current(dec).type = "map" THEN After(input, dec.cursor, 1) ELSE dec.cursor
             from(k) == IF t[1] - k >= first THEN Token(input, t[1] - k) ELSE [t |-> "none", n |-> 0]
         IN  /\ \A k \in DOMAIN t[2] : from(k) = [t |-> "tag", n |-> t[2][k]]
             /\ from(Len(t[2]) + 1).t # "tag"]_vars

-----------------------------------------------------------------------------
(* What the documentation says and the code does not do                    *)

\* "The position of the pre-order traversal cursor is not changed" by looking up entries
\* (qcbor_spiffy_decode.h).
LookUpKeepsCursor ==
  [][answer'.call \in {"GetItemInMap", "GetItemsInMap"} /\ answer'.err = "SUCCESS"
       => dec'.cursor = dec.cursor]_vars

\* "The decoding will not proceed past the end of the array" that was entered.
WalkEndsWithEntered ==
  answer.call = "VGetNext" =>
    \A got \in answer.got : got[2] < ScopeNow.end
=============================================================================
