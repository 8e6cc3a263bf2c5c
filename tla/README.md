# Verification of D-CBOR

The repository is a set of small C programs around deterministic CBOR: an
encoder that writes straight into a fixed buffer (`lib/d-cbor.c`), an exact
floating-point reduction (`lib/d-cbor-ieee754.c`), a signer and a verifier of
signed CBOR maps (`signature-demo`, `verify-demo`), the general CBOR library
QCBOR the verifier reads with, and an Ed25519 implementation. Nothing in it
runs concurrently: what is hard is state that outlives a call (positions and
counts kept while bytes are moved, a sticky error or overflow flag looked at
only at the end, cursors with two levels of bookkeeping) and arithmetic at the
edges of widths and formats. This directory holds TLA+ modules of that state
and those algorithms, TLC configurations that check them on small instances,
and machine-checked proofs for instances of any size about the D-CBOR buffer,
the heads of CBOR, floating-point formats, the QCBOR encoder, the strings of the
QCBOR decoder, values with their tags and conversions, signed messages from signer
to verifier, and SHA-512.
All paths below are relative to the repository's `src/` directory.

## Inventory

| Component | State it keeps | Operations | What makes it correct |
|---|---|---|---|
| D-CBOR encoder, `lib/d-cbor.c` | `CBOR_BUFFER`: `data`, `pos`, `length` (0 after an overflow) | `putByte()`, `encodeTagAndN()`, `add...()`, `addMapped...()`, `insertArray()` | with `length` not 0 at the end the buffer has exactly what was asked for; an overflow is final; every `memmove()` is in bounds; heads are the shortest |
| D-CBOR floating point, `lib/d-cbor-ieee754.c` | none | `addDouble()`, built with a float cast or without | no number is changed; the shortest format is chosen; the two builds agree |
| QCBOR encoder, `QCBOR/src/qcbor_encode.c` | output buffer and its error, stack of open levels with start and count, `uError` | adding items, opening, closing, wrapping, cancelling, Finish | a success is well-formed output; errors are never lost; saved start positions stay right while heads are inserted in front of them |
| QCBOR floating point, `QCBOR/src/ieee754.c` | none | double and float to the smallest format, half to double | no number is changed, a NaN stays a NaN |
| QCBOR decoder, `QCBOR/src/qcbor_decode.c` | cursor and end of the input, nesting levels with counts and offsets, the level of the walk and the bounded level, cached end of a map, `uLastError`, table of tag numbers | walk (GetNext, VGetNextConsume, peek), enter and exit, search by label, rewind, reset of the error, Finish | each call returns the item of the tree that is next; entering and exiting nest; a success of Finish means well-formed input |
| UsefulBuf, `QCBOR/src/UsefulBuf.c` | data, length, error | insert, append; seek, read | nothing is written behind a gap; the error is sticky |
| CSF signer, `signature-demo/csf-signer.c` | position of the signature map, the buffer | `signBuffer()` | the signature covers the map as it was before; the count is patched in a whole message only |
| CSF verifier, `verify-demo/csf-verifier.c` | decoder context, values read, the caller's buffer | `csfVerifier()` | accepts what was signed and only that; an earlier error never gets as far as the patch |
| QCBOR strings, `QCBORDecode_GetNextFullString()` and `MemPool` in `qcbor_decode.c` | the pool: its size and free offset in its first bytes, strings behind them; the string being put together | strings of definite and indefinite length, allocate, reallocate, free, destruct | strings that were returned stay what they are; a failure gives its memory back |
| QCBOR values and tags, `qcbor_encode.h`, second half of `qcbor_decode.c` | `uLastError` | `QCBOREncode_AddT...()`, tag content, tag requirements, getters, conversions to `int64_t`, `uint64_t`, `double`, fractions | what is got is what was added or an error; no tag is ignored that the caller did not allow; a call takes one entry, or none after an error |
| SHA-512, `ed25519/src/sha512.c` | hash state, block buffer, counter | init, update, final | what is compressed is the message and its padding, in order and once |
| Ed25519 arithmetic, `fe.c`, `ge.c`, `sc.c`, `precomp_data.h` | none | field elements in limbs, points in four coordinates, scalars in digits | the representations stand for the numbers and points of the group, and the bytes written are unique |
| Ed25519 keys and signatures, `sign.c`, `verify.c`, `keypair.c`, `add_scalar.c`, `key_exchange.c` | the caller's keys | create, add a scalar, sign, verify, exchange | halves of a pair belong together; exactly what satisfies the equation is accepted; two parties get one secret |
| Printing, demos, tests | none of their own | | not modelled |

How they interact: a client calls the D-CBOR encoder on a `CBOR_BUFFER`, looks
at `length` once at the end, and for an array of unknown length keeps `pos` and
hands it to `insertArray()` later. The signer does the same with the position
of the signature map, signs the bytes in the buffer, then appends the signature
and increments a count in place. The bytes go to the verifier, which opens a
QCBOR decoder on them, enters the signature map, looks up its entries, and uses
the decoder's cursor to cut the signature off its own copy of the message before
it verifies. Both QCBOR parts sit on UsefulBuf; the decoder calls a string allocator by
pointer, for which it brings `MemPool`. Signing and verifying call SHA-512 and the
group, which works on field elements and scalars. Calls are the only interaction:
there are no threads or timers, and the allocator is the only callback modelled.

Hard behaviours, each at its line in `PROJECT.json` under `hazards`: overflow in
the middle of a call, positions kept across calls that move bytes, counts that
double as markers, levels that end together, errors that are set, overwritten or
ignored, items read although a call did not write them, and the boundaries of
integer and floating-point formats.

## Modules

| Module | Models | Correspondence |
|---|---|---|
| `DCborItems` | what each `add...()` call hands to `putByte()` | one operator per call, bytes as numbers |
| `DCborBuffer` | `lib/d-cbor.c` on `CBOR_BUFFER` | `length`, `pos`, `data` are the fields; `call` and `k` are the call running and how far it is, so a step is one `putByte()`; `ins` has the locals of `insertArray()` |
| `BoundedStream` | abstract: calls are all or nothing, until full for good | implemented by `DCborBuffer` |
| `DCborBufferProofs` | theorems about `DCborBuffer`, and that it implements `BoundedStream` | |
| `Words` | 64-bit words as sets of bit positions | shifts, masks, bytes |
| `CborHead` | the loops of `encodeTagAndN()`, `QCBOREncode_EncodeHead()`, `DecodeHead()` at 64 bits | one iteration is a step; `EncodeHead` and `DCborItems` elsewhere rest on what is checked here |
| `CborHeadProofs` | theorems about `CborHead` | |
| `CborFloat` | `addDouble()` in both builds, `IEEE754_DoubleToSmallest()`, `IEEE754_FloatToSmallest()`, `IEEE754_HalfToDouble()` | bit by bit; the reference is a sign and the set of powers of two a number is the sum of |
| `CborFloatProofs` | theorems about `CborFloat` | |
| `QcborEncode` | `qcbor_encode.c` with `UsefulOutBuf` | `data`, `err`, `nesting` (the levels up to `pCurrentNesting`), `uError`; an output byte is a token, the first byte of a head has its type and argument |
| `NestedItems` | abstract: each open level collects its items apart | implemented by `QcborEncode` |
| `QcborEncodeProofs` | theorems about `QcborEncode`: that it implements `NestedItems`, and that what it finishes is well-formed | |
| `CborTree` | the CBOR grammar: tokens, items, walks and scopes of a tree | reference only |
| `ItemCursor` | abstract: a cursor on a tree that can be confined to an item | implemented by `QcborDecode` |
| `QcborDecode` | `qcbor_decode.c` and the input buffer of UsefulBuf | `dec` is the context: `cursor`, `len`, `levels`, `cur` (`pCurrent`), `bnd` (`pCurrentBounded`, -1 for NULL), `cache`, `err`, `mapped`; C functions are operators from a context to a context, calls are actions |
| `UsefulBuf` | `UsefulOutBuf` with storage and without, `UsefulInputBuf`, copies | memory is a function on cells, a pointer an offset; a 32-bit number takes one cell |
| `MemPool` | the pool of the decoder | its two numbers lie in the first `Header` cells of the memory and are read and written through `UsefulBuf`, as in the code |
| `QcborStrings` | `QCBORDecode_GetNextFullString()`, `MemPool`, and an application that writes what it got to an `UsefulOutBuf` | one chunk is a step; `mem` is the pool, `full` is `FullString`, `got` has the strings the caller holds |
| `QcborStringsProofs` | theorems about `QcborStrings` | |
| `QcborNumbers` | the conversions of numbers | pure operators with `W` bits in an integer and `ByteBits` in a byte of a big number; a double is a number of halves |
| `QcborTags` | the inline adders of `qcbor_encode.h`; tag content and tag requirements of the decoder | tokens in, items out; one operator per function |
| `QcborValues` | a writer of a map and a reader with the getters | `pos` is the reader's cursor, `err` is `uLastError`; a call of a getter is a step |
| `QcborValuesProofs` | theorems about `QcborValues` | |
| `Sha512` | `sha512_init()`, `sha512_update()`, `sha512_final()` | `length`, `curlen`, `buf` are the context; `fed` is what `sha512_compress()` was given; a round of the loop is a step |
| `Sha512Proofs` | theorems about `Sha512` | |
| `FieldElement` | `fe.c` | limbs of two alternating sizes; products, carries, folds, the chains of powers as data |
| `Scalar` | `sc.c` | digits, the folds by the order's low part, the carries in their order |
| `GroupElement` | `ge.c`, and the table of `precomp_data.h` | the representations of a point, the recoded digits, the loops over them; the group on plain numbers comes first, as the reference |
| `Ed25519` | `keypair.c`, `add_scalar.c`, `sign.c`, `verify.c`, `key_exchange.c` | one call is a step; `keys`, `signed`, `verdict`, `shared` are what callers hold |
| `CsfSignature` | application, `signBuffer()`, a channel, `csfVerifier()` | one step per call of either; the buffer has a token per head or string; `After` passes over items as the decoder does |
| `CsfSignatureProofs` | theorems about `CsfSignature` | |
| `MC...` | the instances | |

`CsfSignature` composes writing and reading. It uses the all-or-nothing view of
the writer that `DCborBuffer` justifies and the cursor of bounded mode, with the
movement by a search that `QcborDecode` shows. `QcborEncode`, `CborHead` and
`DCborItems` share the notion of a head: `CborHead` establishes it at full width,
the others use small numbers. `QcborStrings` composes the string code of the
decoder with `MemPool` and `UsefulBuf`, `QcborValues` the adders of the encoder
with the getters of the decoder, and `Ed25519` the layers from limbs to calls;
its hash is a constant function, and `Sha512` is what computes one.

Abstractions worth knowing:

- The decoder's input is a sequence of tokens (a head with the bytes of its
  string); an offset is a token number. `bstr` is followed by its content, so
  wrapped CBOR is read from the same sequence, as in the code.
- `QcborDecode` counts have `CountBits` bits instead of 16, so the limits are
  met by small arrays. `Count()` wraps as `uint16_t` does.
- A C local read before it was assigned (`ConsumeItem()`) is a choice of the
  smallest and the largest level. A call that loops for ever, or reads in front
  of `pLevels[0]`, answers `never` or `undefined` and is the last one.
- `CborFloat` has the conversion of a signalling NaN by a cast leave a NaN; which
  one is the processor's choice and not used.
- For INT64_MIN the C expression `-nNum - 1` in `QCBOREncode_AddInt64()`
  overflows; the model has the value the builds compute.
- The verifier is modelled with its assertions in effect (no `NDEBUG`), and
  without the values `main()` reads before it calls `csfVerifier()`.
- In `CsfSignature` a signature is the content it was made for.
- `QcborNumbers` counts in halves so that doubles with a fraction are integers of
  the model; the powers of ten and two are exact, where `pow()` is not asked for
  more bits than a double has.
- `Ed25519` is the code's with other numbers: the prime 2^15 - 19 in two limbs of 8
  and 7 bits where the code has 2^255 - 19 in ten of 26 and 25, the same fold of 19,
  a base point of order 4127 = 2^12 + 31 where the code has 2^252 + ..., three
  digits of 4 bits where it has twelve of 21. The cofactor is 8 in both. A digit of
  a hash lies in one half of it; in `sc.c` digit 12 has bits of both (`LoadHash`).
- In `Sha512` the compression function is not looked into. Its state is a function
  of the bytes it was given, which is what `fed` keeps.

## Runs

Every number below is a bound of a cfg or an MC module. `CHECK_DEADLOCK FALSE`
stands where a system really stops: a client or application that has finished, a
decoder call that never returns.

| Run | Shows |
|---|---|
| `dcbor_calls` | Six calls of 0 to 3 bytes and array heads of one and two bytes on a buffer of 5, up to 5 bytes asked for before the last call, two nested emulated arrays. Overflow falls on every byte of every call and on the inserted head. `CompleteOrFlagged`, `OverflowIsFinal`, `MovesInBounds`, `SavedBytesStay`, and `ImplementsStream`: the byte-wise code implements `BoundedStream`. |
| `cborhead_words` | Every run of ones in 64 bits alone and with one more bit, all numbers below 64, complements: each boundary of each form and its neighbours. Heads are the `Shortest`, both encoders write the same and the decoder returns the value (`RoundTrip`), the loops end (`EveryCallReturns`). |
| `cborfloat_values` | Doubles and singles at each exponent where a format begins or ends, against significands ending at, before and after each boundary, NaNs, infinities and zeroes of both signs: `Lossless`, `Deterministic` (both builds write the same), `DecoderReturnsIt`. |
| `qcbor_calls` | All sequences of encoder calls, nesting 2, 4 items per level, into a buffer of 4 tokens up to the first error and into one of 2 with three calls after the one that met it: `FinishedIsWellFormed`, `WrappedIsContent`, `OverflowNeverSucceeds`, `StartsInOrder` (also after errors), `ImplementsNested`. |
| `qcbor_errors_kept` | A documented property the code does not have, see below. |
| `csf_messages` | Messages with up to two application entries, buffers of every size from 1 to 15 tokens and 25, up to two damaged tokens: `UndamagedIsAccepted`, `AcceptedIsSigned`, and `SignedOrUntouched`: what is signed is a whole message, and after an overflow no byte of the message is patched. |
| `decode_trees` | All decoder calls on all trees of up to 3 tokens and 11 larger ones (4-entry maps of definite and indefinite length, duplicate labels, levels that all end at once, wrapped CBOR in wrapped CBOR, tags, labels that are refused), in the three modes: `ImplementsItemCursor`, `WalkInsideBounded`. |
| `decode_tokens` | All sequences of up to 4 of 9 tokens, and all prefixes of the larger trees, walked, peeked, entered and finished: `FinishMeansWellFormed`, `TagsAsEncoded`. |
| `strings_pool` | All inputs of up to 3 tokens and six longer ones, pools of 1, 2, 4, 5 and 7 cells of which 2 are the pool's own, up to 3 strings held, one rewind, two strings written to an output of 3 cells or none, and a `size_t` that ends at 4: `StringsIntact`, `FailureFrees`, `FitsUnlessEmpty`, `OutIsWhatWasMeant`. |
| `values_calls` | Some 400 values, each added with its tag and as borrowed content, some inside of a tag the decoder does not know, read by position or by label with every getter, tag requirement and option, and a second call with what the first left behind: `NumbersAreRight`, `ContentsAreGot`, `FractionsAreGot`, and `EntryByEntry`: a call that goes by position takes the next entry, fractions of three tokens included, or fails. Integers have 6 bits and bytes 2, so a big number of three bytes is an integer's width and one of four is more. |
| `sha512_pieces` | Messages of up to 36 bytes in blocks of 5, cut into pieces anywhere and ended anywhere; the counter of bits is one byte and comes round after 32 bytes: `NothingLost`, `PaddedRight`, `UpdateEnds`. |
| `ed25519_calls` | Up to four calls of two parties in any order, two seeds, two scalars, two messages; verification of each signature and of altered ones, with S beyond the order too: `FieldRight` (on 16 x 16 samples around each boundary), `KeysMatch`, `SignaturesHold`, `VerdictsRight`, `SecretsAgree`. |

Why the bounds are enough: the code has no constants other than the widths and
limits that are parameters here, and each bound is past the point where
everything that can happen at a limit has happened: buffers fill at every byte,
both nesting limits and item limits are passed in the encoder's run, and three
levels are the fewest at which one level can end while an outer one is bounded
and a middle one is not. Numbers are checked at each boundary and not in between,
where the code does not branch. A pool of 7 cells holds the longest string of the
inputs and not two of them; a chunk that is empty, the last to fit and the first
not to fit are all there. A block of 5 bytes has two positions after which the
padding spills and three after which it does not.

The small prime of `ed25519_calls` keeps what makes the code's arithmetic subtle:
limbs of two sizes, so that products of odd limbs are doubled; limbs that are
negative or too large by a sum before the next carry; a fold of 19 at the top; an
order with a low part that is subtracted and added by the folds of `sc_reduce()`;
windows of four bits with a carry out of the last. It does not show that products
of ten limbs stay within 64 bits, that the numbers in the tables are the right
ones, or anything that depends on the size of the prime. The chains of squarings
of `fe_invert()` and `fe_pow22523()` are data of the model, and `FieldRight` checks
their exponents for the real prime too.

Unrestricted use of the decoder is not what `decode_trees` and `decode_tokens`
check. With `Careful = TRUE` the caller walks on only while the cursor is where
it left it (not after a search, after an exit from something entered by label, or
after an exit that read the break of what is around it, until it rewinds, exits
or enters by label), enters only from the level it entered last, exits only what
it entered and does not reset unrecoverable errors. The next section says what
happens otherwise. VGetNextConsume, Exit and searches on input that is cut off
are left out of `decode_tokens` for the reason `QcborDecode_cutoff.cfg` shows.

Fairness: `CborHead` has weak fairness of its next step and `Sha512` of the round
of the loop in `sha512_update()`. These loops are sequential code that runs until
it returns, and `EveryCallReturns` and `UpdateEnds` are about their ends; a caller
of SHA-512 owes nothing. A call of the decoder that does not return is a state of the model
(an answer of `never`), so no fairness is needed to speak of it. The other
modules have no progress of their own to promise: their steps are calls that a
client may or may not make.

## Where the code and its documentation differ

The first is the run `qcbor_errors_kept`, for which `PROJECT.json` quotes the line.
The next five are configurations to run by hand, each of which TLC finds violated:
`tlc -config QcborDecode_moved.cfg MCQcborDecode` and so on, and
`tlc -config QcborValues_mantissa.cfg MCQcborValues`.

- `qcbor_errors_kept`: opening a level overwrites an error that was set, which
  `qcbor_encode.c:189` says cannot be (`qcbor_encode.c:827`).
- `QcborDecode_moved.cfg`: a look-up in a map moves the offset of the walk and not its
  counts (`qcbor_decode.c:3092`); `qcbor_spiffy_decode.h:764` says the position
  does not change.
- `QcborDecode_cutoff.cfg`: on input that is cut off, the loop of `ConsumeItem()` reads an
  item nothing wrote to (`qcbor_decode.c:2777`). What is there decides whether an
  exit succeeds, and Finish after it, or never returns.
- `QcborDecode_past.cfg`: after an exit that read the break of the outer array, the walk
  goes on behind that array, which was not exited (`qcbor_decode.c:3526`).
- `QcborDecode_tags.cfg`: the error of a tag number that has no place is forgotten when
  another tag follows (`qcbor_decode.c:1482`); the comment below that line says
  that it will continue to be an error.
- `QcborValues_mantissa.cfg`: an integer mantissa that ends in zero bytes loses
  them when it is turned into a big number, and for 0 the loop does not end
  (`qcbor_decode.c:5410`); `qcbor_spiffy_decode.h:1246` promises the conversion.
  With `OptionIsAsDocumented` in its place: the conversions to integers of a big float
  whose mantissa is a big number ask for the option of decimal fractions
  (`qcbor_decode.c:4619`, `:4636`, `:4956`, `:4973`), where
  `qcbor_spiffy_decode.h:180` has `QCBOR_CONVERT_TYPE_BIGFLOAT` for big floats.

The others were met while modelling. The definitions have them as the code does;
no run is about them, and the instances of the runs stay clear of them:

- `IEEE754_FloatToSmallest()` keeps -0.0 in 4 bytes, because only the pattern 0
  is taken for zero (`ieee754.c:434`).
- After an error `QCBOREncode_CancelBstrWrap()` at the top level moves the level
  pointer in front of `pArrays[0]` (`qcbor_encode.c:905`). The model stops there.
- `QCBORDecode_ExitBstrWrapped()` passes its check with nothing entered once
  something was entered and exited: level 0 has the type of a byte string
  (`qcbor_decode.c:3733`). The model answers `undefined`.
- `DecodeNesting_LevelUpBounded()` tests the level of the walk and not the one it
  came to, so what was entered inside of something merely walked into does not
  return to the right bounded level (`qcbor_decode.c:404`).
- `QCBOR_COUNT_INDICATES_ZERO_LENGTH` is `QCBOR_MAX_ITEMS_IN_ARRAY`: an array of
  65534 items is empty when entered (`qcbor_private.h:231`).
- An empty byte string at the end of the input cannot be entered
  (`qcbor_decode.c:3640`).
- A map of indefinite length is always too long to be read as an array
  (`qcbor_decode.c:1589`).
- A search passes over a value that is not well-formed if another label was asked
  for (`qcbor_decode.c:3007`).
- With the allocate-all option an empty string, and without it a string whose
  first chunk is empty, asks the allocator for 0 bytes, which it takes for a
  destruct: `QCBOR_ERR_STRING_ALLOCATE` while there is room
  (`qcbor_decode.c:1310`). `FitsUnlessEmpty` has the exception in its name.
- The `...ConvertAll()` functions take a `QCBOR_ERR_UNEXPECTED_TYPE` from an earlier
  call for the one of their own first attempt and convert an item nobody read
  (`qcbor_decode.c:4673`).
- An untagged array that is a fraction is taken for a big float by a getter that
  converts. A negative big number as the mantissa of a decimal fraction becomes a
  double that is one unit off.
- `QCBORDecode_GetDoubleConvert()` succeeds without writing the double if the item is
  a floating-point number and the option for it is not given.
- `QCBORDecode_GetDecimalFractionInMapN()` and `QCBORDecode_GetDecimalFractionInMapSZ()`
  go on with the item although the search failed (`qcbor_decode.c:5594`, `:5622`); the
  other getters of fractions in a map look at `uLastError` first.
- `sha512_update()` answers 1 for a null pointer and `sha512_final()` for a full
  buffer; the callers look at neither.
- A signature whose S is beyond the order and below 2^253 is accepted
  (`verify.c`: only the three highest bits are tested). `VerdictsRight` says just that.
- A compressed public key with x = 0 and the sign bit set is taken for the point
  with x = 0 (`ge.c`, `ge_frombytes_negate_vartime()`); the equation of `VerdictsRight`
  has no point for it. No pair the runs make has such a key.
- `ed25519_add_scalar()` does not look at whether the public key could be decoded;
  on one that is no point it goes on with memory nothing wrote to. The model leaves
  such keys out.
- After `ed25519_add_scalar()` the private key is no longer clamped, and
  `ed25519_key_exchange()` clamps it again: two parties then need not get one
  secret. `SecretsAgree` speaks of keys as they were created.

## Proofs

Eight modules hold theorems and their lemmas, each for every value of the constants, from the
assumptions named in the module they are about and from nothing else.

| Theorem | States |
|---|---|
| `DCborBufferProofs.TypeCorrect` | `Spec => []TypeOK`: `pos` never leaves the buffer |
| `.Completeness` | `Spec => []CompleteOrFlagged` |
| `.OverflowExact` | `Spec => []OverflowReported`: `length` is 0 if and only if more was asked for than fits |
| `.MovesSafe` | `Spec => []MovesInBounds` |
| `.OverflowSticky` | `Spec => OverflowIsFinal` |
| `.SavedStay` | `Spec => SavedBytesStay` |
| `.Implements` | `Spec => ImplementsStream`: `DCborBuffer` implements `BoundedStream` |
| `CborHeadProofs.AlwaysShortest` | `Spec => []Shortest`, for every 64-bit integer |
| `.AlwaysRoundTrip` | `Spec => []RoundTrip`: for every integer and float both encoders write the same and the decoder reads it back |
| `CborFloatProofs.NothingLost` | `Spec => []Lossless`, for every double and every 32-bit number |
| `.ShortestFormat` | `Spec => []Deterministic`: no shorter format has the number, and both builds agree |
| `.ReadBack` | `Spec => []DecoderReturnsIt` |
| `QcborEncodeProofs.StartsRight` | `Spec => []StartsInOrder`, after errors too |
| `.OverflowReported` | `Spec => []OverflowNeverSucceeds` |
| `.WrappedRight` | `Spec => WrappedIsContent` |
| `.EncodesNested` | `Spec => ImplementsNested`: `QcborEncode` implements `NestedItems` |
| `.FinishedRight` | `Spec => []FinishedIsWellFormed` |
| `QcborStringsProofs.PoolIsOK` | `Spec => []PoolOK`: the free offset stays in the pool |
| `.StringsStayIntact` | `Spec => []StringsIntact` |
| `.FailuresFree` | `Spec => []FailureFrees` |
| `.OnlyLongOrEmptyRefused` | `Spec => []FitsUnlessEmpty` |
| `.AsMeant` | `Spec => []OutIsWhatWasMeant` |
| `CsfSignatureProofs.SignedRight` | `Spec => []SignedOrUntouched` |
| `.AcceptedRight` | `Spec => []AcceptedIsSigned` |
| `.UndamagedRight` | `Spec => []UndamagedIsAccepted` |
| `QcborValuesProofs.Invariant` | `Spec => []IInv`: the last answer is right for the entry it was for |
| `.NumbersStayRight` | `Spec => []NumbersAreRight` |
| `.ContentsStayGot` | `Spec => []ContentsAreGot` |
| `.FractionsStayGot` | `Spec => []FractionsAreGot` |
| `.EntriesInOrder` | `Spec => EntryByEntry` |
| `Sha512Proofs.NothingIsLost` | `Spec => []NothingLost` |
| `.PaddedRightly` | `Spec => []PaddedRight` |

**D-CBOR buffer.** `CompleteOrFlagged` speaks of calls that have returned, so it is
not inductive. The invariant `IInv`, shown by the theorem `Invariance`, adds
`Progress` (in the middle of a call the buffer has the stream up to byte `k` of the
call and the call has the rest), `Overflowed` (with `length` 0 more was asked for
than fits), `SavedInside` (saved positions are not ahead of `pos`) and `Inserting`
(where the head of a running `insertArray()` lies, and that it is one to five bytes).
There is a lemma for each action. The hardest step is the three `memmove()` calls:
`Rotation` shows that they rotate the head to the front of the elements, and
`DataRotation` that the history is rotated in the same way. `ArrayHead` bounds the
head from the parameter of `insertArray()` being an `int`.

**The refinement.** The client's view, `Committed`, is what `data` holds without the
bytes of a running call. `View` says that this is the stream up to that call, and
follows from `IInv`; so a step that begins a call, puts a byte that is not the last
or saves a position is not seen (`SameView`). The step that is seen needs to know that
the bytes of the call end the stream, and which calls may run: that is `Running`,
which `CallsInOrder` shows to hold always, together with `SavedInOrder` (positions
saved later are not in front of earlier ones, which is why `SavedStay` holds for
nested arrays).
A byte that completes a call maps to `AppendBytes`, one that does not fit to
`Overflow`, and the `memmove()` calls to `InsertHead`, where `Inserted` and `Rotation`
describe both sides index by index.

**Heads.** The invariant, `IInv` of `CborHeadProofs`, has a conjunct for each place
of the program: in a loop that writes, `arg` is the argument shifted by what was
written, and in one that reads, `decoded` is the argument shifted by what is left.
In the loop of D-CBOR `Narrowed` says that `modifier` and `length` go together and
that no bit of the argument lies above `2 * length`; when it ends, a bit lies in the
upper half or there is no half left (`Announced`), which is why the width is the
shortest, and why the byte loop of QCBOR stops after the same byte.
A word is a set of bit positions, so 64 bits are no harder than 8.

**Floating point.** The invariant says little, that what each encoder hands on is the
number that was given (`Keeps`) and came from its conversion; the work is in the
conversions. A pattern is taken apart into sign, exponent and significand and put
together again (`PartsOf`, `Packed`), for which an exponent has to be the sum of its
bits: `ValueIsSum` and `BitsSum` show it of up to eleven. `Fits(W, f)` says that the
powers of two in `W` make a number of the format `f`, and `RepresentableIs` that this
is what the reference says with the first and the last of them. A format and a
longer one (`Wider`) are so far apart that what is subnormal in the longer is no
number of the shorter (`UnfitSmall`), and the numbers of the shorter are normal in
the longer (`FitsWider`); for this the biases of the three formats are needed. `NarrowIs`
is the heart: the tests `addDouble()` makes of exponent and dropped bits, and the shift
out and back of a subnormal, succeed if and only if the number is one of the shorter
format, and then give its pattern. So both narrowings, the build with the
cast (`FloatCast`) and the build without (`IntegersOnly`) choose the same item (`Shortest`).
`FitsNormalIs` does the same for QCBOR, which does not go on to subnormals, and
`WidenSubnormal` for the loop that normalises a half. TLC checks `IInv` on the instance of
`cborfloat_values`.

**QCBOR encoder.** `IInv` holds in all states, those after an error included. It says
that the starts of the open levels lie one behind the other inside the output
(`Ordered`, stated of each pair of levels so that no induction over levels is
needed), that the output does not lose its error, and that a level pointer in front of
`pArrays[0]` goes with an error. `InsertWorks` says what an insertion leaves alone
and what is behind its position; `InsertedHead` puts that together for a close.

For the refinement `Whole` adds what holds while no call has met an error: the
outermost level starts at 0, and a level that encloses another has it counted.
The second is what makes `Nesting_Decrement()` after a cancelled wrap safe, whose
comment says that no check is needed (`qcbor_encode.c:120`). `View` is an output
and a stack seen as levels with items of their own; `AppendedView`, `OpenedView` and
`ClosedView` say how it changes when bytes are appended, a level is opened at the end,
or the innermost level turns into bytes of the one around it. There is a lemma per call,
such as `BufferMaps` and `CancelMaps`. A call that meets an error maps to `Break`. The
abstract module has no positions, so this is where it is shown that heads inserted
into a flat buffer enclose the right bytes.

For `FinishedIsWellFormed` the grammar is read by the fold that defines it, which keeps
a stack of how many items are owed. `Reads(s, c, p)` says that wherever an item may
begin, the bytes `s` are `c` items, and behind them `p` tags that wait for one; it
quantifies over all states of the reader, so that two pieces that are read one after the other are
read as their sum. `Complete` is that with as many items as the level has counted, and
`Readable` says it of each open level: the innermost holds its items, and every
other all but the last, which is the level it is around. The invariant `Sound` is
that the levels are readable while no call met an error and the caller did what is
left to it. A close puts a head with the count in front of a piece that reads as
that many items, which makes one item for the level around it. Because of the quantifier TLC
does not evaluate `Sound`; it checks what follows from it.

That a fold over a joined sequence is the fold of its parts, and other facts about
sequences of any length, need induction. `SetInduction` and `SequenceInduction`
state it of a set in the place of a predicate, and rest on `LeastElement`, which is
proved from the library's fact that the order of the natural numbers is
well-founded. The modules that need these lemmas, or those about sequences that are
joined and cut (`Join`, `Slice`), begin with them.

**Strings.** That strings stay intact is not inductive either: the pool does not know
which strings it gave out. `IInv` adds that the two numbers in front of the pool are
its size and a free offset, that every string that was returned lies between them
and that offset, that the string being put together is the last thing in the pool
and ends at the offset, and that all memory behind `before` belongs to it. A
reallocation then only moves the offset behind a string that ends there, and a free
puts it back to where that string begins. `WriteWorks` to `CopyWorks` say what
`UsefulBuf` and the pool's function do to the cells; `HoldsConcat` and `Untouched`
carry the strings over a write.
`FitsUnlessEmpty` needs `Wanted`: in the loop over chunks, what the call still has to
store and what it has stored are the string. `Wrote` describes both outputs of the
application, the one with storage and the one that only counts: unless an error is
set they have the length of what was meant, and the first its bytes; the one
without storage has an error only if the other has one.

**Signed messages.** Everything rests on passing over items (`After`). `AfterMoved`
says that it depends only on the tokens it passes, and moves with them, `AfterSum`
that `n` items and then `k` are `n + k`. From these follow where the decoder's search arrives
in what the signer wrote. `SignerOK` relates `data` to what is due at each step: all
of it, or after an overflow a beginning of it. `VerifierOK` says what each place
remembered of the message: the map at `signatureMap` with its three entries, the key
map at a label of it, the place before the signature, and that the last read ended
where the message ends. That a signature holds then means that the stripped copy
is what was signed, token by token (`StrippedIsSigned`). The search for the label of
the signature arrives in both at the same place (`SamePlace`), so the CSF map is where
the signer put it, and putting the signature back gives the message that was sent
(`ValidIsSent`). `ReadAsSent` is the other direction: it has the value of each
variable of the verifier, in numbers of tokens behind the application's entries,
for a message nobody changed. `ContentsAssumption` says what an application may write: a
label that is no map and not the label of the signature, and a value that is one
item. Without it the code does not promise anything: a second signature
label makes the search fail.
TLC checks all three invariants on the instance of `csf_messages`.

**Values and tags.** `IInv` is short: the input is what the adders write for the
entries the history has, one behind the other (`Writing`), no call is remembered before the reader has begun
(`Begun`), and the last answer is right for the entry it was for (`LastRight`). All of the work is in a
single step, from a call of the encoder to the answer of a getter, and goes along the
data:

- Tokens. `Written` puts the tokens of an entry at a place of the input that no later
  entry moves; the labels differ, so that a search finds that entry and no other.
- Items. `IsRead(it, a)` says what item `GetNextTagContent()` makes of an entry: which type,
  which value, which tags are left over. The walk over tags is a recursive function on
  the tags there are, at most two; that a fraction takes three tokens, and the token
  behind it is no third element, is part of this. `MantissaTag` and `ContentTag` never
  meet a tag within a fraction but those of its mantissa.
- Numbers. The loops of `Exponentitate10()` and `Exponentitate2()` are folds whose
  result is given in closed form: `Up` is the product with `Pow(b, n)` if no partial
  product was beyond the limit, `Down` the quotient, 0 or an underflow. A partial product
  beyond the limit means that the whole is (products are monotonic), and an
  intermediate quotient of 0 that the whole is 0. `Capped` exponents, with which
  TLC computes the reference, change nothing: beyond `EnoughExp` everything but 0 is out of
  range or below 1. A big number's bytes, read from the front with a limit, are
  its digits' value or a refusal (`UnsignedIs`), leading zeroes and any length
  included. `Recursion` and the lemmas behind it show that the recursive functions
  exist at all, which TLA+ does not give.
- Answers. One lemma for each kind of getter: which tag requirements let an item
  through (`AllowedIs`, `PlainAsInt`), strings, dates and days at the limits of
  `int64_t` (`DatesRight`), the conversions (`Int64Right`, `UInt64Right`, `DoublesRight`), and
  fractions with both kinds of mantissa (`FractionsRight`). `ResultRight` collects them.
- Entries. `EntryByEntry` is about where a call leaves the cursor. `EntryIsTaken` has the
  three cases: one token, a fraction of which the walk takes all three, and an
  untagged fraction, which is an array that is either refused as it is
  (`ArrayIsRefused`) or read to its end.

The assumptions are `WidthAssumption` of `QcborNumbers` (a byte is shorter than an integer
and divides it) and four of `QcborValues`: labels differ; the extra tag is one the decoder has no
meaning for; arguments have the types of the functions' parameters, integers up to
those that another encoder may write; and a call is of one of the modelled getters, with
a Boolean where the code has one.
Big numbers have any length. The proof found a flaw of the model, not of the code: in
`CheckTagRequirement` and in the two functions that process a mantissa the arms of a
`CASE` overlapped. TLC takes the first arm, as the `switch` and the early returns do,
but the meaning of `CASE` is any of them; they are `IF` now. TLC checks `IInv` on the
instance of `values_calls`.

**SHA-512.** `NothingLost` needs to know that the buffer is never full between rounds,
that the counter is the length of what was compressed modulo its limit, and that
what was passed is a beginning of the message; `PaddedRight` needs all of it of the
moment before `sha512_final()`. `IInv` is the conjunction, in `sha512_update()` too.
`FillFits` bounds what is copied into the buffer, `WholeBlocks` and `CounterAdds` do
the arithmetic of blocks and of a counter that comes round, and `PaddingIsRight`
shows for both cases of `sha512_final()` that the bytes are the message and its
padding.

Only model-checked, and why:

- Liveness (`EveryCallReturns`, `UpdateEnds`), which the prover has no rules for.
- `QcborDecode`, which `CborTree`'s recursion over items defines what is right for,
  and which recurses over levels itself: `RECURSIVE` operators are out of reach.
- `Ed25519` and the modules under it, which recurse over limbs, digits and bits; and
  what they say depends on the group law of a curve.

## Not modelled

- Of Ed25519: `ed25519_create_seed()`, which asks the operating system; the widths of
  the real products and the numbers in the tables, out of TLC's reach.
- Of SHA-512: the compression function, straight-line arithmetic on 64-bit words.
- Of the QCBOR decoder: the search with a callback, the count that
  `QCBORDecode_PartialFinish()` returns, the limits on the size of the input.
- Of UsefulBuf: hexadecimal output, comparison, magic numbers.
- Printing, the demos' own output, `qcbor_err_to_str.c` and the tests, which were read
  for what they say of the rest.

## Plan

Written, in this order, the encoder the repository is named after first:
`DCborItems`, `DCborBuffer`, `BoundedStream`, `DCborBufferProofs`; `Words`,
`CborHead`, `CborHeadProofs`; `CborFloat`, `CborFloatProofs`; `QcborEncode`, `NestedItems`,
`QcborEncodeProofs`; `CsfSignature`, `CsfSignatureProofs`;
`CborTree`, `ItemCursor`, `QcborDecode`; `Sha512`, `Sha512Proofs`; `UsefulBuf`,
`MemPool`, `QcborStrings`, `QcborStringsProofs`; `QcborNumbers`, `QcborTags`,
`QcborValues`, `QcborValuesProofs`; `FieldElement`, `Scalar`, `GroupElement`, `Ed25519`.

Next:

1. The decoder at its nesting limit, callbacks of a search, and
   `QCBORDecode_PartialFinish()`'s count.
2. A composition of `Ed25519` with `Sha512` and `CsfSignature` in which a signature
   is not ideal.
