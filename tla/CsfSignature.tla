---------------------------- MODULE CsfSignature ----------------------------
(***************************************************************************)
(* A signed message from signBuffer() through a channel to csfVerifier().   *)
(*                                                                          *)
(* The buffer holds one token per CBOR head or string.  The signer writes   *)
(* with the D-CBOR calls, whose overflow DCborBuffer models byte by byte;   *)
(* the verifier reads with QCBOR's bounded mode, of which the position of   *)
(* the cursor and the error are kept.  Ed25519 is ideal: a signature is the *)
(* content it was made for.                                                 *)
(***************************************************************************)
EXTENDS Integers, Sequences

CONSTANTS
  Lengths,     \* sizes of the signer's buffer, in tokens
  Contents,    \* what the application writes: sequences of map entries
  Texts,       \* the strings in them
  MaxDamage    \* bound: tokens changed on the way

ASSUME LengthsAssumption == Lengths \subseteq Nat

Num(n) == <<"int", n>>
Map(n) == <<"map", n>>
Str(x) == <<"str", x, "">>
Signature(content) == <<"str", "signature", content, "">>

Strings == Texts \cup {"key", "otherKey", "text"}

\* What an application writes.
Token == ({"int"} \X Int) \cup ({"map"} \X Nat) \cup {Str(x) : x \in Strings}

\* Items inside of the item a token begins.
Inside(token) == IF token[1] = "map" THEN 2 * token[2] ELSE 0

\* csf-signer.c:22-34, csf-verifier.c:17-29
ALGORITHM_LABEL     == 1
PUBLIC_KEY_LABEL    == 4
SIGNATURE_LABEL     == 6
KEY_TYPE_LABEL      == 1
OKP_X_LABEL         == -2
OKP_CRV_LABEL       == -1
KEY_TYPE_OKP        == 1
EDDSA_ALG           == -8
CRV_ED25519         == 6
APP_SIGNATURE_LABEL == -1

VARIABLES
  pc,            \* the step that runs next
  entries,       \* what the application writes
  data,          \* CBOR_BUFFER: data up to pos
  length,        \* CBOR_BUFFER: length
  signatureMap,  \* signer: position of the CSF map; verifier: the same
  signature,     \* signer: uint8_t signature[64]
  message,       \* the verifier's buffer, up to UB.len
  original,      \* the buffer as it was sent, and as it was received
  damage,        \* tokens changed on the way
  cursor,        \* InBuf.cursor
  map,           \* entered map: first entry and number of entries
  outerMap,      \* the map around it
  uLastError,    \* QCBOR's error is set
  got,           \* algorithm, x and signature as far as they were read
  beforeSignature

signer   == <<entries, data, length, signature>>
verifier == <<message, original, damage, cursor, map, outerMap, uLastError, got, beforeSignature>>
vars     == <<pc, signatureMap, signer, verifier>>

-----------------------------------------------------------------------------
(* The signer                                                              *)

\* Calls that write these tokens: what does not fit sets length to 0, for good.
Put(tokens) ==
  LET room == IF length = 0 THEN 0 ELSE length - Len(data)
  IN  IF Len(tokens) <= room
      THEN data' = data \o tokens /\ UNCHANGED length
      ELSE data' = data \o SubSeq(tokens, 1, room) /\ length' = 0

Goto(step) == pc' = step

Flatten(es) ==
  LET upTo[n \in 0..Len(es)] ==
        IF n = 0 THEN <<>> ELSE upTo[n - 1] \o <<es[n].label>> \o es[n].value
  IN  upTo[Len(es)]

\* main() up to its call of signBuffer(); the map's size counts the signature.
WriteApplication ==
  /\ pc = "application"
  /\ Put(<<Map(Len(entries) + 1)>> \o Flatten(entries))
  /\ Goto("key")
  /\ UNCHANGED <<entries, signatureMap, signature, verifier>>

\* Mutant of WriteKey: the position is taken before the label is written.
WriteKeyBehind ==
  /\ pc = "key"
  /\ Put(<<Num(APP_SIGNATURE_LABEL)>>)
  /\ signatureMap' = Len(data)
  /\ Goto("csf")
  /\ UNCHANGED <<entries, signature, verifier>>

\* addInt(key); signatureMap = pos, before the map is added.
WriteKey ==
  /\ pc = "key"
  /\ Put(<<Num(APP_SIGNATURE_LABEL)>>)
  /\ signatureMap' = Len(data')
  /\ Goto("csf")
  /\ UNCHANGED <<entries, signature, verifier>>

\* Two of the three elements of the signature map.
CsfMap == <<Map(2), Num(ALGORITHM_LABEL), Num(EDDSA_ALG),
            Num(PUBLIC_KEY_LABEL), Map(3),
              Num(KEY_TYPE_LABEL), Num(KEY_TYPE_OKP),
              Num(OKP_CRV_LABEL), Num(CRV_ED25519),
              Num(OKP_X_LABEL), Str("key")>>

WriteCsfMap ==
  /\ pc = "csf"
  /\ Put(CsfMap)
  /\ Goto("sign")
  /\ UNCHANGED <<entries, signatureMap, signature, verifier>>

\* ed25519_sign() over everything up to pos.
Sign ==
  /\ pc = "sign"
  /\ signature' = Signature(data)
  /\ Goto("add")
  /\ UNCHANGED <<entries, data, length, signatureMap, verifier>>

AddSignature ==
  /\ pc = "add"
  /\ Put(<<Num(SIGNATURE_LABEL), signature>>)
  /\ Goto("count")
  /\ UNCHANGED <<entries, signatureMap, signature, verifier>>

\* if (cborBuffer->length) cborBuffer->data[signatureMap]++
CountSignature ==
  /\ pc = "count"
  /\ data' = IF length = 0 THEN data
             ELSE [data EXCEPT ![signatureMap + 1] = Map(@[2] + 1)]
  /\ Goto("send")
  /\ UNCHANGED <<entries, length, signatureMap, signature, verifier>>

-----------------------------------------------------------------------------
(* The channel, and the verifier's buffer                                  *)

\* The application sends what it wrote unless length tells of an overflow.
Send ==
  /\ pc = "send"
  /\ length # 0
  /\ message' = data
  /\ original' = [sent |-> data, received |-> data]
  /\ Goto("enter")
  /\ UNCHANGED <<signatureMap, signer, damage, cursor, map, outerMap, uLastError, got,
                 beforeSignature>>

\* What a token may become on the way: an item of no other depth.
Changed(token) ==
  IF token[1] = "map" THEN {Map(n) : n \in (0..4) \ {token[2]}}
  ELSE {Num(1), Num(4), Num(6), Num(-8), Str("text"), Str("otherKey"), Signature(<<>>)}

\* One token of the message is another, or its end is lost or something follows.
Damage ==
  /\ pc = "enter"
  /\ damage < MaxDamage
  /\ damage' = damage + 1
  /\ \/ \E p \in 1..Len(message) :
          \E t \in Changed(message[p]) : message' = [message EXCEPT ![p] = t]
     \/ \E p \in 0..(Len(message) - 1) : message' = SubSeq(message, 1, p)
     \/ message' = message \o <<Num(9), Num(9)>>
  /\ original' = [original EXCEPT !.received = message']
  /\ UNCHANGED <<pc, signatureMap, signer, cursor, map, outerMap, uLastError, got, beforeSignature>>

-----------------------------------------------------------------------------
(* QCBOR's bounded mode                                                    *)

\* Position behind n items from p on, or 0 when the input ends before.
After(m, p, n) ==
  LET after[q \in 1..(Len(m) + 1)] ==
        [k \in Nat |-> IF k = 0 THEN q
                       ELSE IF q > Len(m) THEN 0
                       ELSE after[q + 1][k - 1 + Inside(m[q])]]
  IN  after[p][n]

IsNum(token, n) == token[1] = "int" /\ token[2] = n

\* An entry is a label and one item; the signature's label is not used twice.
ASSUME ContentsAssumption ==
  /\ Contents \subseteq Seq([label : Token, value : Seq(Token)])
  /\ \A es \in Contents : \A i \in 1..Len(es) :
       /\ es[i].label[1] # "map" /\ ~IsNum(es[i].label, APP_SIGNATURE_LABEL)
       /\ After(es[i].value, 1, 1) = Len(es[i].value) + 1

\* MapSearch(): all entries are passed, found is where the value with the label
\* is, end the position after the map; not ok if the map does not end, or has the
\* label twice, or a map for a label.
MapSearch(m, where, label) ==
  LET labels == {After(m, where.first, 2 * i) : i \in 0..(where.count - 1)}
      hits   == {p \in labels \ {0} : p <= Len(m) /\ IsNum(m[p], label)}
      end    == After(m, where.first, 2 * where.count)
  IN  [ok    |-> /\ end # 0
                 /\ \A p, q \in hits : p = q
                 /\ \A p \in labels : m[p][1] # "map",
       found |-> IF hits = {} THEN 0 ELSE (CHOOSE p \in hits : TRUE) + 1,
       end   |-> end]

Found(where, label, kind) ==
  LET s == MapSearch(message, where, label)
  IN  /\ ~uLastError /\ s.ok /\ s.found # 0
      /\ message[s.found][1] = kind

\* QCBORDecode_EnterMapFromMapN(): the cursor is left at the first entry.
Enter(where, label) ==
  LET p == MapSearch(message, where, label).found
  IN  IF Found(where, label, "map")
      THEN /\ map' = [first |-> p + 1, count |-> message[p][2]]
           /\ outerMap' = where
           /\ cursor' = p + 1
           /\ UNCHANGED uLastError
      ELSE uLastError' = TRUE /\ UNCHANGED <<map, outerMap, cursor>>

\* QCBORDecode_GetInt64InMapN() and GetByteStringInMapN(): the search leaves the
\* cursor behind the map; on an error nothing is assigned.
Get(label, kind, name) ==
  LET s == MapSearch(message, map, label)
  IN  IF Found(map, label, kind)
      THEN /\ got' = [got EXCEPT ![name] = message[s.found]]
           /\ cursor' = s.end
           /\ UNCHANGED uLastError
      ELSE uLastError' = TRUE /\ UNCHANGED <<got, cursor>>

Nowhere == [first |-> 1, count |-> 0]
NotRead == <<"not read">>

\* An assertion on a variable a failed Get left unassigned may hold or not.
Expect(holds, next) ==
  IF uLastError' THEN pc' \in {next, "abort"}
  ELSE pc' = IF holds THEN next ELSE "abort"

-----------------------------------------------------------------------------
(* The verifier                                                            *)

\* main() enters the outer map, then QCBORDecode_EnterMapFromMapN(key).
EnterSignatureMap ==
  /\ pc = "enter"
  /\ IF message # <<>> /\ message[1][1] = "map"
     THEN Enter([first |-> 2, count |-> message[1][2]], APP_SIGNATURE_LABEL)
     ELSE uLastError' = TRUE /\ UNCHANGED <<map, outerMap, cursor>>
  /\ signatureMap' = cursor' - 1
  /\ Goto("algorithm")
  /\ UNCHANGED <<signer, message, original, damage, got, beforeSignature>>

GetAlgorithm ==
  /\ pc = "algorithm"
  /\ Get(ALGORITHM_LABEL, "int", "algorithm")
  /\ Expect(got'.algorithm = Num(EDDSA_ALG), "publicKey")
  /\ UNCHANGED <<signatureMap, signer, message, original, damage, map, outerMap, beforeSignature>>

EnterPublicKey ==
  /\ pc = "publicKey"
  /\ Enter(map, PUBLIC_KEY_LABEL)
  /\ Goto("keyType")
  /\ UNCHANGED <<signatureMap, signer, message, original, damage, got, beforeSignature>>

GetKeyType ==
  /\ pc = "keyType"
  /\ Get(KEY_TYPE_LABEL, "int", "keyType")
  /\ Expect(got'.keyType = Num(KEY_TYPE_OKP), "curve")
  /\ UNCHANGED <<signatureMap, signer, message, original, damage, map, outerMap, beforeSignature>>

GetCurve ==
  /\ pc = "curve"
  /\ Get(OKP_CRV_LABEL, "int", "curveId")
  /\ Expect(got'.curveId = Num(CRV_ED25519), "x")
  /\ UNCHANGED <<signatureMap, signer, message, original, damage, map, outerMap, beforeSignature>>

\* assert(x.len == 32)
GetX ==
  /\ pc = "x"
  /\ Get(OKP_X_LABEL, "str", "x")
  /\ Expect(got'.x \in {Str("key"), Str("otherKey")}, "exitKey")
  /\ UNCHANGED <<signatureMap, signer, message, original, damage, map, outerMap, beforeSignature>>

\* Mutant of ExitPublicKey: the position is taken where the last read began.
ExitPublicKeyInside ==
  /\ pc = "exitKey"
  /\ map' = outerMap
  /\ beforeSignature' = cursor - 2
  /\ Goto("signature")
  /\ UNCHANGED <<signatureMap, signer, message, original, damage, cursor, outerMap, uLastError, got>>

\* QCBORDecode_ExitMap(): the cursor is behind the map, which the last search of it
\* found; then beforeSignature = cursor.
ExitPublicKey ==
  /\ pc = "exitKey"
  /\ map' = IF uLastError THEN map ELSE outerMap
  /\ beforeSignature' = cursor
  /\ Goto("signature")
  /\ UNCHANGED <<signatureMap, signer, message, original, damage, cursor, outerMap, uLastError, got>>

\* assert(signature.len == 64); assert(cursor == UB.len)
GetSignature ==
  /\ pc = "signature"
  /\ Get(SIGNATURE_LABEL, "str", "signature")
  /\ Expect(Len(got'.signature) = 4 /\ cursor' = Len(message) + 1, "exit")
  /\ UNCHANGED <<signatureMap, signer, message, original, damage, map, outerMap, beforeSignature>>

\* QCBORDecode_ExitMap(); assert(QCBORDecode_GetError() == QCBOR_SUCCESS)
ExitSignatureMap ==
  /\ pc = "exit"
  /\ Goto(IF uLastError THEN "abort" ELSE "strip")
  /\ UNCHANGED <<signatureMap, signer, verifier>>

\* UB.len = beforeSignature; ptr[signatureMap]--
StripSignature ==
  /\ pc = "strip"
  /\ message' = [p \in 1..(beforeSignature - 1) |->
                   IF p = signatureMap
                   THEN Map(message[p][2] - 1) ELSE message[p]]
  /\ Goto("verify")
  /\ UNCHANGED <<signatureMap, signer, original, damage, cursor, map, outerMap, uLastError, got,
                 beforeSignature>>

\* Mutant of Verify: whatever was signed, the signature itself is valid.
VerifyAny ==
  /\ pc = "verify"
  /\ Goto(IF Len(got.signature) = 4 THEN "accept" ELSE "reject")
  /\ UNCHANGED <<signatureMap, signer, verifier>>

\* ed25519_verify(); what it says of variables never assigned is anything.
Verify ==
  /\ pc = "verify"
  /\ IF uLastError THEN pc' \in {"accept", "reject"}
     ELSE Goto(IF got.signature = Signature(message) /\ got.x = Str("key")
               THEN "accept" ELSE "reject")
  /\ UNCHANGED <<signatureMap, signer, verifier>>

-----------------------------------------------------------------------------
Init ==
  /\ pc = "application"
  /\ entries \in Contents
  /\ data = <<>>
  /\ length \in Lengths
  /\ signatureMap = 0
  /\ signature = NotRead
  /\ message = <<>>
  /\ original = [sent |-> <<>>, received |-> <<>>]
  /\ damage = 0
  /\ cursor = 1
  /\ map = Nowhere
  /\ outerMap = Nowhere
  /\ uLastError = FALSE
  /\ got = [n \in {"algorithm", "keyType", "curveId", "x", "signature"} |-> NotRead]
  /\ beforeSignature = 1

Next ==
  \/ WriteApplication \/ WriteKey \/ WriteCsfMap \/ Sign \/ AddSignature \/ CountSignature
  \/ Send \/ Damage
  \/ EnterSignatureMap \/ GetAlgorithm \/ EnterPublicKey \/ GetKeyType \/ GetCurve \/ GetX
  \/ ExitPublicKey \/ GetSignature \/ ExitSignatureMap \/ StripSignature \/ Verify

Spec == Init /\ [][Next]_vars

-----------------------------------------------------------------------------
(* Properties                                                              *)

\* A message whose buffer did not overflow is one complete item: the CSF map's
\* count, written before the signature was there, was brought up to date.  When it
\* overflowed, wherever that was, what had been written stays as it was written:
\* the late increment hits nothing.
SignedOrUntouched ==
  /\ pc = "send" /\ length # 0 =>
       /\ After(data, 1, 1) = Len(data) + 1
       /\ \E p \in 1..Len(data) : data[p] = signature
  /\ pc = "send" /\ length = 0 =>
       data = SubSeq(<<Map(Len(entries) + 1)>> \o Flatten(entries)
                       \o <<Num(APP_SIGNATURE_LABEL)>> \o CsfMap
                       \o <<Num(SIGNATURE_LABEL), signature>>, 1, Len(data))

\* What arrives as it was sent is accepted, whatever entries the application wrote.
UndamagedIsAccepted ==
  pc \in {"accept", "reject", "abort"} /\ original.received = original.sent => pc = "accept"

\* What is accepted is what was sent, and the verifier's buffer now holds what was
\* signed.
AcceptedIsSigned ==
  pc = "accept" => /\ original.received = original.sent
                   /\ Signature(message) = signature

=============================================================================
