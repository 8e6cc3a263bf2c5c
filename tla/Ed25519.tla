-------------------------------- MODULE Ed25519 --------------------------------
(***************************************************************************)
(* ed25519/src: key pairs, the addition of a scalar to either half of one,  *)
(* signatures, their verification and the key exchange.  Byte strings are   *)
(* the numbers they stand for; SHA-512, which module Sha512 is about, is a  *)
(* function of the byte strings it is given, one after the other.           *)
(***************************************************************************)
EXTENDS GroupElement, TLC

CONSTANTS
  Parties, Seeds, Scalars, Messages,
  Hash(_),    \* 64 bytes as <<low, high>>, of a sequence of byte strings
  Samples,    \* 32 bytes with which the arithmetic is checked
  MaxCalls,
  None

VARIABLES
  keys,    \* the key pair of a party, or None
  signed,  \* the last signature, or None
  verdict, \* the last verification, or None
  shared,  \* the secrets that key exchanges gave
  calls

vars == <<keys, signed, verdict, shared, calls>>

Bytes == 0..(2 ^ KeyBits - 1)

ASSUME CallsAssumption ==
  MaxCalls \in Nat /\ Seeds \cup Scalars \cup Messages \cup Samples \subseteq Bytes

Clamped(a) == ((a % 2 ^ (KeyBits - 2)) \div 8) * 8 + 2 ^ (KeyBits - 2)

PublicOf(a) == ge_tobytes(ge_scalarmult_base(a))

-----------------------------------------------------------------------------
(* The operations                                                           *)

\* secret is the number the pair is about, with which the code has nothing to do.
KeyPair(seed) ==
  LET h == Hash(<<seed>>)
      a == Clamped(h[1])
  IN  [private |-> a, prefix |-> h[2], public |-> PublicOf(a), secret |-> a % Order, fresh |-> TRUE]

\* The highest bit of a scalar is ignored.
Masked(scalar) == scalar % 2 ^ (KeyBits - 1)

\* Mutant: T stays that of the negative.
UnnegatedHalf(P) == [P EXCEPT !.X = fe_neg(@)]

Unnegated(P) == [P EXCEPT !.X = fe_neg(@), !.T = fe_neg(@)]

AddedToPrivate(key, scalar) == sc_muladd(1, Masked(scalar), key.private)

\* Without the private key: the sum of two points.
AddedToPublic(key, scalar) ==
  LET T  == ge_p3_to_cached(Unnegated(ge_frombytes_negate_vartime(key.public)))
      nB == ge_scalarmult_base(Masked(scalar))
  IN  ge_tobytes(ge_p1p1_to_p3(ge_add(nB, T)))

\* What one call with both keys leaves, or with apart two calls with one each.
AddedTo(key, scalar, apart) ==
  LET a == AddedToPrivate(key, scalar) IN
    [private |-> a, prefix |-> Hash(<<key.prefix, scalar>>)[1],
     public  |-> IF apart THEN AddedToPublic(key, scalar) ELSE PublicOf(a),
     secret  |-> (key.secret + Masked(scalar)) % Order, fresh |-> FALSE]

SignatureWith(key, message, r, R) ==
  [R |-> R, S |-> sc_muladd(sc_reduce(Hash(<<R, key.public, message>>)), key.private, r)]

Signature(key, message) ==
  LET r == sc_reduce(Hash(<<key.prefix, message>>))
  IN  SignatureWith(key, message, r, PublicOf(r))

\* signature[63] & 224: the three highest bits.
TooHigh(S) == S >= 2 ^ (KeyBits - 3)

Accepts(signature, message, public) ==
  LET A == ge_frombytes_negate_vartime(public)
      h == sc_reduce(Hash(<<signature.R, public, message>>))
  IN  /\ ~TooHigh(signature.S)
      /\ A # Invalid
      /\ ge_tobytes(ge_double_scalarmult_vartime(h, A, signature.S)) = signature.R

-----------------------------------------------------------------------------
(* The key exchange: a ladder on the u of a Montgomery curve                *)

\* Mutant: whether the two points were swapped before is forgotten.
SwapForgetting(r, b) == b

\* The points are swapped when the bit is another than the one before it.
Swap(r, b) == IF r.swap = b THEN 0 ELSE 1

\* The next two points, of the sums and differences of the ones before.
Stepped(aa, bb, e4, da, cb, x1) ==
  [x2 |-> fe_mul(aa, bb), z2 |-> fe_mul(e4, fe_add(bb, fe_mul121666(e4))),
   x3 |-> fe_sq(fe_add(da, cb)), z3 |-> fe_mul(x1, fe_sq(fe_sub(da, cb)))]

SquaredAndCrossed(sum2, dif2, sum3, dif3, x1) ==
  LET aa == fe_sq(sum2)
      bb == fe_sq(dif2)
  IN  Stepped(aa, bb, fe_sub(aa, bb), fe_mul(dif3, sum2), fe_mul(sum3, dif2), x1)

\* xs and zs are the coordinates of both points.
StepOf(xs, zs, x1) ==
  SquaredAndCrossed(fe_add(xs[1], zs[1]), fe_sub(xs[1], zs[1]),
                    fe_add(xs[2], zs[2]), fe_sub(xs[2], zs[2]), x1)

\* The two points of r for one more bit of e, that of r.pos.
Climbed(r, e, x1) ==
  LET b == (e \div 2 ^ r.pos) % 2
      s == Swap(r, b)
  IN  StepOf(fe_cswap(r.x2, r.x3, s), fe_cswap(r.z2, r.z3, s), x1)
        @@ [swap |-> b, pos |-> r.pos - 1]

RECURSIVE Ladder(_, _, _)

Ladder(r, e, x1) == IF r.pos < 0 THEN r ELSE Ladder(Climbed(r, e, x1), e, x1)

\* The u of a public key's y, and the bytes of the point the ladder ends on.
MontgomeryX(y) == fe_mul(fe_add(y, fe_1), fe_invert(fe_sub(fe_1, y)))

SecretOf(r) ==
  fe_tobytes(fe_mul(fe_cswap(r.x2, r.x3, r.swap)[1],
                    fe_invert(fe_cswap(r.z2, r.z3, r.swap)[1])))

Climb(x1, e) ==
  Ladder([x2 |-> fe_1, z2 |-> fe_0, x3 |-> x1, z3 |-> fe_1, swap |-> 0, pos |-> KeyBits - 2], e, x1)

Exchanged(public, private) ==
  SecretOf(Climb(MontgomeryX(fe_frombytes(public)), Clamped(private)))

-----------------------------------------------------------------------------
(* Callers                                                                  *)

Calls == calls < MaxCalls /\ calls' = calls + 1

HasKey(who) == keys[who] # None

ed25519_create_keypair(who, seed) ==
  /\ Calls /\ ~HasKey(who)
  /\ keys' = [keys EXCEPT ![who] = KeyPair(seed)]
  /\ UNCHANGED <<signed, verdict, shared>>

ed25519_add_scalar(who, scalar, apart) ==
  /\ Calls /\ HasKey(who)
  /\ keys' = [keys EXCEPT ![who] = AddedTo(@, scalar, apart)]
  /\ UNCHANGED <<signed, verdict, shared>>

ed25519_sign(who, message) ==
  /\ Calls /\ HasKey(who)
  /\ signed' = [signature |-> Signature(keys[who], message), message |-> message, public |-> keys[who].public]
  /\ verdict' = None
  /\ UNCHANGED <<keys, shared>>

\* The last signature, as it is or with another R or S, a message and a public key.
ed25519_verify(R, S, message, public) ==
  /\ Calls
  /\ verdict' = [signature |-> [R |-> R, S |-> S], message |-> message, public |-> public,
                 accepted |-> Accepts([R |-> R, S |-> S], message, public)]
  /\ UNCHANGED <<keys, signed, shared>>

\* What is added to R, to S and to the public key.
Alterations ==
  {<<0, 0, 0>>, <<2 ^ FieldBits, 0, 0>>, <<0, 0, 1>>}
    \cup {<<0, more, 0>> : more \in {1, Order, 2 ^ (KeyBits - 3)}}

VerifyOne ==
  /\ signed # None
  /\ \E who \in Parties, message \in Messages, more \in Alterations :
       /\ HasKey(who)
       /\ ed25519_verify((signed.signature.R + more[1]) % 2 ^ KeyBits, signed.signature.S + more[2],
                         message, (keys[who].public + more[3]) % 2 ^ KeyBits)

ed25519_key_exchange(who, other) ==
  /\ Calls /\ HasKey(who) /\ HasKey(other)
  /\ shared' = shared \cup {[mine |-> keys[who], theirs |-> keys[other],
                             secret |-> Exchanged(keys[other].public, keys[who].private)]}
  /\ UNCHANGED <<keys, signed, verdict>>

Init ==
  /\ keys = [who \in Parties |-> None] /\ signed = None /\ verdict = None /\ shared = {}
  /\ calls = 0

Next ==
  \/ \E who \in Parties :
       \/ \E seed \in Seeds : ed25519_create_keypair(who, seed)
       \/ \E scalar \in Scalars, apart \in BOOLEAN : ed25519_add_scalar(who, scalar, apart)
       \/ \E message \in Messages : ed25519_sign(who, message)
       \/ \E other \in Parties \ {who} : ed25519_key_exchange(who, other)
  \/ VerifyOne

Spec == Init /\ [][Next]_vars

-----------------------------------------------------------------------------
(* Properties                                                               *)

\* The limbs do what the numbers do modulo the prime, and the bytes they give
\* are the least ones, whatever the carries left in the limbs (fe.c).
LimbsRight(s, t) ==
  LET f == fe_frombytes(s)
      g == fe_frombytes(t)
      m == (s % 2 ^ FieldBits) % Prime
      n == (t % 2 ^ FieldBits) % Prime
      sum == (m + n) % Prime
      dif == (m - n) % Prime
  IN  /\ fe_tobytes(f) = m
      /\ fe_tobytes(fe_add(f, g)) = sum
      /\ fe_tobytes(fe_sub(f, g)) = dif
      /\ fe_tobytes(fe_neg(g)) = (-n) % Prime
      /\ fe_tobytes(fe_mul(fe_add(f, g), fe_sub(f, g))) = (sum * dif) % Prime
      /\ fe_tobytes(fe_sq2(fe_sub(f, g))) = (2 * ((dif * dif) % Prime)) % Prime
      /\ fe_tobytes(fe_mul121666(fe_add(f, g))) = (sum * Mul121666) % Prime
      /\ fe_tobytes(fe_invert(fe_sub(f, g))) = Inverted(dif)

\* The chains of squarings and products end at the powers p - 2 and (p - 5) / 8,
\* in this instance's prime and, with all their lines, in 2^255 - 19.
ChainsRight ==
  LET Bits(n) == {i \in 0..FieldBits : (n \div 2 ^ i) % 2 = 1} IN
    /\ Exponent(InvertLines(ChainLength), OfZ)   = Bits(Prime - 2)
    /\ Exponent(Pow22523Lines(ChainLength), OfZ) = Bits((Prime - 5) \div 8)
    /\ Exponent(InvertLines(7), OfZ)             = 0..254 \ {2, 4}
    /\ Exponent(Pow22523Lines(7), OfZ)           = 0..251 \ {1}

\* The operations on limbs give the numbers modulo the prime, whatever sums and
\* differences their arguments are; it is enough to look before the first call.
FieldRight == calls = 0 => ChainsRight /\ \A s \in Samples, t \in Samples : LimbsRight(s, t)

\* However a pair was made, and with the scalars added together or to one half
\* at a time, the public key is the private one times the base point.
KeysMatch ==
  \A who \in Parties : HasKey(who) =>
    /\ keys[who].private % Order = keys[who].secret
    /\ keys[who].public = Encoded(Times(keys[who].secret, Base))

\* What a signature has to satisfy: S B = R + h A.
Equation(signature, message, public) ==
  LET h    == Hash(<<signature.R, public, message>>)
      n    == ((h[1] % Order) + (h[2] % Order) * (2 ^ KeyBits % Order)) % Order
      sign == (public \div 2 ^ FieldBits) % 2
      y    == public % 2 ^ FieldBits
      Xs   == {x \in Number : x % 2 = sign /\ OnCurve(x, y)}
  IN  \E x \in Xs : Encoded(Sum(Times(signature.S, Base), Opposite(Times(n, <<x, y>>)))) = signature.R

\* Every signature satisfies the equation under the key of that time, with the
\* one S below the order, and is accepted.
SignaturesHold ==
  signed # None =>
    /\ signed.signature.S < Order
    /\ Equation(signed.signature, signed.message, signed.public)
    /\ Accepts(signed.signature, signed.message, signed.public)

\* A verification accepts just what satisfies the equation and is not too high.
\* The keys are those the parties made: none has x = 0 with the sign bit set, which
\* ge_frombytes_negate_vartime() takes for the point with x = 0 and Equation does not.
VerdictsRight ==
  verdict # None =>
    verdict.accepted = (/\ verdict.signature.S < 2 ^ (KeyBits - 3)
                        /\ Equation(verdict.signature, verdict.message, verdict.public))

\* Two parties whose keys are as they were created get the same secret, and it is
\* the u of the public key times the private one.
SecretsAgree ==
  \A x \in shared, y \in shared :
    (x.mine = y.theirs /\ x.theirs = y.mine /\ x.mine.fresh /\ y.mine.fresh) =>
      LET P == Times(x.mine.private, Times(x.theirs.secret, Base))
      IN  /\ x.secret = y.secret
          /\ x.secret = ((1 + P[2]) * Inverted(1 - P[2])) % Prime
=============================================================================
