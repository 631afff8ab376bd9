--------------------------------- MODULE Srp ---------------------------------
(***************************************************************************)
(* SRP-6a as packages/airplay/src/Srp computes it, on a group small enough *)
(* to run through: octets have Base values and a group element takes Width *)
(* of them.  SHA-512 is external: hash(parts) is the concatenation of the  *)
(* parts, the one digest without collisions, so that every reading of a    *)
(* digest as a number (k, u, x) depends on all of its input.               *)
(***************************************************************************)
EXTENDS Integers, SequencesExt, Bitwise

CONSTANTS Base,       \* values of an octet (256)
          Width,      \* group.byteLength
          Modulus,    \* group.modulus
          Generator   \* group.generator

ASSUME SrpGroup == Base \in Nat \ {0, 1} /\ Modulus < Base ^ Width

(* The remainder of a JavaScript bigint takes the sign of the dividend. *)
JsRem(n, m) == IF n >= 0 THEN n % m ELSE -((-n) % m)

toBigInt(octets) == FoldLeft(LAMBDA n, octet : n * Base + octet, 0, octets)

RECURSIVE fromBigInt(_)
fromBigInt(n) == IF n < Base THEN <<n>>
                 ELSE Append(fromBigInt(n \div Base), n % Base)

(* A value wider than the width loses its leading octets. *)
pad(octets, width) ==
  LET offset == width - Len(octets)
  IN  [i \in 1..width |-> IF i <= offset THEN 0 ELSE octets[i - offset]]

encode(n) == pad(fromBigInt(n), Width)

(* Square and multiply, from the lowest bit of the exponent. *)
RECURSIVE Squaring(_, _, _)
Squaring(result, square, remaining) ==
  IF remaining = 0 THEN result
  ELSE Squaring(IF remaining % 2 = 1 THEN JsRem(result * square, Modulus) ELSE result,
                JsRem(square * square, Modulus), remaining \div 2)

modPow(base, exponent) == Squaring(1, JsRem(base, Modulus), exponent)

hash(parts) == FlattenSeq(parts)

multiplier == toBigInt(hash(<<encode(Modulus), encode(Generator)>>))

scrambler(A, B) == toBigInt(hash(<<encode(A), encode(B)>>))

(* The octets of ":" are left out: the name and the code stand apart already. *)
privateKey(who) == toBigInt(hash(<<who.salt, hash(<<who.username, who.password>>)>>))

verifier(who) == encode(modPow(Generator, privateKey(who)))

(***************************************************************************)
(* The secret both sides reach: from the password, where k.g^x is taken    *)
(* off B and the difference brought back above zero, and from the verifier.*)
(***************************************************************************)
fromPassword_Signed(B, x, a, u) ==
  modPow(JsRem(B - multiplier * modPow(Generator, x), Modulus), a + u * x)
fromPassword(B, x, a, u) ==
  modPow(JsRem(JsRem(B - multiplier * modPow(Generator, x), Modulus) + Modulus, Modulus),
         a + u * x)

fromVerifier(A, v, u, b) == modPow(JsRem(A * modPow(v, u), Modulus), b)

sessionKey(premaster) == hash(<<encode(premaster)>>)

groupDigest ==
  LET modulus   == hash(<<fromBigInt(Modulus)>>)
      generator == hash(<<fromBigInt(Generator)>>)
  IN  [i \in DOMAIN modulus |->
         modulus[i] ^^ (IF i \in DOMAIN generator THEN generator[i] ELSE 0)]

proofM1(username, salt, A, B, key) ==
  hash(<<groupDigest, hash(<<username>>), salt, encode(A), encode(B), key>>)

proofM2(A, proof, key) == hash(<<encode(A), proof, key>>)

(* The octets are compared without an early exit. *)
equal(left, right) ==
  /\ Len(left) = Len(right)
  /\ FoldLeft(LAMBDA difference, i : difference | (left[i] ^^ right[i]), 0,
              [i \in DOMAIN left |-> i]) = 0

(***************************************************************************)
(* The two machines.  proveSecret refuses B congruent to zero, verify refuses A  *)
(* congruent to zero before it looks at the proof; both keep the number    *)
(* they were sent as it came, above the modulus too.                       *)
(***************************************************************************)
InvalidPublicKey(side) == [error |-> "InvalidPublicKey", side |-> side]
ProofRejected(proof)   == [error |-> "ProofRejected", proof |-> proof]

clientPublic(a) == modPow(Generator, a)
serverPublic(v, b) == JsRem(multiplier * v + modPow(Generator, b), Modulus)

proveSecret(who, a, salt, serverPublicKey) ==
  LET A   == clientPublic(a)
      B   == toBigInt(serverPublicKey)
      x   == privateKey([who EXCEPT !.salt = salt])
      key == sessionKey(fromPassword(B, x, a, scrambler(A, B)))
      M1  == proofM1(who.username, salt, A, B, key)
  IN  IF JsRem(B, Modulus) = 0 THEN InvalidPublicKey("server")
      ELSE [error |-> "none", sessionKey |-> key, m1 |-> M1,
            expectedM2 |-> proofM2(A, M1, key)]

verifyServer(proof, M2) ==
  IF equal(proof.expectedM2, M2) THEN [error |-> "none"] ELSE ProofRejected("M2")

verify(who, v, b, clientPublicKey, M1) ==
  LET A   == toBigInt(clientPublicKey)
      B   == serverPublic(toBigInt(v), b)
      key == sessionKey(fromVerifier(A, toBigInt(v), scrambler(A, B), b))
  IN  IF JsRem(A, Modulus) = 0 THEN InvalidPublicKey("client")
      ELSE IF ~equal(proofM1(who.username, who.salt, A, B, key), M1) THEN ProofRejected("M1")
      ELSE [error |-> "none", sessionKey |-> key, m2 |-> proofM2(A, M1, key)]

==============================================================================
