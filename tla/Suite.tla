-------------------------------- MODULE Suite --------------------------------
(***************************************************************************)
(* What the pairing code asks of packages/airplay/src/Suite, and what the  *)
(* NodeSuite answers: octets are terms that remember how they were made,   *)
(* and how many they are, for make.ts checks sizes before it computes.     *)
(* The primitives themselves are Node's: perfect ones here.                *)
(***************************************************************************)
EXTENDS Integers, SequencesExt

(* Octets of a kind, made out of other octets. *)
Octets(kind, of, bytes) == [bytes |-> bytes, kind |-> kind, of |-> of]
Text(text, bytes) == Octets(text, <<>>, bytes)
NoOctets == Octets("none", <<>>, -1)

(* A number, in as many octets as it is written in. *)
Number(n, bytes) == [bytes |-> bytes, kind |-> "number", number |-> n, of |-> <<>>]

KEY        == 32
NONCE      == 8      \* the suffix: a label's characters or a counter
TAG        == 16
PUBLIC_KEY == 32
SIGNATURE  == 64

Resized(octets, bytes) == Octets("resized", <<octets>>, bytes)

(* What an Effect of the suite ends in. *)
Ok(octets)  == [error |-> "none", value |-> octets]
Fails(name) == [error |-> name, value |-> NoOctets]

exactSizes(sizes) == \A i \in DOMAIN sizes : sizes[i][1].bytes = sizes[i][2]

publicKey(private) == Octets("public", <<private>>, PUBLIC_KEY)

(* Both ends reach the same secret, whichever half of it is theirs. *)
x25519SharedSecret(private, public) ==
  IF ~exactSizes(<< <<private, KEY>>, <<public, PUBLIC_KEY>> >>) THEN Fails("BadArgument")
  ELSE Ok(Octets("shared",
                 IF public.kind = "public" THEN SetToSeq({private, public.of[1]})
                 ELSE <<private, public>>, KEY))

hkdfSha512(key, salt, info) == Octets("hkdf", <<key, salt, info>>, KEY)

label(text) == Text(text, NONCE)

seal(key, nonce, plaintext, associated) ==
  IF key.bytes # KEY THEN Fails("BadArgument")
  ELSE Ok(Octets("sealed", <<key, nonce, plaintext, associated>>, plaintext.bytes + TAG))

(* What was sealed holds a tag; of anything else the length is looked at.  *)
open(key, nonce, sealed, associated) ==
  IF key.bytes # KEY \/ (sealed.kind # "sealed" /\ sealed.bytes < TAG) THEN Fails("BadArgument")
  ELSE IF /\ sealed.kind = "sealed"
          /\ sealed.of[1] = key /\ sealed.of[2] = nonce /\ sealed.of[4] = associated
       THEN Ok(sealed.of[3]) ELSE Fails("ForgedFrame")

ed25519Sign(private, message) ==
  IF private.bytes # KEY THEN Fails("BadArgument")
  ELSE Ok(Octets("signature", <<private, message>>, SIGNATURE))

ed25519Verify(public, message, signature) ==
  IF ~exactSizes(<< <<public, PUBLIC_KEY>>, <<signature, SIGNATURE>> >>)
  THEN Fails("BadArgument")
  ELSE IF /\ public.kind = "public"
          /\ signature = Octets("signature", <<public.of[1], message>>, SIGNATURE)
       THEN Ok(Text("true", 1)) ELSE Ok(Text("false", 1))

(* The octets of several terms, one after another. *)
Together(parts) == FoldLeft(LAMBDA n, p : n + p.bytes, 0, parts)
Joined(parts) == Octets("joined", parts, Together(parts))

-----------------------------------------------------------------------------
(* A payload: its items in TLV8 (the octets of it are module Tlv8's).      *)
Item(type, value) == [type |-> type, value |-> value]
State(n) == Item("State", Number(n, 1))

Written(items) ==
  FoldLeft(LAMBDA n, it : n + it.value.bytes + 2 * (it.value.bytes \div 255 + 1), 0, items)
Items(items) == Octets("items", items, Written(items))

itemsOf(payload) == IF payload.kind = "items" THEN payload.of ELSE <<>>

(* find: the first item of the type, NoOctets when there is none. *)
findItem(items, type) ==
  LET found == {i \in DOMAIN items : items[i].type = type}
  IN  IF found = {} THEN NoOctets ELSE items[Min(found)].value

has(items, type)          == findItem(items, type) # NoOctets
exactly(items, type, n)   == findItem(items, type).bytes = n
atMost(items, type, n)    == findItem(items, type).bytes <= n

(***************************************************************************)
(* The checks a generator makes, in their order: the first that does not   *)
(* hold is the error it fails with.                                        *)
(***************************************************************************)
Check(holds, name) == [error |-> name, holds |-> holds]
FirstError(checks) ==
  LET failed == {i \in DOMAIN checks : ~checks[i].holds}
  IN  IF failed = {} THEN "none" ELSE checks[Min(failed)].error

==============================================================================
