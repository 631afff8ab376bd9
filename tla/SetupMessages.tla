---------------------------- MODULE SetupMessages ----------------------------
(***************************************************************************)
(* The six messages of a pair setup, as the controller                     *)
(* (airplay/src/PairSetup/Controller) and the accessory                    *)
(* (PairSetup/Accessory.ts) make and read them.  Module PairSetup follows  *)
(* who is when at which step; here is what stands in each message, what a  *)
(* reader checks of it, in which order, and what it ends in.               *)
(*                                                                         *)
(* SRP is its promise: the key is a function of the code, the salt and the *)
(* two public keys (module Srp computes it), a proof a function of the key.*)
(***************************************************************************)
EXTENDS Suite

SALT_BYTES           == 16
GROUP_BYTES          == 384
PROOF_BYTES          == 64
MAX_IDENTIFIER_BYTES == 36

Code(n) == Number(n, 1)
Authentication == 2      \* PairingError
MaxTries       == 5
PairSetupMethod == 0     \* PairingMethod.PairSetup

Public(private) == Octets("srpPublic", <<private>>, GROUP_BYTES)
SessionKey(code, salt, A, B) == Octets("srpKey", <<code, salt, A, B>>, PROOF_BYTES)
ClientProof(key) == Octets("m1", <<key>>, PROOF_BYTES)
ServerProof(key) == Octets("m2", <<key>>, PROOF_BYTES)

EncryptionKey(key) ==
  hkdfSha512(key, Text("Pair-Setup-Encrypt-Salt", 23), Text("Pair-Setup-Encrypt-Info", 23))
ControllerX(key) ==
  hkdfSha512(key, Text("Pair-Setup-Controller-Sign-Salt", 31), Text("Pair-Setup-Controller-Sign-Info", 31))
AccessoryX(key) ==
  hkdfSha512(key, Text("Pair-Setup-Accessory-Sign-Salt", 30), Text("Pair-Setup-Accessory-Sign-Info", 30))

Msg05 == label("PS-Msg05")
Msg06 == label("PS-Msg06")

Peer(identifier, key) == [identifier |-> identifier, publicKey |-> key]
Nobody == Peer(NoOctets, NoOctets)

-----------------------------------------------------------------------------
(* The controller.  A step is the request it makes, or the error it ends   *)
(* in; what it keeps for the next step is the rest of the record.          *)

(* An octet the protocol does not name is kept as it is, and refused too.  *)
fromWire(code) == IF code = Code(Authentication) THEN "WrongSetupCode" ELSE "AccessoryRefused"

(* The refusal first: what declines need not have the state right.         *)
refusal(items) == Check(~has(items, "Error"), fromWire(findItem(items, "Error")))
expectState(items, n) == Check(findItem(items, "State") = Code(n), "UnexpectedState")

readResponse_StateFirst(response, n) ==
  LET items == itemsOf(response)
  IN  << Check(response.kind = "items", "SchemaError"),
         expectState(items, n), refusal(items) >>
readResponse(response, n) ==
  LET items == itemsOf(response)
  IN  << Check(response.kind = "items", "SchemaError"),
         refusal(items), expectState(items, n) >>

required(items, type) == << Check(has(items, type), "MissingItem") >>
exactlyOf(items, type, n) ==
  required(items, type) \o << Check(exactly(items, type, n), "MalformedItem") >>
atMostOf(items, type, n) ==
  required(items, type) \o << Check(atMost(items, type, n), "MalformedItem") >>

(* The flags are written in as few octets as they need, none when there    *)
(* are none: the item is left out then.                                    *)
width(flags) == IF flags > 16777215 THEN 4 ELSE IF flags > 65535 THEN 3
                ELSE IF flags > 255 THEN 2 ELSE IF flags > 0 THEN 1 ELSE 0

m1(flags) ==
  Items(<<State(1), Item("Method", Code(PairSetupMethod))>>
        \o IF width(flags) = 0 THEN <<>>
           ELSE <<Item("Flags", Number(flags, width(flags)))>>)

m3(response, pin, private) ==
  LET items == itemsOf(response)
      key   == SessionKey(pin, findItem(items, "Salt"), Public(private),
                          findItem(items, "PublicKey"))
  IN  [error   |-> FirstError(readResponse(response, 2) \o required(items, "Salt")
                              \o required(items, "PublicKey")),
       request |-> Items(<<State(3), Item("PublicKey", Public(private)),
                           Item("Proof", ClientProof(key))>>),
       srpKey  |-> key]

(* The controller and the accessory each lay out what they sign.           *)
deviceInfo_Swapped(x, identifier, key) == Joined(<<x, key, identifier>>)
deviceInfo(x, identifier, key) == Joined(<<x, identifier, key>>)

m5(response, srpKey, identity) ==
  LET items == itemsOf(response)
      sub   == Items(<<Item("Identifier", identity.identifier),
                       Item("PublicKey", identity.publicKey),
                       Item("Signature",
                            ed25519Sign(identity.privateKey,
                                        deviceInfo(ControllerX(srpKey), identity.identifier,
                                                   identity.publicKey)).value)>>)
  IN  [error   |-> FirstError(readResponse(response, 4)
                              \o exactlyOf(items, "Proof", PROOF_BYTES)
                              \o << Check(findItem(items, "Proof") = ServerProof(srpKey),
                                          "ProofRejected"),
                                    Check(identity.identifier.bytes <= MAX_IDENTIFIER_BYTES,
                                          "IdentifierTooLong") >>),
       request |-> Items(<<State(5),
                           Item("EncryptedData",
                                seal(EncryptionKey(srpKey), Msg05, sub, Joined(<<>>)).value)>>)]

finish(response, srpKey) ==
  LET items  == itemsOf(response)
      opened == open(EncryptionKey(srpKey), Msg06, findItem(items, "EncryptedData"), Joined(<<>>))
      sub    == itemsOf(opened.value)
      them   == Peer(findItem(sub, "Identifier"), findItem(sub, "PublicKey"))
      signed == ed25519Verify(them.publicKey,
                              deviceInfo(AccessoryX(srpKey), them.identifier, them.publicKey),
                              findItem(sub, "Signature"))
  IN  [error |-> FirstError(readResponse(response, 6) \o required(items, "EncryptedData")
                            \o << Check(opened.error = "none", opened.error),
                                  Check(opened.value.kind = "items", "SchemaError") >>
                            \o atMostOf(sub, "Identifier", MAX_IDENTIFIER_BYTES)
                            \o exactlyOf(sub, "PublicKey", PUBLIC_KEY)
                            \o exactlyOf(sub, "Signature", SIGNATURE)
                            \o << Check(signed.value = Text("true", 1), "SignatureRejected") >>),
       peer  |-> them]

-----------------------------------------------------------------------------
(* The accessory.  What it answers, whether it counts an attempt, and whom *)
(* it has kept; a request it fails on is a status 500 with a line of text. *)
Handled(answer, wrong, whom) == [answer |-> answer, counted |-> wrong, stored |-> whom]
Answered(answer) == Handled(answer, FALSE, Nobody)
Failed == Answered(Text("Pair-setup failed", 17))

refuse(n, code) == Items(<<State(n), Item("Error", Code(code))>>)

(* Request.decode, and expect: the step the request announces is awaited.  *)
requestChecks(request, n) ==
  << Check(request.kind = "items", "MalformedMessage"),
     Check(findItem(itemsOf(request), "State").bytes = 1, "MalformedMessage"),
     Check(findItem(itemsOf(request), "State") = Code(n), "UnexpectedState") >>

(* What the accessory signs and verifies over: its own deviceInfo.         *)
signedInfo(x, identifier, key) == Joined(<<x, identifier, key>>)

OrFailed(checks, answered) == IF FirstError(checks) = "none" THEN answered ELSE Failed

begin(request, accessory) ==
  OrFailed(requestChecks(request, 1)
           \o << Check(findItem(itemsOf(request), "Method") = Code(PairSetupMethod),
                       "MalformedMessage") >>,
           Answered(Items(<<State(2), Item("Salt", accessory.salt),
                            Item("PublicKey", Public(accessory.private))>>)))

prove(request, accessory) ==
  LET items == itemsOf(request)
      key   == SessionKey(accessory.setupCode, accessory.salt, findItem(items, "PublicKey"),
                          Public(accessory.private))
  IN  OrFailed(requestChecks(request, 3) \o required(items, "PublicKey")
               \o exactlyOf(items, "Proof", PROOF_BYTES),
               IF findItem(items, "Proof") = ClientProof(key)
               THEN Answered(Items(<<State(4), Item("Proof", ServerProof(key))>>))
               ELSE Handled(refuse(4, Authentication), TRUE, Nobody))

introduce(request, accessory, srpKey) ==
  LET items  == itemsOf(request)
      opened == open(EncryptionKey(srpKey), Msg05, findItem(items, "EncryptedData"), Joined(<<>>))
      sub    == itemsOf(opened.value)
      them   == Peer(findItem(sub, "Identifier"), findItem(sub, "PublicKey"))
      signed == ed25519Verify(them.publicKey,
                              signedInfo(ControllerX(srpKey), them.identifier, them.publicKey),
                              findItem(sub, "Signature"))
      own    == Items(<<Item("Identifier", accessory.identifier),
                        Item("PublicKey", publicKey(accessory.seed)),
                        Item("Signature",
                             ed25519Sign(accessory.seed,
                                         signedInfo(AccessoryX(srpKey), accessory.identifier,
                                                    publicKey(accessory.seed))).value)>>)
  IN  OrFailed(requestChecks(request, 5) \o required(items, "EncryptedData")
               \o << Check(opened.error = "none", opened.error),
                     Check(opened.value.kind = "items", "MalformedMessage") >>
               \o atMostOf(sub, "Identifier", MAX_IDENTIFIER_BYTES)
               \o exactlyOf(sub, "PublicKey", PUBLIC_KEY)
               \o exactlyOf(sub, "Signature", SIGNATURE),
               IF signed.value = Text("true", 1)
               THEN Handled(Items(<<State(6),
                                    Item("EncryptedData",
                                         seal(EncryptionKey(srpKey), Msg06, own,
                                              Joined(<<>>)).value)>>),
                            FALSE, them)
               ELSE Answered(refuse(6, Authentication)))

==============================================================================
