---------------------------- MODULE VerifyMessages ---------------------------
(***************************************************************************)
(* Pair verify: the controller's two messages (airplay/src/PairVerify),    *)
(* the session it derives from them (airplay/src/Session.ts), an accessory *)
(* that keeps to HAP (the one the code is written for), and the emulated   *)
(* one of emulator/src/AirPlayDevice.ts, which signs something else.       *)
(***************************************************************************)
EXTENDS Suite

VerifySalt == Text("Pair-Verify-Encrypt-Salt", 24)
VerifyInfo == Text("Pair-Verify-Encrypt-Info", 24)
PVMsg02 == label("PV-Msg02")
PVMsg03 == label("PV-Msg03")

verifyKey(shared) == hkdfSha512(shared, VerifySalt, VerifyInfo)

(***************************************************************************)
(* Session keys, named from the accessory's side: what the controller      *)
(* reads with is what the accessory writes with.                           *)
(***************************************************************************)
ControlSalt  == Text("Control-Salt", 12)
ControlRead  == Text("Control-Read-Encryption-Key", 27)
ControlWrite == Text("Control-Write-Encryption-Key", 28)

sessionKeys(shared) ==
  [read  |-> hkdfSha512(shared, ControlSalt, ControlRead),
   write |-> hkdfSha512(shared, ControlSalt, ControlWrite)]

accessoryKeys(shared) ==
  [read  |-> hkdfSha512(shared, ControlSalt, ControlWrite),
   write |-> hkdfSha512(shared, ControlSalt, ControlRead)]

-----------------------------------------------------------------------------
verifyM1(ephemeral) == Items(<<State(1), Item("PublicKey", publicKey(ephemeral))>>)

(* Who signs puts its own ephemeral key first.                             *)
pairVerifyInfo_PeerFirst(signer, identifier, peer) == Joined(<<peer, identifier, signer>>)
pairVerifyInfo(signer, identifier, peer) == Joined(<<signer, identifier, peer>>)

(* Any octet but the ones the protocol names is read as Unknown: refused.  *)
verifyChecks(items) ==
  << Check(has(items, "State"), "InvalidValue"),
     Check(findItem(items, "State") = State(2).value, "InvalidValue"),
     Check(~has(items, "Error"), "Refused"),
     Check(has(items, "PublicKey"), "InvalidValue"),
     Check(exactly(items, "PublicKey", PUBLIC_KEY), "InvalidValue"),
     Check(has(items, "EncryptedData"), "InvalidValue") >>

verifyM3(response, ephemeral, pinned, identity) ==
  LET items  == itemsOf(response)
      theirs == findItem(items, "PublicKey")
      shared == x25519SharedSecret(ephemeral, theirs)
      opened == open(verifyKey(shared.value), PVMsg02, findItem(items, "EncryptedData"), Joined(<<>>))
      sub    == itemsOf(opened.value)
      signed == ed25519Verify(pinned,
                              pairVerifyInfo(theirs, findItem(sub, "Identifier"), publicKey(ephemeral)),
                              findItem(sub, "Signature"))
      own    == pairVerifyInfo(publicKey(ephemeral), identity.identifier, theirs)
      reply  == Items(<<Item("Identifier", identity.identifier),
                        Item("Signature", ed25519Sign(identity.privateKey, own).value)>>)
  IN  [error   |-> FirstError(<<Check(response.kind = "items", "SchemaError")>>
                              \o verifyChecks(items)
                              \o << Check(opened.error = "none", opened.error),
                                    Check(opened.value.kind = "items", "SchemaError"),
                                    Check(has(sub, "Identifier"), "InvalidValue"),
                                    Check(exactly(sub, "Signature", SIGNATURE), "InvalidValue"),
                                    Check(signed.value = Text("true", 1), "SignatureRejected") >>),
       request |-> Items(<<State(3),
                           Item("EncryptedData",
                                seal(verifyKey(shared.value), PVMsg03, reply, Joined(<<>>)).value)>>)]

(* M3 is sent and its answer not looked at: the keys come from M2 alone.   *)
runPairVerify(response, ephemeral) ==
  sessionKeys(x25519SharedSecret(ephemeral, findItem(itemsOf(response), "PublicKey")).value)

-----------------------------------------------------------------------------
M2(accessory, shared, signature) ==
  Items(<<State(2), Item("PublicKey", publicKey(accessory.ephemeral)),
          Item("EncryptedData",
               seal(verifyKey(shared), PVMsg02,
                    Items(<<Item("Identifier", accessory.identifier), Item("Signature", signature)>>),
                    Joined(<<>>)).value)>>)

(* An accessory by the protocol.                                           *)
hapM2(request, accessory) ==
  LET theirs == findItem(itemsOf(request), "PublicKey")
      shared == x25519SharedSecret(accessory.ephemeral, theirs).value
      info   == Joined(<<publicKey(accessory.ephemeral), accessory.identifier, theirs>>)
  IN  M2(accessory, shared, ed25519Sign(accessory.private, info).value)

(* handlePairVerify, state 1: signs the shared secret and its own key.     *)
emulatorM2(request, accessory) ==
  LET theirs == findItem(itemsOf(request), "PublicKey")
      shared == x25519SharedSecret(accessory.ephemeral, theirs).value
      info   == Joined(<<shared, accessory.identifier, publicKey(accessory.private)>>)
  IN  M2(accessory, shared, ed25519Sign(accessory.private, info).value)

(* handlePairVerify, state 3: the device counts as verified as soon as an  *)
(* M3 brings sealed octets, which it does not open.                        *)
emulatorVerified(request) == has(itemsOf(request), "EncryptedData")

(* By the protocol it opens them, and knows the controller it has paired.  *)
hapVerified(request, accessory, ephemeralPublic, controller) ==
  LET shared == x25519SharedSecret(accessory.ephemeral, ephemeralPublic).value
      opened == open(verifyKey(shared), PVMsg03,
                     findItem(itemsOf(request), "EncryptedData"), Joined(<<>>))
      sub    == itemsOf(opened.value)
  IN  /\ opened.error = "none"
      /\ findItem(sub, "Identifier") = controller.identifier
      /\ ed25519Verify(controller.publicKey,
                       Joined(<<ephemeralPublic, controller.identifier,
                                publicKey(accessory.ephemeral)>>),
                       findItem(sub, "Signature")).value = Text("true", 1)

-----------------------------------------------------------------------------
(***************************************************************************)
(* One frame of an encrypted session: its length stands before it and is   *)
(* sealed with it; the nonce counts the frames.                            *)
(***************************************************************************)
Counter(n) == Number(n, NONCE)
Length(octets) == Octets("length", <<octets>>, 2)

encryptFrame(keys, n, plaintext) ==
  [length |-> Length(plaintext),
   sealed |-> seal(keys.write, Counter(n), plaintext, Length(plaintext)).value]

decryptFrame(keys, n, frame) == open(keys.read, Counter(n), frame.sealed, frame.length)

(* /command of the emulator binds nothing to the frame, and falls back to  *)
(* the octets as they came when it does not open.                          *)
emulatorCommand(keys, n, frame) ==
  LET opened == open(keys.read, Counter(n), frame.sealed, Joined(<<>>))
  IN  IF opened.error = "none" THEN opened.value ELSE Joined(<<frame.length, frame.sealed>>)

==============================================================================
