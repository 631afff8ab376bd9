-------------------------------- MODULE Pairing ------------------------------
(***************************************************************************)
(* What is said in a pairing, message by message: castcli (bin/cast.ts)    *)
(* sets up a pairing with an accessory, keeps whom it has met, and later   *)
(* verifies whoever answers at that address (Session.ts).  Whoever reads a *)
(* message reads what arrives of it: one message on the way may be damaged.*)
(* Module PairSetup follows several controllers at one accessory; here is  *)
(* what stands in the messages of one.  A transient pairing, which cast.ts *)
(* ends at M4, is left out: every attempt here goes on to M6, with any     *)
(* flags the library's m1 can write.                                       *)
(***************************************************************************)
EXTENDS SetupMessages, VerifyMessages

CONSTANTS
  Accessory,    \* its setup code, salt, private number, identifier and seed
  Private,      \* the private number of the controller's SRP
  Ephemeral,    \* and its private key of pair verify
  Controllers,  \* identities that castcli may have made for itself
  Codes,        \* what a viewer may type
  FlagValues,   \* the flags asked for with the first message
  Errors,       \* octets of a refusal on the way
  Devices,      \* who may answer when the pairing is used
  Plaintexts,   \* what is sent once the session is encrypted
  MaxFrame      \* frames are counted to here (Counter.ts: below 2^64)

ASSUME PairingAssumption ==
  /\ Accessory.salt # NoOctets
  /\ Accessory.identifier # NoOctets /\ Accessory.identifier.bytes \in 0..MAX_IDENTIFIER_BYTES
  /\ Accessory.seed.bytes = KEY
  /\ Ephemeral.bytes = KEY
  /\ \A us \in Controllers :
       /\ us.identifier # NoOctets /\ us.identifier.bytes \in Nat
       /\ us.privateKey.bytes = KEY /\ us.publicKey = publicKey(us.privateKey)
  /\ \A device \in Devices :
       /\ device.hap \in BOOLEAN
       /\ device.identifier # NoOctets
       /\ device.private.bytes = KEY /\ device.ephemeral.bytes = KEY
  /\ Errors \subseteq Nat
  /\ \A text \in Plaintexts : text.kind # "joined"
  /\ MaxFrame \in Nat

VARIABLES
  attempt,  \* the input: who pairs, with which code and flags, and the damage
  turn,     \* the number of the last message; 7 when set up, 8 when verified
  message,  \* that message, as it was sent
  ours,     \* the key of the controller's SRP
  theirs,   \* and of the accessory's
  counted,  \* whether the accessory has counted an attempt
  stored,   \* whom the accessory has kept
  peer,     \* whom the controller has kept
  error,    \* what the setup has ended in, "none" so far
  link      \* what pair verify came to

vars == <<attempt, turn, message, ours, theirs, counted, stored, peer, error, link>>

-----------------------------------------------------------------------------
(***************************************************************************)
(* Damage to one message: an item of it altered to a type that nobody      *)
(* reads, or in its length, another state in it, or an Error item put      *)
(* behind it, in the state awaited or in none.                             *)
(***************************************************************************)
Unhurt == [at |-> 0, how |-> "none", to |-> 0, what |-> "none"]

Damages(messages, types) ==
  {Unhurt}
  \cup [at : messages, how : {"dropped", "resized"}, to : {0}, what : types]
  \cup [at : messages, how : {"state"}, to : 1..6, what : {"State"}]
  \cup [at : messages, how : {"error", "error_elsewhere"}, to : Errors, what : {"Error"}]

SetupDamages ==
  Damages(1..6, {"State", "Method", "Flags", "Salt", "PublicKey", "Proof", "EncryptedData"})
VerifyDamages == Damages({2}, {"State", "PublicKey", "EncryptedData"})

Altered(damage, item) ==
  CASE damage.how = "dropped" -> Item("Ignored", item.value)
    [] damage.how = "resized" -> Item(item.type, Resized(item.value, item.value.bytes - 1))
    [] damage.how = "state"   -> State(damage.to)
    [] damage.how = "error"   -> item
    [] damage.how = "error_elsewhere" -> IF item.type = "State" THEN Item("Ignored", item.value) ELSE item

Refusing(damage) == damage.how \in {"error", "error_elsewhere"}

Hurt(damage, at, payload) ==
  LET items == itemsOf(payload)
      Touched(item) == item.type = damage.what \/ Refusing(damage)
      hurt  == [i \in DOMAIN items |-> IF Touched(items[i]) THEN Altered(damage, items[i]) ELSE items[i]]
  IN  IF damage.at # at \/ payload.kind # "items" THEN payload
      ELSE Items(IF Refusing(damage) THEN Append(hurt, Item("Error", Code(damage.to))) ELSE hurt)

-----------------------------------------------------------------------------
Attempts ==
  [code : Codes, controller : Controllers, damage : SetupDamages, flags : FlagValues]

NoLink == [verified |-> FALSE]

Init ==
  /\ attempt \in Attempts
  /\ turn = 0 /\ message = Items(<<>>)
  /\ ours = NoOctets /\ theirs = NoOctets
  /\ counted = FALSE /\ stored = Nobody /\ peer = Nobody
  /\ error = "none" /\ link = NoLink

Turn(n) == turn = n /\ error = "none" /\ UNCHANGED <<attempt, link>>
Arrived == Hurt(attempt.damage, turn, message)
Says(n, said) == turn' = n /\ message' = said /\ error' = "none"
EndsIn(name) == error' = name /\ UNCHANGED <<turn, message>>

(* The controller goes on with a request, or ends in an error.             *)
Goes(step, n) == IF step.error = "none" THEN Says(n, step.request) ELSE EndsIn(step.error)

SaysM1 == Turn(0) /\ Says(1, m1(attempt.flags)) /\ UNCHANGED <<ours, theirs, counted, stored, peer>>

SaysM2 ==
  Turn(1) /\ Says(2, begin(Arrived, Accessory).answer) /\ UNCHANGED <<ours, theirs, counted, stored, peer>>

SaysM3 ==
  /\ Turn(2)
  /\ \E step \in {m3(Arrived, attempt.code, Private)} :
       Goes(step, 3) /\ ours' = step.srpKey
  /\ UNCHANGED <<theirs, counted, stored, peer>>

SaysM4 ==
  /\ Turn(3)
  /\ \E did \in {prove(Arrived, Accessory)} :
       Says(4, did.answer) /\ counted' = did.counted
  /\ theirs' = SessionKey(Accessory.setupCode, Accessory.salt,
                          findItem(itemsOf(Arrived), "PublicKey"), Public(Accessory.private))
  /\ UNCHANGED <<ours, stored, peer>>

SaysM5 ==
  /\ Turn(4)
  /\ Goes(m5(Arrived, ours, attempt.controller), 5)
  /\ UNCHANGED <<ours, theirs, counted, stored, peer>>

SaysM6 ==
  /\ Turn(5)
  /\ \E did \in {introduce(Arrived, Accessory, theirs)} :
       Says(6, did.answer) /\ stored' = did.stored
  /\ UNCHANGED <<ours, theirs, counted, peer>>

Finishes ==
  /\ Turn(6)
  /\ \E last \in {finish(Arrived, ours)} :
       IF last.error = "none" THEN peer' = last.peer /\ Says(7, message)
                              ELSE EndsIn(last.error) /\ UNCHANGED peer
  /\ UNCHANGED <<ours, theirs, counted, stored>>

(* Pair verify with whoever answers: an accessory that keeps to HAP, or    *)
(* the emulated one.  The whole of it is one step: nobody else takes part. *)
Answer(device) ==
  IF device.hap THEN hapM2(verifyM1(Ephemeral), device) ELSE emulatorM2(verifyM1(Ephemeral), device)

Verifies(device, damage) ==
  /\ turn = 7 /\ error = "none" /\ turn' = 8
  /\ \E got \in {Hurt(damage, 2, Answer(device))} :
       \E step \in {verifyM3(got, Ephemeral, peer.publicKey, attempt.controller)} :
         link' = [answer |-> Answer(device), device |-> device, error |-> step.error, got |-> got,
                  keys |-> runPairVerify(got, Ephemeral), request |-> step.request,
                  verified |-> step.error = "none"]
  /\ UNCHANGED <<attempt, message, ours, theirs, counted, stored, peer, error>>

Next ==
  \/ SaysM1 \/ SaysM2 \/ SaysM3 \/ SaysM4 \/ SaysM5 \/ SaysM6 \/ Finishes
  \/ \E device \in Devices, damage \in VerifyDamages : Verifies(device, damage)

Spec == Init /\ [][Next]_vars

-----------------------------------------------------------------------------
Us   == Peer(attempt.controller.identifier, attempt.controller.publicKey)
Them == Peer(Accessory.identifier, publicKey(Accessory.seed))

Over == error # "none" \/ turn > 6
Fits == attempt.controller.identifier.bytes <= MAX_IDENTIFIER_BYTES

(* PairSetup/Controller and Accessory.ts: with the right code each side    *)
(* ends with the identifier and the key of the other; with a wrong one the *)
(* controller says so at M4 and the accessory counts it once; and a        *)
(* controller whose identifier does not fit says that, and is not kept.    *)
SetupConverses ==
  Over /\ attempt.damage = Unhurt =>
    /\ error = IF attempt.code # Accessory.setupCode THEN "WrongSetupCode"
               ELSE IF ~Fits THEN "IdentifierTooLong" ELSE "none"
    /\ counted <=> attempt.code # Accessory.setupCode
    /\ error = "none" => stored = Us /\ peer = Them
    /\ error # "none" => stored = Nobody /\ peer = Nobody

(* Response/Read.ts, Errors.ts: an Error item is a refusal by the code it  *)
(* holds whatever state stands beside it; any other damage ends in an      *)
(* error that blames the setup code only where the two keys differ (a salt *)
(* or a public key was altered); and no damage ends in a pairing with      *)
(* someone else, or in one that only the controller believes in.           *)
DamageNotBlamed ==
  Over /\ attempt.damage # Unhurt /\ attempt.code = Accessory.setupCode /\ Fits =>
    LET damage  == attempt.damage
        refused == damage.at \in {2, 4, 6} /\ Refusing(damage)
    IN  /\ refused => error = fromWire(Code(damage.to))
        /\ error = "WrongSetupCode" =>
              \/ refused /\ damage.to = Authentication
              \/ damage.at \in {2, 3} /\ damage.what \in {"Salt", "PublicKey"}
        /\ counted => damage.at \in {2, 3} /\ damage.what \in {"Salt", "PublicKey", "Proof"}
        /\ stored \in {Nobody, Us} /\ peer \in {Nobody, Them}
        /\ error = "none" => stored = Us /\ peer = Them

(* PairVerify/Controller/M3.ts, Session.ts, EncryptedSession.ts: the       *)
(* controller goes on exactly when the accessory it has paired with        *)
(* answers unaltered; then the accessory knows it too, and no other, and   *)
(* each end opens the frames the other one writes, of the same number      *)
(* only.  The emulator of the tests never gets there: its signature is     *)
(* over something else; it would take a stranger's M3 for the controller's,*)
(* and its /command hands on the octets of a frame it cannot open.         *)
VerifyConverses ==
  turn = 8 =>
    LET device == link.device
        us     == attempt.controller
        first  == publicKey(Ephemeral)
        keys   == accessoryKeys(x25519SharedSecret(device.ephemeral, first).value)
        As(stranger) ==
          verifyM3(link.got, Ephemeral, peer.publicKey,
                   [identifier |-> us.identifier, privateKey |-> stranger.privateKey]).request
    IN  /\ link.verified <=> device.hap /\ device.private = Accessory.seed /\ link.got = link.answer
        /\ ~link.verified /\ link.got = link.answer => link.error = "SignatureRejected"
        /\ link.verified =>
             /\ hapVerified(link.request, device, first, us)
             /\ \A stranger \in Controllers :
                  /\ hapVerified(As(stranger), device, first, us) => stranger.privateKey = us.privateKey
                  /\ emulatorVerified(As(stranger))
             /\ \A sent, read \in 0..MaxFrame, text \in Plaintexts :
                  LET opened == decryptFrame(keys, read, encryptFrame(link.keys, sent, text))
                      back   == decryptFrame(link.keys, read, encryptFrame(keys, sent, text))
                  IN  IF sent = read THEN opened = Ok(text) /\ back = Ok(text)
                      ELSE opened.error = "ForgedFrame" /\ back.error = "ForgedFrame"
        /\ \A text \in Plaintexts, n \in 0..MaxFrame :
             emulatorCommand(keys, n, encryptFrame(link.keys, n, text)) # text

==============================================================================
