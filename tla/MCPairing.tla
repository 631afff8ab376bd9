------------------------------ MODULE MCPairing ------------------------------
(* Values for Pairing: a code that is right and one that is not, a         *)
(* controller of the longest identifier, one whose identifier is an octet  *)
(* too long, and the accessory, another one and the emulator to answer.    *)
EXTENDS Pairing

MCAccessory ==
  [identifier |-> Text("accessory", 17), private |-> Text("b", 32), salt |-> Text("salt", SALT_BYTES),
   seed |-> Text("seed", 32), setupCode |-> Code(1)]

Named(name, bytes) ==
  [identifier |-> Text(name, bytes), privateKey |-> Text("private", 32), publicKey |-> publicKey(Text("private", 32))]
Stranger ==
  [identifier |-> Text("stranger", MAX_IDENTIFIER_BYTES + 1), privateKey |-> Text("strange", 32),
   publicKey |-> publicKey(Text("strange", 32))]

MCDevice(hap, seed) ==
  [ephemeral |-> Text("theirs", 32), hap |-> hap, identifier |-> Text("accessory", 17), private |-> Text(seed, 32)]

MCControllers == {Named("controller", 1), Named("controller", MAX_IDENTIFIER_BYTES), Stranger}
MCCodes       == {Code(1), Code(2)}
MCFlagValues  == {0, 16, 16777216}
MCErrors      == {Authentication, MaxTries, 200}
MCDevices     == {MCDevice(TRUE, "seed"), MCDevice(TRUE, "another"), MCDevice(FALSE, "seed")}
MCPrivate     == Text("a", 32)
MCEphemeral   == Text("ours", 32)
MCPlaintexts  == {Text("plist", 300)}
==============================================================================
