SPECIFICATION CaseSpec
CONSTANTS
  Base = 4
  Width = 2
  Modulus = 11
  Generator = 2
  MaxValueLength = 2
  Separator = 9
  HighBit = 4
  Accessory <- MCAccessory
  Private <- MCPrivate
  Ephemeral <- MCEphemeral
  Controllers <- MCControllers
  Codes <- MCCodes
  FlagValues <- MCFlagValues
  Errors <- MCErrors
  Devices <- MCDevices
  Plaintexts <- MCPlaintexts
  MaxFrame = 2
CHECK_DEADLOCK FALSE
INVARIANTS
  BadPacketHarmless
