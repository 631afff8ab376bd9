SPECIFICATION Spec
CONSTANTS
  c1 = c1
  c2 = c2
  c3 = c3
  broken = broken
  right = right
  wrong = wrong
  Nobody = Nobody
  Nothing = Nothing
  NoKey = NoKey
  Controllers <- MCControllers
  Broken <- MCBroken
  Codes <- MCCodes
  Code = right
  TransientCode = right
  Limit = 2
SYMMETRY Symmetry
INVARIANTS OnlyWrongCodesCount NoFalseBlame Agreement
PROPERTIES LockedOut
CHECK_DEADLOCK FALSE
