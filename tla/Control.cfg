SPECIFICATION Spec
CONSTANTS
  Tv = Tv
  Box = Box
  a1 = a1
  a2 = a2
  a3 = a3
  None = None
  Hosts <- Rooms
  Addresses <- Leases
  Speaks <- Spoken
  ShowsVideo <- Rooms
  Asked <- GivenCommands
  MaxCommands = 3
  MaxChanges = 2
SYMMETRY LeaseSymmetry
INVARIANTS
  ObeysFlags
  StaleMemoryHarmless
  FailureKeepsMemory
  MeansTheLast
CHECK_DEADLOCK FALSE
