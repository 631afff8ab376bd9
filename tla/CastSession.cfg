SPECIFICATION Spec
CONSTANTS
  main = main
  control = control
  a1 = a1
  a2 = a2
  Fibers <- MCFibers
  Main = main
  Apps <- MCApps
  Receiver = Receiver
  None = None
  MaxRequests = 4
  MaxPings = 0
SYMMETRY AppSymmetry
INVARIANTS NoIdTwice OpenedIsHeard OneApplication
CHECK_DEADLOCK FALSE
