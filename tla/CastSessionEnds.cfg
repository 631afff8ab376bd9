SPECIFICATION FairSpec
CONSTANTS
  main = main
  control = control
  a1 = a1
  a2 = a2
  Fibers <- MCFibers
  Main = main
  Apps <- MCApps
  Receiver = Receiver
  None = None
  MaxRequests = 2
  MaxPings = 1
PROPERTIES DeathReported
CHECK_DEADLOCK FALSE
