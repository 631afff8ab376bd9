SPECIFICATION PartsSpec
CONSTANTS
  p1 = p1
  p2 = p2
  c1 = c1
  c2 = c2
  Nobody = Nobody
  Players <- MCPlayers
  Clients <- MCClients
  pairing = pairing
  active = active
  seek = seek
  v1 = v1
  v2 = v2
  u1 = u1
  u2 = u2
  None = None
  Missing = Missing
  Unreadable = Unreadable
  Fields <- MCFields
  Seek = seek
  Active = active
  Values <- MCValues
  Updaters <- MCUpdaters
  MaxSeeks = 2
  Serial = TRUE
  Nil = Nil
  Bitrates <- MCBitrates
  InitialIndex = 1
  Rates <- MCRates
  StallDebounce = 1
  StallWindow = 2
  Burst = 3
  Settle = 4
  StallCluster = 5
  ProbeHold = 6
  ProbeAfter = 8
  Penalty = 9
INVARIANTS Reachable NeverRefused ReadableUnlessDamaged
PROPERTIES UnreadableKept IsAMemory OnlyStallsRefute RestartsKeepRaisesApart StallsReachBottom
CHECK_DEADLOCK FALSE
