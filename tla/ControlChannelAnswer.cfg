SPECIFICATION FairChannelSpec
CONSTANTS
  p1 = p1
  p2 = p2
  c1 = c1
  c2 = c2
  Nobody = Nobody
  Players <- MCPlayers
  Clients <- MCClients
PROPERTIES Answered
CHECK_DEADLOCK FALSE
