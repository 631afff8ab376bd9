SPECIFICATION Spec
CONSTANTS
  Player = Player
  Other = Other
  Clients <- Both
  Waiting = Waiting
  Idle = Idle
  NoUri = NoUri
  Length = 1
  Levels <- Loud
  Retries = 1
  MaxBroken = 2
  Resumed = 1
  Commanded <- Asked
  MaxCommands = 1
INVARIANTS
  LastWord
  SeeksWhatPlays
  NeverFabricated
PROPERTIES
  Returns
CHECK_DEADLOCK FALSE
