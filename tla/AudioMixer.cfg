SPECIFICATION Spec
CONSTANTS
  Client = {c1, c2}
  NoClient = none
  NumStreams = 2
  Limit <- MCLimit
  Request <- MCRequest
  Priority = {1}
  Position = {2}
  Buffer = 2
  MaxPlayers = 3
  MaxTold = 1
INVARIANTS
  TypeOK
  PlayersAccounted
  FoundPlayerStays
  DoneIsTold
PROPERTIES
  HaltedByRule
  ToldOnCompletion
  PlaysOut
