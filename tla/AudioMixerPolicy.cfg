SPECIFICATION Spec
CONSTANTS
  Client = {c1}
  NoClient = none
  NumStreams = 2
  Limit <- MCLimit
  Request <- MCRequest
  Priority = {}
  Position = {}
  Buffer = 2
  MaxPlayers = 3
  MaxTold = 1
PROPERTIES
  StartsByPolicy
