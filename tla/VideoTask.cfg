SPECIFICATION Spec
CONSTANTS
  Client = {c1, c2}
  NoOne = NoOne
  MaxVideos = 2
  MaxCalls = 4
INVARIANTS
  FaultsNeedRace
  StopTerminates
PROPERTIES
  CallsReturn
CHECK_DEADLOCK FALSE
