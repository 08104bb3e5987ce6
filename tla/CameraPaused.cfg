SPECIFICATION Spec
CONSTANTS
  Client = {c1, c2}
  Usb = usb
  NoOne = NoOne
  PollMax = 1
  MaxCaptures = 2
  MaxCalls = 3
INVARIANTS
  PausedStays
CHECK_DEADLOCK FALSE
