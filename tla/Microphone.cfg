SPECIFICATION Spec
CONSTANTS
  Client = {app, disp}
  Dispatcher = disp
  Timer = timer
  Usb = usb
  NoOne = NoOne
  QueueMax = 1
  MaxCaptures = 2
  MaxCalls = 3
INVARIANTS
  DeviceHeld
  EndIsExplained
PROPERTIES
  CallsReturn
  LimitEnds
CHECK_DEADLOCK FALSE
