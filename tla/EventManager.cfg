SPECIFICATION ManagerSpec
CONSTANTS
  l1 = l1
  l2 = l2
  l3 = l3
  t1 = t1
  t2 = t2
  g = g
  Listener = {l1, l2, l3}
  NoListener = none
  Type = {t1, t2}
  Group = {g}
  GroupOf <- MCGroupOf
  EventList <- MCEventList
  Slots = 4
  MaxChanges = 5
INVARIANTS
  CyclesOnlyFromOverlap
  DisabledFits
  NoDeadEntry
  UndisturbedWalkIsExact
  NoListenerMissed
PROPERTIES
  FaultNeedsDisturbance
SYMMETRY MCSymmetry
CHECK_DEADLOCK FALSE
