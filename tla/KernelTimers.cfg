SPECIFICATION Spec
CONSTANTS
  Client = {c1, c2}
  Task = {t1}
  NoTask = notask
  NoClient = noclient
  NoTimer = notimer
  SigMax = 2
  MaxTimers = 3
  Pausable = {1}
INVARIANTS
  SharedSignalNeedsOverlap
  OwnExpiry
  QuietDestroyIsSafe
  OneShotFiresOnce
PROPERTIES
  DestructorReturns
  ExpiryAnswered
\* The clients may stop calling, and the process may crash.
CHECK_DEADLOCK FALSE
