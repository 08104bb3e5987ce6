SPECIFICATION Spec
CONSTANTS
  A = A
  B = B
  C = C
  Thread = {t1, t2}
  Module = {A, B, C}
  None = none
  Needs <- MCNeeds
  MaxCalls = 4
  MaxMade = 8
INVARIANTS
  HeldUnlessDisturbed
\* The bound on calls is reached with everything disconnected.
CHECK_DEADLOCK FALSE
