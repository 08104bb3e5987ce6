SPECIFICATION Spec
CONSTANTS
  n1 = n1
  n2 = n2
  n3 = n3
  f1 = f1
  f2 = f2
  Name = {n1, n2, n3}
  File = {f1, f2}
  FileOf <- MCFileOf
  FP = {p1, p2}
  Closed = closed
  MaxOpens = 2
  MaxWrites = 2
\* A crash ends the last session; the bound on opens is then reached.
INVARIANT
  AllOrNothing
CHECK_DEADLOCK FALSE
