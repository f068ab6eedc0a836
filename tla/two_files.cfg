SPECIFICATION Spec
CONSTANTS
  r1 = r1
  r2 = r2
  f1 = f1
  f2 = f2
  x1 = x1
  x2 = x2
  Rules = {r1}
  Files = {f1, f2}
  RSEs = {x1, x2}
  Origin <- MCOrigin
  Grouping <- MCGrouping
  MaxCopies = 1
  MaxEvents <- MCMaxEvents
  Edits = 2
  Bads = 0
  Temps = 0
  Updates = 0
INVARIANTS
  CopiesKept
  NoStrandedLocks
  StateAgrees
\* The environment's events are bounded: the system stops when they are used up.
CHECK_DEADLOCK FALSE
