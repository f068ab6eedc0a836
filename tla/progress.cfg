SPECIFICATION FairSpec
CONSTANTS
  r1 = r1
  r2 = r2
  f1 = f1
  f2 = f2
  x1 = x1
  x2 = x2
  Rules = {r1}
  Files = {f1}
  RSEs = {x1, x2}
  Origin <- MCOrigin
  Grouping <- MCGrouping
  MaxCopies = 2
  MaxEvents <- MCMaxEvents
  Edits = 1
  Bads = 1
  Temps = 0
  Updates = 0
INVARIANTS
  LockCntExact
  CopiesKept
PROPERTIES
  RulesSettle
  LocksReleased
  BadIsHandled
\* The environment's events are bounded: the system stops when they are used up.
CHECK_DEADLOCK FALSE
