SPECIFICATION Spec
CONSTANTS
  r1 = r1
  r2 = r2
  f1 = f1
  f2 = f2
  x1 = x1
  x2 = x2
  Rules = {r1, r2}
  Files = {f1}
  RSEs = {x1, x2}
  Origin <- MCOrigin
  Grouping <- MCByDataset
  MaxCopies = 1
  MaxEvents <- TwoKinds
  Edits = 1
  Bads = 1
  Temps = 1
  Updates = 1
SYMMETRY RuleSymmetry
INVARIANTS
  LockProtection
  OkStored
  HasRequest
  CountersExact
  StateAgrees
PROPERTIES
  SuspendedIsKept
\* The environment's events are bounded: the system stops when they are used up.
CHECK_DEADLOCK FALSE
