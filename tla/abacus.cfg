SPECIFICATION Spec
CONSTANTS
  f1 = f1
  f2 = f2
  x1 = x1
  alice = alice
  bob = bob
  Files = {f1, f2}
  Rses = {x1}
  Accounts = {alice, bob}
  Rules = {1, 2}
  Target <- OneTarget
  AccountWorkers = {1, 2}
  NoAccount = none
  NoUsage = uncounted
  AnyRse = any
  MaxOps <- Bounds
SYMMETRY Symmetric
CHECK_DEADLOCK FALSE
INVARIANTS UsageExact 
