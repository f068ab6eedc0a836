SPECIFICATION Spec
CONSTANTS
  admin = admin
  kept = kept
  loose = loose
  a1 = a1
  other = other
  x = x
  y = y
  m = m
  n = n
  Accounts = {a1}
  RoleNames = {admin, kept, loose}
  Reserved = {admin}
  PolicyRoles = {admin, kept}
  Jobs = {1}
  Scopes = {x, y}
  Names = {m, n}
  Patterns <- SomePatterns
  ScopeOwner <- OwnsOneScope
  DidOwner <- OwnsOneDid
  MaxTime = 2
  MaxOps = 3
INVARIANTS
  SyncMeetsSupply
  DryRunPredicts
  ListingAgrees
CHECK_DEADLOCK FALSE
