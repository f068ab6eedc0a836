SPECIFICATION Spec
CONSTANTS
  p1 = p1
  p2 = p2
  s1 = s1
  f1 = f1
  Preparers = {p1, p2}
  Submitters = {s1}
  Finishers = {f1}
  InitialStates = {"PREPARING"}
  RetryLimit = 1
  RetryMismatches = TRUE
  MaxRequests = 2
  MaxJobs = 2
  MaxEvents <- WantedThrice
SYMMETRY WorkerSymmetry
INVARIANTS
  CopyingHasRequest
  DoneIsReal
  AvailableIsStored
  RetriesBounded
CHECK_DEADLOCK FALSE
