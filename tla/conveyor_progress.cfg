SPECIFICATION FairSpec
CONSTANTS
  p1 = p1
  p2 = p2
  s1 = s1
  f1 = f1
  Preparers = {p1}
  Submitters = {s1}
  Finishers = {f1}
  InitialStates = {"PREPARING"}
  RetryLimit = 1
  RetryMismatches = TRUE
  MaxRequests = 4
  MaxJobs = 3
  MaxEvents <- EachOnce
PROPERTIES
  CopyEnds
  Implements
CHECK_DEADLOCK FALSE
