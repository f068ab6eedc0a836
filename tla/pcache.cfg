SPECIFICATION FairSpec
CONSTANTS
  d1 = d1
  w1 = w1
  w2 = w2
  Downloads = {d1}
  Wrappers = {w1, w2}
  MaxRetries = 1
  MaxCleanings = 1
  MaxKills = 1
INVARIANTS
  Exclusive
  
  
PROPERTIES
  EveryoneEnds
CHECK_DEADLOCK FALSE
