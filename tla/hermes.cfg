SPECIFICATION FairSpec
CONSTANTS
  Workers <- TwoWorkers
  Host <- TwoHosts
  Renewal = 0
  OlderThan = 1
  Expiration = 2
  Services = {"elastic", "activemq"}
  Bulk = 1
  MaxRows = 2
  Hash <- SameShare
  MaxFaults = 2
INVARIANTS  SameViewDisjoint
PROPERTY Delivered
