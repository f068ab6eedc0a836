SPECIFICATION FairSpec
CONSTANTS
  c1 = c1
  c2 = c2
  d1 = d1
  f1 = f1
  u1 = u1
  u2 = u2
  Containers = {c1, c2}
  Datasets = {d1}
  Files = {f1}
  Clients = {u1, u2}
  ArchiveDids = TRUE
  ChunkSize = 2
  Kinds = {"small", "big"}
  Trees <- Chain
  MaxOps = 4
CHECK_DEADLOCK FALSE
INVARIANTS Acyclic LocksFollowContent
PROPERTIES LockedKept ExpiredErased
