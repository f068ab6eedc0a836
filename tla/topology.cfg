SPECIFICATION Spec
CONSTANTS
  a = a
  b = b
  c = c
  h = h
  d = d
  Rses = {a, b, c, h, d}
  Matching <- Expressions
  Writable = {a, b, c, h, d}
  Nothing = Nothing
  Invalid = Invalid
  Blocked = Blocked
  Readable = {a, b, c, h}
  Restricted = {}
  Tape = {a}
  Protocols <- Schemes
  NoUse = NoUse
  Family <- Families
  HopPenalty <- Penalties
  Distances = {1, 3}
  NoDistance = NoDistance
  Changeable <- TwoPairs
  Starts <- AllStarts
  Requests <- AllRequests
  MaxTokens = 7
CHECK_DEADLOCK FALSE
INVARIANTS ParserAgrees EdgesCurrent ShortestPaths CandidatesSound
