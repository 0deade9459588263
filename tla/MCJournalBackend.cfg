SPECIFICATION FairBackend
CONSTANTS
  b1 = b1
  b2 = b2
  k1 = k1
  p1 = p1
  Holders = {b1, b2}
  Keys = {k1}
  Payloads = {p1}
  Statuses = {s1, s2}
  s1 = s1
  s2 = s2
  Unheld = Unheld
  NoKey = NoKey
  Refused = Refused
  AnySeq = AnySeq
  NoRun = NoRun
  MaxEpoch = 3
  MaxSeq = 3
  MaxSeeds = 0
  Loads <- MCLoads
CHECK_DEADLOCK FALSE
INVARIANTS
  LeasesSound
  ProjectionFollowsLog
PROPERTIES
  TransitionsAreExpected
  
  ClosingEnds
