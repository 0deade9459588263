SPECIFICATION CoordSpec
CONSTANTS
  h1 = h1
  w1 = w1
  k1 = k1
  k2 = k2
  d1 = d1
  d2 = d2
  m1 = m1
  v1 = v1
  ok = ok
  retry = retry
  Unheld = Unheld
  NoKey = NoKey
  NoRun = NoRun
  AnySeq = AnySeq
  Refused = Refused
  Nobody = Nobody
  NoResult = NoResult
  None = None
  Holders = {h1}
  Keys <- MCKeys
  Payloads = {v1}
  Statuses = {"running"}
  MaxEpoch = 2
  MaxSeq = 1
  MaxSeeds = 0
  Works = {w1}
  Bound = {}
  Controls = {"running"}
  Workers <- MCWorkers
  Digests = {d1}
  Modes = {m1}
  Checkpoints = {}
  Billable = {}
  Operations = {}
  Sessions = {}
  Forked = {}
  Results = {ok, retry}
  Retryable = {retry}
  MaxGeneration = 3
  MaxEntries = 0
  AttemptLimit = 2
INVARIANTS
  FailedIsNotClaimable
CHECK_DEADLOCK FALSE
