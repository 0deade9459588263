SPECIFICATION PoolSpec
CONSTANTS
  h1 = h1
  w1 = w1
  k1 = k1
  k2 = k2
  w2 = w2
  f1 = f1
  d1 = d1
  d2 = d2
  m1 = m1
  c1 = c1
  o1 = o1
  s1 = s1
  v1 = v1
  v2 = v2
  ok = ok
  retry = retry
  Unheld = Unheld
  NoKey = NoKey
  NoRun = NoRun
  AnySeq = AnySeq
  Refused = Refused
  Nobody = Nobody
  NoResult = NoResult
  Holders = {h1}
  Keys <- TwoKeys
  Payloads = {v1}
  Statuses = {"running"}
  MaxEpoch = 1
  MaxSeq = 3
  MaxSeeds = 0
  Works <- MCWorks
  Bound = {w1}
  Controls = {}
  Workers = {k1}
  Digests = {d1}
  Modes = {m1}
  Checkpoints = {c1}
  Billable = {c1}
  Operations = {o1}
  Sessions = {s1, f1}
  Forked = {f1}
  Results = {}
  Retryable = {}
  MaxGeneration = 2
  MaxEntries = 2
SYMMETRY SymmetricWorks
CHECK_DEADLOCK FALSE
INVARIANTS
  SessionsSound
