SPECIFICATION PoolSpec
CONSTANTS
  h1 = h1
  w1 = w1
  k1 = k1
  k2 = k2
  w2 = w2
  f1 = f1
  d1 = d1
  d2 = d2
  m1 = m1
  c1 = c1
  o1 = o1
  s1 = s1
  v1 = v1
  v2 = v2
  ok = ok
  retry = retry
  Unheld = Unheld
  NoKey = NoKey
  NoRun = NoRun
  AnySeq = AnySeq
  Refused = Refused
  Nobody = Nobody
  Holders = {h1}
  Keys <- MCKeys
  Payloads <- MCPayloads
  Statuses = {"running"}
  MaxEpoch = 2
  MaxSeq = 3
  MaxSeeds = 0
  Works = {w1}
  Bound = {w1}
  Controls = {"running", "paused", "quit"}
  Workers <- MCWorkers
  Digests = {d1, d2}
  Modes = {m1}
  Checkpoints = {c1}
  Billable = {c1}
  Operations = {o1}
  Sessions = {}
  Forked = {}
  NoResult = NoResult
  Results = {ok, retry}
  Retryable = {retry}
  MaxGeneration = 2
  MaxEntries = 0
SYMMETRY Symmetric
CHECK_DEADLOCK FALSE
INVARIANTS
  TablesSound
  AttemptsDistinct
  RunsItsDescriptor
PROPERTIES
  ReplacedAttemptsAreFenced
  JournalSpec
