SPECIFICATION PairSpec
CONSTANTS
  h1 = h1
  h2 = h2
  k1 = k1
  p1 = p1
  running = running
  paused = paused
  Unheld = Unheld
  NoKey = NoKey
  NoRun = NoRun
  AnySeq = AnySeq
  Refused = Refused
  Holders <- MCHolders
  Keys <- MCKeys
  Payloads <- MCPayloads
  Statuses <- MCStatuses
  MaxEpoch = 3
  MaxSeq = 3
  MaxSeeds = 2
SYMMETRY Symmetric
CHECK_DEADLOCK FALSE
INVARIANTS
  JournalSound
  JournalsAgree
PROPERTIES
  OnlyLatestHolderWrites
  IsFencedLog
  MemoryIsFencedLog
