SPECIFICATION Spec
CONSTANTS
  c1 = c1
  c2 = c2
  r1 = r1
  r2 = r2
  x1 = x1
  Consolidations = {c1, c2}
  Resumes = {r1, r2}
  Readers = {x1}
  Loads <- MCLoads
SYMMETRY ConsolidationSymmetry
CHECK_DEADLOCK FALSE
INVARIANTS
  MovesSound
  EventsKept
  RecoveryShowsFenced
  ReadsAreWhole
PROPERTIES
  ResumeLeaseKept
