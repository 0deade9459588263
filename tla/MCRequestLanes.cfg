SPECIFICATION FairLanes
CONSTANT MaxRequests = 4
CHECK_DEADLOCK FALSE
INVARIANTS
  LanesSound
  BarrierRunsAlone
PROPERTIES
  EveryRequestStarts
