SPECIFICATION FairControl
CONSTANTS
  Workers <- One
  MaxCalls = 2
  MaxOffers = 2
CHECK_DEADLOCK FALSE
INVARIANTS
  ControlSound
PROPERTIES
  
  WorkersFollow
