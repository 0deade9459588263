SPECIFICATION FairOutbox
CONSTANTS
  v1 = v1
  v2 = v2
  Keys = {"k1"}
  Values = {v1, v2}
  MaxEpoch = 3
  MaxGen = 2
  Loads <- MCLoads
CHECK_DEADLOCK FALSE
INVARIANTS
  OutboxSound
  AnswersAreTrue
PROPERTIES
  
  AcceptedIsSettled
