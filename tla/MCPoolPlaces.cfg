SPECIFICATION FairSpec
CONSTANTS
  s1 = s1
  s2 = s2
  s3 = s3
  Slots <- Three
  Count = 1
  MaxExits = 1
  MaxFaults = 1
CHECK_DEADLOCK FALSE
INVARIANTS
  PlacesSound
  RunningHoldPlaces
  NoFreePlaceWhileWoken
  FreePlaceHasWorker
PROPERTIES
  WokenGetPlace
