SPECIFICATION Spec
CONSTANTS
  n1 = n1
  Names = {n1}
  MaxEntries = 3
INVARIANTS
  AdvertisedReachesServer
  LeftoversAreRaces
CHECK_DEADLOCK FALSE
