SPECIFICATION Spec
CONSTANTS
  s1 = s1
  s2 = s2
  s3 = s3
  Sessions = {s1, s2, s3}
  NoSession = NoSession
  MaxTyped = 3
  MaxQueued = 2
  InboxSize = 2
INVARIANTS
  EveryTurnHasItsHandle
  ParkedBehindTurn
  SteersRunNext
  GrantsEndWithTheVisit
  
PROPERTY NothingVanishes
SYMMETRY Interchangeable
CHECK_DEADLOCK FALSE
