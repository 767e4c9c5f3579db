SPECIFICATION FairSpec
CONSTANTS
  Sessions = {k1}
  s1 = s1
  s2 = s2
  s3 = s3
  Subs <- ThreeSubs
  Hooked = {}
  Signalled = {s2}
  NoSub = NoSub
  NumMsgs = 2
  MaxSteps = 2
  MaxPending = 1
  SaveMayFail = FALSE
  MayShutdown = TRUE
INVARIANTS
  HeardOrHandedBack
  SteersStayInTheirTurn
  TranscriptInOrder
PROPERTY TranscriptGrows
PROPERTY SteersResolve
CHECK_DEADLOCK FALSE
