SPECIFICATION Spec
CONSTANTS
  s1 = s1
  s2 = s2
  s3 = s3
  Sessions = {s1, s2}
  NoSession = NoSession
  MaxTyped = 5
  MaxQueued = 2
  InboxSize = 1
INVARIANT NoSteerBehindBacklog
SYMMETRY Interchangeable
CHECK_DEADLOCK FALSE
