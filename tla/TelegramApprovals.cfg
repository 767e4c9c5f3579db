SPECIFICATION FairSpec
CONSTANTS
  Sessions = {1, 2}
  Subs = {1, 2}
  Requests = {1, 2}
  Categories = {"shell"}
  Shapes = {git}
  NoShape = NoShape
  Levels = {1}
  NoSub = NoSub
  NoSession = NoSession
  MaxStops = 1
INVARIANTS
  PromptsAreWatched
  OnePendingPerSession
  PendingIsLive
  GrantsAreEarned
PROPERTY AutoIsEarned
PROPERTY DecidedOnce
PROPERTY PromptsSettle
CHECK_DEADLOCK FALSE
