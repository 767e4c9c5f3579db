SPECIFICATION FairSpec
CONSTANTS
  Sessions = {1, 2}
  Subs = {1, 2}
  Requests = {1}
  Categories = {"shell"}
  Shapes = {}
  NoShape = NoShape
  Levels = {1}
  NoSub = NoSub
  NoSession = NoSession
  MaxStops = 1
PROPERTY EveryPromptSettles
CHECK_DEADLOCK FALSE
