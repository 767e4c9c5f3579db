SPECIFICATION FairSpec
CONSTANTS
  Critical = 2
  BreakerStreak = 1
  HistorySize = 6
  Escalation = 2
  Wandering = {"nav1", "nav2"}
  ToolOf <- ToolOfCall
  NoCall = "none"
  Calls <- SomeCalls
  ClassOf <- ClassOfCall
  Mutating = {"store", "write"}
  Views = {"view"}
  Emissions <- SomeEmissions
  Cap = 2
  WaveCeiling = 3
  Results = {"r1", "r2"}
  MaxSteps = 3
  MaxTurns = 2
  MayAbort = TRUE
INVARIANTS
  DispatchOrder
  StepsAreWhole
  RutIsCut
  VetoesEndTurn
PROPERTY TurnEnds
CHECK_DEADLOCK FALSE
