SPECIFICATION Spec
CONSTANTS
  Critical = 5
  BreakerStreak = 3
  HistorySize = 30
  Escalation = 12
  Wandering = {}
  ToolOf <- Self
  NoCall = "none"
  Calls <- Reads
  ClassOf <- Read
  Mutating = {}
  Views = {}
  Emissions <- FiveReads
  Cap = 8
  WaveCeiling = 32
  Results = {"r1"}
  MaxSteps = 9
  MaxTurns = 1
  MayAbort = FALSE
INVARIANT RepeatsEnd
CHECK_DEADLOCK FALSE
