SPECIFICATION FairSpec
CONSTANTS
  k1 = k1
  d1 = d1
  d2 = d2
  p1 = p1
  p2 = p2
  NumTasks = 1
  Sessions = {k1}
  SessionOf <- OneSession
  Recurring = {1}
  Period = 1
  MaxAttempts = 2
  MaxTime = 3
  Procs <- TwoProcs
  Schedulers <- TwoProcs
  Drains <- DrainSlots
  NoDrain = NoDrain
  NoProc = NoProc
  Backoff = 1
  StaleAfter = 0
  Delays = {1}
  MaxCrashes = 1
INVARIANTS
  OneTurnPerTask
  AttemptsBoundedByRecoveries
  RowsMatchTurns
  TickIsWatched
PROPERTIES
  TerminalIsFinal
  ImplementsLifecycle
  DueTasksRun
  RunningEnds
CHECK_DEADLOCK FALSE
