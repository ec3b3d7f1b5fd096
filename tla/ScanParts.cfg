SPECIFICATION AllSpec
CONSTANTS
  TaskCount = 2
  ProgramCount = 1
  MaxAttempts = 2
  MaxBudget = 3
  MaxProbes = 1
  MaxReplans = 2
  Groups = {g1}
  MaxCode = 1
  MaxEdits = 1
  MaxRequests = 2
  MaxReconnects = 1
  MaxEntries = 2
  MaxSize = 2
  NamespaceCount = 2
  MaxLimit = 4
  MaxBefore = 1
  Unlimited = Unlimited
INVARIANTS
  FairInv
  ReportsTrue
  TakenInTurn
  ArtifactTrue
  PlanSound
  ReplayTrue
  RowsTrue
PROPERTIES
  ReplanKeeps
CHECK_DEADLOCK FALSE
