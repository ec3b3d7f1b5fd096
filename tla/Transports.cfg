SPECIFICATION Spec
CONSTANTS
  MaxOps = 4
  LatePauses = FALSE
  TimeoutMax = 1
  CollisionMax = 1
  NoSignalMax = 3
  Settle = 1
  Lost = 3
  Budget = 10
  Threads = {t1, t2, t3}
  NoThread = NoThread
  MaxNest = 2
INVARIANTS
  OwnLines
  CountsHold
  OneInside
PROPERTIES
  DrainKeepsReply
  QuietBus
  ImplementsContract
  ContextsKeepConnection
  BudgetedEnds
CHECK_DEADLOCK FALSE
