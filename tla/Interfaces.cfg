SPECIFICATION AllSpec
CONSTANTS
  Timers = {before, after, other}
  MaxChanges = 2
  Addresses = {1, 2}
  Preferred = 2
  Hosts = {h1, h2}
  MaxRetries = 2
  Programs = 2
  Days = 1
  MaxSlots = 2
  Combos = 2
  MaxRegister = 3
  HostYear = 5
  MaxSessions = 2
  MaxOps = 6
  Values = {v1, v2, v3}
  MaxRechecks = 2
INVARIANTS
  FrameInv
  ResultTrue
  DumpsTrue
  OneVerifiedOperation
  HistoryTrue
  ParameterFrames
PROPERTIES
  ReadbackDecides
  PromiseKept
  StartsOnce
  WriteWherePrepared
  NothingHangs
  NoBlindOverwrite
  ParameterEnds
  ParameterPromiseKept
CHECK_DEADLOCK FALSE
