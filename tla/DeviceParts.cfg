SPECIFICATION AllSpec
CONSTANTS
  KnownGroups = {0, 2}
  UnknownGroups = {32}
  SystemIds = {0, 13}
  MaxCount = 2
  CircuitMax = 2
  RemoteMax = 2
  LocalMax = 1
  Controllers = {c1, c2}
  Devices = {d1, d2}
  Reference = c1
  MaxScans = 2
  MaxSwaps = 1
INVARIANTS
  InformationKept
  PlanConfirmed
  LimitsTrue
PROPERTIES
  CoverageHonest
CHECK_DEADLOCK FALSE
