SPECIFICATION Spec
CONSTANTS
  KnownGroups = {0, 2}
  UnknownGroups = {32}
  SystemIds = {0, 13}
  MaxCount = 2
  CircuitMax = 2
  RemoteMax = 2
  LocalMax = 1
INVARIANTS
  PendingStaysUnknown
CHECK_DEADLOCK FALSE
