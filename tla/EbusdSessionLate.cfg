SPECIFICATION Spec
CONSTANTS
  MaxOps = 3
  LatePauses = TRUE
INVARIANTS
  OwnLines
CHECK_DEADLOCK FALSE
