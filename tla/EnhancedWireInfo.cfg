SPECIFICATION Spec
CONSTANTS
  Telegrams <- FewTelegrams
  NackMax = 1
  MaxOps = 3
INVARIANTS
  InfoIsOurs
CHECK_DEADLOCK FALSE
