SPECIFICATION Spec
CONSTANTS
  Programs = 1
  Days = 1
  MaxSlots = 1
  Combos = 1
  MaxRegister = 1
  HostYear = 5
INVARIANTS
  ExhaustionStops
CHECK_DEADLOCK FALSE
