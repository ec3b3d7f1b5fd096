SPECIFICATION Spec
CONSTANTS
  TimeoutMax = 1
  CollisionMax = 1
  NackMax = 1
  ReconnectMax = 2
  Budget = 1
INVARIANTS
  RequestsBounded
  TerminalDiagnosis
PROPERTIES
  ImplementsContract
