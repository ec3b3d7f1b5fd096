SPECIFICATION Spec
CONSTANTS
  MaxEntries = 1
INVARIANTS
  MigrationRepairs
CHECK_DEADLOCK FALSE
