SPECIFICATION Spec
CONSTANTS
  MaxRequests = 2
  MaxAttempts = 2
  MaxReconnects = 1
INVARIANTS
  FailureAuthoritative
CHECK_DEADLOCK FALSE
