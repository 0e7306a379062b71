SPECIFICATION Spec
CONSTANTS
  Nothing = Nothing
  MaxAttempts = 4
INVARIANT StatusNilOnNetworkError
CHECK_DEADLOCK FALSE
