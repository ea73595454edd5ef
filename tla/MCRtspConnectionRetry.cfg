SPECIFICATION Spec
CONSTANTS
  Addresses = 1
  MaxRequests = 3
  MaxCommands = 1
INVARIANTS RetryNotCancelled
CHECK_DEADLOCK FALSE
