SPECIFICATION LiveSpec
CONSTANTS
  MaxRequests = 3
  MaxCallbacks = 2
  MaxAttempts = 2
  None = None
INVARIANTS ExitAnswersAll
PROPERTIES ServesInOrder StoreStaysShut Served
CHECK_DEADLOCK FALSE
