SPECIFICATION LiveSpec
CONSTANTS
  Sidecars = {s1, s2}
  MaxAttempts = 2
  Stalls = TRUE
  NoPid = NoPid
INVARIANTS TypeOK RestingHoldsNothing
PROPERTIES ActsAsLock LiveHolderSpared WaitEnds
CHECK_DEADLOCK FALSE
