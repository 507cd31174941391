SPECIFICATION LiveSpec
CONSTANTS
  MaxThreads = 3
  MaxLegs = 2
  None = None
INVARIANTS TypeOK DrainMissesNobody
PROPERTIES HostReturns
