SPECIFICATION LiveSpec
CONSTANTS
  Passes = {p1, p2}
  TwoPass = {p1}
  NoHolder = NoHolder
INVARIANTS TypeOK RowTellsPublication CleanEnd PublishedOnce
PROPERTIES KeepsLedger PassEnds
CHECK_DEADLOCK FALSE
