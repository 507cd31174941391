SPECIFICATION LiveSpec
CONSTANTS
  Callers = {c1, c2}
  Callbacks = {k1, k2}
  MaxRequests = 3
  MaxSpawns = 2
  MaxLines = 2
  None = None
INVARIANTS TypeOK NoForeignAnswer NoOrphan
PROPERTIES CallsAreSerial InFlightOnlyKilledByItsCaller CallsReturn
