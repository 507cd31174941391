SPECIFICATION LiveSpec
CONSTANTS
  Procs = {gateway, cli}
  None = None
  Empty = Empty
  Garbled = Garbled
  Pids = {p1, p2}
  MaxRespawns = 2
  MaxRepairs = 2
  Unset = Unset
INVARIANTS ConfigSafe SignalsHolders PushRouteKept
PROPERTIES MigrateEnds
CHECK_DEADLOCK FALSE
