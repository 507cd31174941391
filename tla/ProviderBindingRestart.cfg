SPECIFICATION Spec
CONSTANTS
  Sessions = {s1, s2}
  Threads = {host, worker}
  MaxSpawns = 2
  None = None
INVARIANT RestartedSidecarIsBound
CHECK_DEADLOCK FALSE
