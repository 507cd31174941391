SPECIFICATION Spec
CONSTANTS
  Sidecars = {s1, s2, s3}
  MaxAttempts = 1
  Stalls = FALSE
  NoPid = NoPid
INVARIANT OneOpener
CHECK_DEADLOCK FALSE
