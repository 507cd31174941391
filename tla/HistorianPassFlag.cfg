SPECIFICATION Spec
CONSTANTS
  Passes = {p1, p2}
  TwoPass = {p1}
  NoHolder = NoHolder
INVARIANT FlagCoversPass
CHECK_DEADLOCK FALSE
