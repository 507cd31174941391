SPECIFICATION Spec
CONSTANTS
  Sessions = {boot, s1}
  Bootstrap = boot
  MaxSpawns = 4
  None = None
INVARIANTS TypeOK CacheTells OneHookRefused ToolLands
