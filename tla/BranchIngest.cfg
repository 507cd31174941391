SPECIFICATION IngestSpec
CONSTANTS
  Users = {u}
  Assistants = {a}
  Tools = {t}
  MaxLength = 3
  MaxRewinds = 1
INVARIANTS IdsAreStable IndexOfBranch DerivedStateOfBranch
CHECK_DEADLOCK FALSE
