SPECIFICATION LiveSpec
CONSTANTS
  Virtual = {1, 2}
  Others = {o}
  Summaries = {x}
  MaxPrompts = 2
  MaxEvents = 1
  MaxSeqs = 1
  Evicted = 1
  None = None
INVARIANTS ChildGuarded AbortReaches AnswerIsOwn
PROPERTIES NoChildForever
CHECK_DEADLOCK FALSE
