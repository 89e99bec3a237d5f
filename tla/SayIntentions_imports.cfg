CONSTANTS
  NULL = NULL
  MaxComm = 3
  MaxSession = 2
  MaxLink = 2
  MaxKill = 1
  Requests = {q1, q2}
  Wordless = {2}
SYMMETRY Symmetry
SPECIFICATION Spec
INVARIANTS
  CountedOnce
  CursorCovers
PROPERTIES
  NothingBeforeNow
