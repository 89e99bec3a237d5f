SPECIFICATION Spec
CONSTANTS
  NULL = NULL
  Text = Text
INVARIANTS
  PlaceMovesAsUnit
CHECK_DEADLOCK FALSE
