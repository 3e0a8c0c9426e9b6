SPECIFICATION Spec
CONSTANTS
  Owner <- MCOwner
  Boards <- MCBoards
  Jogs <- MCJogs
  GRID = 10
  HAIR = 1
  KEEP = 4
  LabelW = 32
  LabelH = 6
  L6Steps = 4
INVARIANTS RoutedApart WholeButForStrays
CHECK_DEADLOCK FALSE
