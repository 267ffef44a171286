CONSTANTS
  Posters = {p1, p2}
  MaxTasks = 2
  MaxItems = 1
  MaxTime = 1
  MaxSpurious = 0
  NestedPump = TRUE
  None = None
SYMMETRY PosterSymmetry
SPECIFICATION Spec
INVARIANT FloodGuard
PROPERTY ImplementsQueue
CHECK_DEADLOCK FALSE
