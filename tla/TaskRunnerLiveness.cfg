CONSTANTS
  Posters = {p1}
  MaxTasks = 1
  MaxItems = 1
  MaxTime = 1
  MaxSpurious = 1
  NestedPump = FALSE
  None = None
SPECIFICATION FairSpec
PROPERTIES QueuedIsServed
CHECK_DEADLOCK FALSE
INVARIANTS WakeupNotLost
