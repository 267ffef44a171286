CONSTANTS
  Windows = {w1, w2}
  Offscreen = {o1}
  Slow = {w2}
  Refusals = TRUE
  None = None
SPECIFICATION FairSpec
INVARIANTS EngineViewHasSurface InputReachesLiveView AnswerHasBox
           EndedLeavesNothing
PROPERTIES CloseCompletes
CHECK_DEADLOCK FALSE
