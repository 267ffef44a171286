CONSTANTS
  Regions = {r1}
  MaxFrames = 2
  MaxResizes = 1
  MaxTextures = 3
  MaxLosses = 1
  MaxFails = 1
  None = None
SPECIFICATION FairSpec
PROPERTIES EngineServed ResizeSettles
CHECK_DEADLOCK FALSE
