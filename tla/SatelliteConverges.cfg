CONSTANTS
  Sizes = {1, 2, 3}
  Regions = {r1}
  Kinds = {"window"}
  EmptyDamage = TRUE
  Revisit = FALSE
  MaxTextures = 3
  MaxResizes = 2
  MaxAppFrames = 1
  MaxFails = 0
  None = None
SPECIFICATION FairSpec
PROPERTIES Converges
CHECK_DEADLOCK FALSE
