CONSTANTS
  Sizes = {1, 2}
  Regions = {r1, r2}
  Kinds = {"window", "offscreen"}
  EmptyDamage = FALSE
  Revisit = TRUE
  MaxTextures = 3
  MaxResizes = 2
  MaxAppFrames = 1
  MaxFails = 1
  None = None
SPECIFICATION Spec
INVARIANTS SurfaceCoherent NoFrameLost HostCopyCurrent
SYMMETRY RegionSymmetry
CHECK_DEADLOCK FALSE
