CONSTANTS
  Regions = {r1, r2}
  MaxFrames = 2
  MaxResizes = 1
  MaxTextures = 3
  MaxLosses = 1
  MaxFails = 1
  None = None
SPECIFICATION Spec
INVARIANTS NoTornCopy HostCopyCurrent
SYMMETRY RegionSymmetry
CHECK_DEADLOCK FALSE
