SPECIFICATION FairSpec
CONSTANTS
  g1 = g1
  g2 = g2
  e1 = e1
  e2 = e2
  Groups = {g1, g2}
  Effects = {e1, e2}
  Fonts = {f1, f2}
  Options <- MCOptions
  Slots = {0}
  Textures = {t1}
  WithVertexShader <- MCWithVertexShader
  OpaqueEffects <- MCOpaqueEffects
  Sizes = {0, 2}
  AppEffects = {"Hologram"}
  Capacity = 3
  None = None
  GlitchFrames = {1, 2}
  MaxClock = 2
  Budgets <- MCBudgets
INVARIANTS WithinBuffer DrawnAsAsked HostStateKept
PROPERTIES LatchIsSnapshot GlitchEnds
CHECK_DEADLOCK FALSE
