CONSTANTS
  Ids = {o1, o2}
  Keys = {enter, k1}
  Bindable = {k1}
  Return = enter
  KeepsUi = {o1}
  None = None
SPECIFICATION Spec
INVARIANTS KeysAgree StuckOnlyIfMissed
PROPERTIES UpsAreRegular
CHECK_DEADLOCK FALSE
