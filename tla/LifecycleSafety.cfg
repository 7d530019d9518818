CONSTANTS
  Ids = {i}
  Catalogs = {a, b}
  NoOne = NoOne
  NoState = NoState
  Tasks = {"write", "copy", "pin", "delete"}
  Repeats = {1}
  Faults = {"raise", "overtaken"}
  MaxFence = 3
SPECIFICATION Spec
SYMMETRY Symmetry
CHECK_DEADLOCK FALSE
INVARIANTS TypeOK PublishedIsOwnWork SidecarFollows
PROPERTIES PinnedSpared KeepsRecoveryPoints SidecarNeverBack
