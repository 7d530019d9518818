CONSTANTS
  Runs = {1, 2}
  NoRow = NoRow
  Others = {}
  Attempts = 1
  Compactors = {k, l}
  LastDay = 2
  MaxTokens = 1
  MaxTime = 2
  LogsMayShrink = TRUE
SPECIFICATION Spec
CHECK_DEADLOCK FALSE
SYMMETRY Symmetry
INVARIANTS ProcessedIsCompacted
PROPERTIES ShownOnlySuperseded FallsOnlyOnRace
