CONSTANTS
  Runs = {1, 2}
  NoRow = NoRow
  Others = {}
  Attempts = 1
  Compactors = {k}
  LastDay = 1
  MaxTokens = 2
  MaxTime = 2
  LogsMayShrink = FALSE
SPECIFICATION Spec
CHECK_DEADLOCK FALSE
PROPERTIES UsageNeverFalls
