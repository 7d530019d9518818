SPECIFICATION CSpec
CONSTANTS
  Runs = {1, 2, 3}
  NoRow = NoRow
  Collectors = {c}
  Backends = {"duckdb"}
  LastDay = 2
  MaxTokens = 1
  Overlap = 1
  Attempts = 2
  MaxFaults = 2
  Refreshes = TRUE
PROPERTIES ResolvedIsProven
CHECK_DEADLOCK FALSE
