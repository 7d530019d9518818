CONSTANTS
  Runs = {1, 2}
  NoRow = NoRow
  Others = {"sessions"}
  Attempts = 2
  Compactors = {k}
  LastDay = 1
  MaxTokens = 0
  MaxTime = 1
  LogsMayShrink = FALSE
SPECIFICATION FairSpec
CHECK_DEADLOCK FALSE
INVARIANTS TypeOK LedgerCertifies
PROPERTIES AllProcessed
