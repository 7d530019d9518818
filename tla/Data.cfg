SPECIFICATION DataSpec
CONSTANTS
  Runs = {1, 2}
  NoRow = NoRow
  Collectors = {c1, c2}
  Backends = {"duckdb", "motherduck"}
  LastDay = 2
  MaxTokens = 2
  Overlap = 1
  Attempts = 2
  MaxFaults = 2
  Refreshes = FALSE
  Models = {m1, m2}
  Pricers = {d1}
  PricingRuns = 3
  PricingDays = 2
  MaxEdits = 2
  MaxSlips = 1
  InTurn = TRUE
  Names = {n1, n2}
  SessionRuns = 2
  SessionDays = 2
  MaxTurns = 2
  Versions = 2
  MaxSlumps = 1
  MaxMembers = 2
  Stores = {"direct", "bigquery"}
  Users = {"u", "v"}
  Tags = {"a", "b"}
  Texts = {"x", "y"}
  MaxCommands = 3
  Engines = {"direct", "bigquery"}
  MaxRuns = 3
  MaxBreaks = 2
  Archives = {1, 2}
  Snapshots = {1, 2}
  Objects = 2
  MaxGlitches = 2
  Calls = {k1, k2, k3}
  Providers = {"local", "gcs"}
  Tries = 2
  MaxLosses = 2
  Threads = {t1, t2, t3}
  MaxGates = 4
  MaxTime = 4
  Hosts = {1, 2}
  NoHost = NoHost
  DeadHost = DeadHost
  Locations = 2
  Weekly = {1}
  Interval = 2
  WeekLength = 2
  MaxSnapshots = 1
  WeeklySlots = 2
  MaxWrites = 2
  MaxUpsets = 1
  LastDate = 4
  n1 = n1
  n2 = n2
CONSTRAINT Bounds
INVARIANTS HistoryStands SessionsStand VerdictIsRight CurationStands IsOfOneInstant RestoresLatest
PROPERTIES RecordsUsage SettlesDays PricesFollow BucketsHold DestinationsHold
CHECK_DEADLOCK FALSE
