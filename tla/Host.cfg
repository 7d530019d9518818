SPECIFICATION HostSpec
CONSTANTS
  Pids = {1, 2}
  Commands = {sh1, sh2}
  MaxStarts = 2
  MaxStops = 2
  Platforms = {"linux", "darwin"}
  Editions = 2
  MaxCommands = 3
  MaxRefusals = 2
  Threads = {t1, t2}
  MaxRequests = 4
  Limit = 2
  MaxBytes = 3
  Warehouses = {"duckdb", "motherduck", "bigquery"}
  Snapshots = {s1, s2}
  Operators = {o1, o2}
  Main = o1
  Attempts = {at1, at2}
  MaxMishaps = 2
  Installs = {"bigquery", "direct"}
  Admins = {ad1, ad2}
  MaxHitches = 2
  Overlap = {"none", "jobs", "commands"}
  Shells = {b1, b2}
  Intervals = {"default", "other"}
  MaxWishes = 3
  Tasks = {z1, z2}
  BudgetSeconds = 4
  Allowances = {2}
  Caps = {8}
  CleanupSeconds = 2
  MaxScopes = 3
  MaxDeadlines = 3
  LastInstant = 5
  z1 = z1
  z2 = z2
INVARIANTS WorkerRecorded ReturnsWhole RestoresOnce SettingsHold
PROPERTIES DeadlinesHold SchedulesHeal InitHolds HostProcessesEnd HostCommandsSucceed
CONSTRAINT Bounds
CHECK_DEADLOCK FALSE
