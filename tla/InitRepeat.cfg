SPECIFICATION InstallSpec
CONSTANTS
  Installs = {"bigquery"}
  Admins = {a, b}
  MaxHitches = 2
  Overlap = {"jobs"}
INVARIANTS OneOfEach
CHECK_DEADLOCK FALSE
