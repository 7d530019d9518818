CONSTANTS
  Catalogs = {a, b}
  Ids = {i, j}
  NoOne = NoOne
  NoState = NoState
  Lease = 2
  Tries = 2
  MaxFence = 2
  MaxTasks = 3
  JoinMayTimeOut = FALSE
SPECIFICATION ArchiveSpec
CHECK_DEADLOCK FALSE
INVARIANTS CrashesHeal
PROPERTIES LoopsEnd KeepsPromise TasksEnd
