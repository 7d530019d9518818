CONSTANTS
  MaxMembers = 2
SPECIFICATION ContractSpec
CHECK_DEADLOCK FALSE
INVARIANTS MissingIsFatal
