CONSTANTS
  Catalogs = {a, b}
  NoOne = NoOne
  Lease = 2
  Tries = 2
  MaxFence = 1
  JoinMayTimeOut = TRUE
SPECIFICATION Spec
SYMMETRY Symmetry
INVARIANTS TypeOK HeldFencesDistinct
PROPERTIES ChangesFenced LiveLeaseKept
