SPECIFICATION Spec
CONSTANTS
  Users = {u1, u2, u3}
  KeyPoolSize = 1
  Refills = {2}
  MaxKeys = 6
SYMMETRY UserSymmetry
INVARIANTS EntriesKept SingleUser UsedNeverPooled
