SPECIFICATION Spec
CONSTANTS
  t1 = t1
  t2 = t2
  Threads = {t1, t2}
  k1 = k1
  k2 = k2
  Keys = {k1, k2}
  NoKey = NoKey
  MaxEntries = 2
  MaxId = 3
  MaxTries = 1
SYMMETRY QueueSymmetry
INVARIANTS
  TypeOK
  OneEvictionPending
  LockSuffices
PROPERTIES
  OnlyDeliveredLeave
