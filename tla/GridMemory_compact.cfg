CONSTANTS
  t1 = t1
  t2 = t2
  s1 = s1
  s2 = s2
  k1 = k1
  k2 = k2
  NoTask = NoTask
  NoSyncer = NoSyncer
  Tasks = {t1, t2}
  Rank <- Ranks
  Syncers = {s1}
  Compactors = {k1, k2}
  Loop = s1
  Limit = 2
  CompressMin = 1
  SummaryMin = 2
  Notes <- SomeNotes
  MayComplete = {t1}
  MayFail = {t1}
  MaxCopies = 2
  MaxDay = 2
  MaxFaults = 1
SYMMETRY CompactorSymmetry
SPECIFICATION Spec
CHECK_DEADLOCK FALSE
INVARIANTS
  TypeOK
  NothingForgotten
PROPERTIES
  SyncedStaysSynced
  FailureTrailKept
