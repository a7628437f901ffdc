CONSTANTS
  t1 = t1
  t2 = t2
  s1 = s1
  s2 = s2
  k1 = k1
  k2 = k2
  NoTask = NoTask
  NoSyncer = NoSyncer
  Tasks = {t1, t2}
  Rank <- Ranks
  Syncers = {s1, s2}
  Compactors = {}
  Loop = s1
  Limit = 1
  CompressMin = 2
  SummaryMin = 1
  Notes = {}
  MayComplete = {t1, t2}
  MayFail = {}
  MaxCopies = 3
  MaxDay = 0
  MaxFaults = 2
SPECIFICATION FairSpec
CHECK_DEADLOCK FALSE
INVARIANTS
  OneEntryPerTask
PROPERTIES
  HeadsAreRemembered
