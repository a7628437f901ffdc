CONSTANTS
  t1 = t1
  t2 = t2
  n1 = n1
  n2 = n2
  d1 = d1
  r1 = r1
  r2 = r2
  NoTask = NoTask
  NoNode = NoNode
  Tasks = {t1}
  Nodes = {n1, n2}
  Dispatchers = {d1}
  Reconcilers = {}
  Monitors = {}
  Recorders = {r1, r2}
  Rank <- OnlyOne
  BatchSize = 2
  MaxReassign = 1
  Threshold = 1
  MaxAttempts = 1
  Outcomes <- TwoOutcomes
  Slow = {t1}
  MaxFaults = 1
SPECIFICATION FairSpec
INVARIANTS
  TypeOK
  RecordsAreReported
PROPERTIES
  AllSettle
