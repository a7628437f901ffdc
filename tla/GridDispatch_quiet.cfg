CONSTANTS
  t1 = t1
  t2 = t2
  n1 = n1
  n2 = n2
  d1 = d1
  d2 = d2
  r1 = r1
  r2 = r2
  NoTask = NoTask
  NoNode = NoNode
  Tasks = {t1, t2}
  Nodes = {n1, n2}
  Dispatchers = {d1, d2}
  Reconcilers = {}
  Monitors = {}
  Recorders = {r1, r2}
  Rank <- InOrder
  BatchSize = 2
  MaxReassign = 1
  Threshold = 1
  MaxAttempts = 2
  Outcomes <- AllOutcomes
  Slow = {}
  MaxFaults = 0
SPECIFICATION Spec
PROPERTIES
  RunsErrands
