CONSTANTS
  t1 = t1
  t2 = t2
  n1 = n1
  n2 = n2
  d1 = d1
  d2 = d2
  m1 = m1
  NoTask = NoTask
  NoNode = NoNode
  Tasks = {t1}
  Nodes = {n1, n2}
  Dispatchers = {d1, d2}
  Reconcilers = {}
  Monitors = {m1}
  Recorders = {}
  Rank <- OnlyOne
  BatchSize = 2
  MaxReassign = 2
  Threshold = 1
  MaxAttempts = 2
  Outcomes <- Nobody
  Slow = {t1}
  MaxFaults = 1
SPECIFICATION Spec
SYMMETRY ClaimSymmetry
INVARIANTS
  SenderOwnsClaim
  RequeuesAreBounded
  RequeueInv
