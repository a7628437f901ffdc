CONSTANTS
  n1 = n1
  t1 = t1
  m1 = m1
  NoNode = NoNode
  Nodes = {n1}
  Tasks = {t1}
  Monitors = {m1}
  Threshold = 2
  MaxFaults = 3
SPECIFICATION FairSpec
CHECK_DEADLOCK FALSE
INVARIANTS
  TypeOK
  PartitionMeansMisses
PROPERTIES
  LiveNodesComeBack
  SilentNodesAreEmptied
