SPECIFICATION FairLoopSpec
CONSTANTS
  Callers = {c1, c2}
  Threads = {m1, m2, m3}
  NoThread = NoThread
INVARIANTS
  LoopTypeOK
  OneLoopInOrder
PROPERTIES
  StopReachesAll
