CONSTANTS
  t1 = t1
  t2 = t2
  w1 = w1
  w2 = w2
  NoTask = NoTask
  NoWorker = NoWorker
  Tasks = {t1, t2}
  Workers = {w1, w2}
  Priority <- TwoPriorities
  MaxAttempts = 2
  MaxRetries = 1
  MaxFaults = 2
SPECIFICATION Spec
SYMMETRY WorkerSymmetry
INVARIANTS
  TypeOK
  ExactlyOneResult
  BeliefIsTruth
  AtMostOneRun
  IInv
