CONSTANTS
  t1 = t1
  t2 = t2
  w1 = w1
  w2 = w2
  NoTask = NoTask
  NoWorker = NoWorker
  Tasks = {t1, t2}
  Workers = {w1}
  Priority <- TwoPriorities
  MaxAttempts = 3
  MaxRetries = 1
  MaxFaults = 2
SPECIFICATION FairSpec
INVARIANTS
  RetryAccounting
PROPERTIES
  FinalIsFinal
  ImplementsTaskBoard
  PendingIsTakenUp
  DispatchedIsResolved
