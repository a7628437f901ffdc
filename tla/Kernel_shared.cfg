CONSTANTS
  c1 = c1
  c2 = c2
  p1 = p1
  p2 = p2
  NoTask = NoTask
  Callers = {c1, c2}
  Projects = {p1}
  ProjectOf <- Shared
  Steps = 1
  RootPriority = 5
  Outcome <- Mixed
  FirstQuery = "review_pending"
  MaxIterations = 4
  MaxFailures = 3
  MaxFaults = 1
SPECIFICATION Spec
CHECK_DEADLOCK FALSE
INVARIANTS
  TypeOK
  NothingLeftBehind
  LessonComesFirst
  SummariesAddUp
PROPERTIES
  VerdictStands
  ImplementsTaskLife
