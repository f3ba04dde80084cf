SPECIFICATION Spec
CONSTANTS
  p1 = p1
  p2 = p2
  Tasks = {1, 2}
  Workers = {w1, w2}
  Performers = {p1}
  TasksOf <- AllByOne
  Priority <- Distinct
  Owner = Owner
  Calls = {"update", "cancel"}
  None = None
INVARIANTS TypeOK CountersExact CompletedOnce CancelMissesAtMostOne TaskRemembered
SYMMETRY WorkersAlike
CHECK_DEADLOCK FALSE
