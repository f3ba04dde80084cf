SPECIFICATION Spec
CONSTANTS
  p1 = p1
  p2 = p2
  Tasks = {1, 2}
  Workers = {w1}
  Performers = {p1, p2}
  TasksOf <- OneEach
  Priority <- Alike
  Owner = Owner
  Calls = {"waitForAll", "wait_for", "wait"}
  None = None
PROPERTIES TaskServed WaitForAllEnds
CHECK_DEADLOCK FALSE
