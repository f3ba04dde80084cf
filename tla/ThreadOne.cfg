SPECIFICATION Spec
CONSTANTS
  Records = {r1}
  Workers = {w1}
  Clients = {c1, c2}
  CreateAttrs <- JoinableOrDetached
  Calls = {"join", "timedjoin", "tryjoin", "detach", "cancel"}
  AsyncCancel = TRUE
  Overlap = FALSE
  None = None
INVARIANTS OwnRecord
CHECK_DEADLOCK FALSE
