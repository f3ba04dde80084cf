SPECIFICATION Spec
CONSTANTS
  Records = {r1, r2}
  Workers = {w1, w2, w3}
  Clients = {c1, c2}
  CreateAttrs <- JoinableOnly
  Calls = {"join", "tryjoin", "cancel"}
  AsyncCancel = FALSE
  Overlap = FALSE
  None = None
INVARIANTS TypeOK OwnRecord
PROPERTIES JoinReturns
CHECK_DEADLOCK FALSE
