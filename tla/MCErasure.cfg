SPECIFICATION FairSpec
CONSTANTS
  a = a
  b = b
  Tenants = {a, b}
  Requests = {q1}
  None = None
  Runs = {r1, r2}
  NumIngests = 2
  Owner <- TwoObjects
  Earlier = {1}
  PageSize = 1
  MaxFailures = 2
  MaxDisasters = 1
INVARIANTS ObjectsStayErased RowsStayErased RowsHaveObjects IntentsReplayable
PROPERTY ErasureCompletes
CHECK_DEADLOCK FALSE
