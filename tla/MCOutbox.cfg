SPECIFICATION FairSpec
CONSTANTS
  Jobs = {j1, j2}
  Processes = {p1, p2}
  Owners = {"worker-1"}
  WorkerID <- MCWorkerID
  BatchSize = 2
  LeaseDuration = 2
  MaximumAttempts = 2
  MaximumBackoff = 2
  MaxFaults = 2
INVARIANT SingleWriter
PROPERTIES Delivers EverySettled
